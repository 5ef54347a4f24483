------------------------------ MODULE MCSlack -------------------------------
(* Both ways to the bot in one instance for TLC: a user opens a dialog or   *)
(* writes a message. The bot keeps nothing that the two share, and so one   *)
(* behaviour has one of the two.                                            *)
EXTENDS MCModalFlow, Commands

CONSTANTS member, leaver, guest

\* Parts of a word with a comma after each but the last; "" is an empty part.
Comma(parts) == [i \in 1..Len(parts) |-> IF parts[i] = "" THEN <<>> ELSE <<parts[i]>>]

ArgWords ==
    {Word(a) : a \in {"4.19", "upgrade", "e2e", "gcp-access", "hosted-wf", "3h"}}
    \cup {Comma(<<"aws", "arm64">>), Comma(<<"hypershift-hosted", "arm64">>),
          Comma(<<"nightly", "">>),
          Comma(<<"test=e2e-upgrade", "fips">>)}

Arguments == UNION {[1..n -> ArgWords] : n \in 0..3}

MCTexts ==
    {[i \in 1..Len(c.words) |-> Word(c.words[i])] \o args :
        c \in ToSet(SupportedCommands), args \in Arguments}
    \cup {<<Word("help")>>, <<Word("hello"), Word("list")>>}
    \cup {<<Word(w), Word("hosted-wf"), Word("4.19"), Word("A=1"), Word("A=1")>> :
             w \in {"workflow-launch", "workflow-test", "workflow-upgrade"}}

MCKeyOf == "A=1" :> "A" @@ "test=e2e-upgrade" :> "test"
MCValueOf == "A=1" :> "1" @@ "test=e2e-upgrade" :> "e2e-upgrade"
MCWorkflowConfig ==
    Word("hosted-wf") :> [platform |-> "hypershift-hosted", architecture |-> ""]
MCManagedBy == [u \in Senders |-> IF u = member THEN {<<"4.19">>} ELSE {}]

\* The employee with the Slack ID of the leaver is no longer in the
\* organization, the one with the same email is; the guest has no employee.
MCBySlackID == member :> None @@ leaver :> "former" @@ guest :> None
MCByEmail == member :> "employee" @@ leaver :> "employee" @@ guest :> None

SlackInit == Init /\ CommandInit

SlackNext ==
    \/ stage = "idle" /\ Next /\ UNCHANGED commandVars
    \/ view.step = "none" /\ CommandNext /\ UNCHANGED vars

SlackSpec == SlackInit /\ [][SlackNext]_<<vars, commandVars>>
=============================================================================
