------------------------------ MODULE Commands ------------------------------
(***************************************************************************)
(* Direct messages to the bot: the table of commands (pkg/slack), the      *)
(* parser that finds the command and its parameters, the handlers up to    *)
(* the call of the manager, and the answer.                                *)
(*                                                                         *)
(* A message is a sequence of words with one blank between them; a word is *)
(* a sequence of parts with commas between them, and a part a sequence of  *)
(* atoms with blanks between them: one atom, or none where a comma follows *)
(* a comma. A parameter that takes in several words is joined the same     *)
(* way. A quoted text is one atom.                                         *)
(***************************************************************************)
EXTENDS Integers, Sequences, SequencesExt, FiniteSets

CONSTANTS
    Texts,          \* messages
    Senders,        \* users who write them
    KnownPlatforms, KnownArchitectures, KnownParameters,
    KnownTests,     \* SupportedTests
    UpgradeTests,   \* names of tests with "-upgrade" in them
    HostedPrefixed, \* atoms that start with a version of HypershiftSupportedVersions
    CurrentHosted,  \* the current release is one of HypershiftSupportedVersions
    KeyOf,          \* atom with "=" -> what precedes it
    ValueOf,        \* atom with "=" -> what follows it
    WorkflowConfig, \* workflow -> its platform and architecture, "" for none
    Hours,          \* atoms that time.ParseDuration accepts
    ManagedBy,      \* user -> names of the MCE clusters of the user
    BySlackID,      \* user -> employee, or None
    ByEmail,        \* user -> employee with the email of the user, or None
    WithEmail,      \* users whose Slack profile shows an email
    HybridPlatforms,\* the employees in the organization
    MaxTries,       \* calls of PostMessage within the 20 seconds of postResponse
    None

VARIABLES
    message,  \* the message in work: who wrote what and where
    stage,    \* how far its goroutine is
    ran,      \* the command that was matched, with its properties
    call,     \* what the manager was asked to do
    tries     \* calls of PostMessage

commandVars == <<message, stage, ran, call, tries>>

-----------------------------------------------------------------------------
(* The table, in the order in which the commands are tried.                *)

Command(words, parameters) == [words |-> words, parameters |-> parameters, lazy |-> FALSE]

SupportedCommands ==
    << Command(<<"launch">>, <<"image_or_version_or_prs", "options">>),
       Command(<<"rosa", "create">>, <<"version", "duration">>),
       Command(<<"rosa", "lookup">>, <<"version">>),
       Command(<<"rosa", "describe">>, <<"cluster">>),
       Command(<<"list">>, <<>>),
       Command(<<"done">>, <<>>),
       Command(<<"refresh">>, <<>>),
       Command(<<"auth">>, <<>>),
       Command(<<"test", "upgrade">>, <<"from", "to", "options">>),
       Command(<<"test">>, <<"name", "image_or_version_or_prs", "options">>),
       Command(<<"build">>, <<"pullrequest">>),
       Command(<<"workflow-launch">>, <<"name", "image_or_version_or_prs", "parameters">>),
       Command(<<"workflow-test">>, <<"name", "image_or_version_or_prs", "parameters">>),
       Command(<<"workflow-upgrade">>, <<"name", "from_image_or_version_or_prs",
                                         "to_image_or_version_or_prs", "parameters">>),
       Command(<<"version">>, <<>>),
       Command(<<"lookup">>, <<"image_or_version_or_prs", "architecture">>),
       Command(<<"catalog", "build">>, <<"pullrequest", "bundle_name">>),
       Command(<<"mce", "create">>, <<"image_or_version_or_prs", "duration", "platform">>),
       Command(<<"mce", "auth">>, <<"name">>),
       Command(<<"mce", "delete">>, <<"cluster_name">>),
       Command(<<"mce", "list">>, <<"all">>),
       Command(<<"mce", "lookup">>, <<>>),
       [Command(<<"request">>, <<"resource", "justification">>) EXCEPT !.lazy = TRUE],
       [Command(<<"revoke">>, <<"resource">>) EXCEPT !.lazy = TRUE] >>

\* What may be recorded of a message whose command is run.
Runs == [command : ToSet(SupportedCommands),
         properties : UNION {[ToSet(c.parameters) -> Seq(Seq(STRING))] :
                                c \in ToSet(SupportedCommands)},
         membership : {"member", "non_member", "unknown"}]

\* Atoms are strings and a word has a part; names of platforms have no "=";
\* None is neither a command nor a run of one.
ASSUME CommandsAssumption ==
    /\ \A t \in Texts : t \in Seq(Seq(Seq(STRING)) \ {<<>>})
    /\ IsFiniteSet(KnownPlatforms)
    /\ KnownPlatforms \cap DOMAIN KeyOf = {}
    /\ None \notin ToSet(SupportedCommands) \cup Runs

-----------------------------------------------------------------------------
(* The parser.                                                             *)

Word(atom) == << <<atom>> >>

\* A value with a blank and a word after it.
Glue(v, w) == IF v = <<>> THEN w ELSE Front(v) \o << Last(v) \o Head(w) >> \o Tail(w)

\* Words with blanks between them, as one value.
Join(words) ==
    LET joined[n \in 0..Len(words)] ==
            IF n = 0 THEN <<>> ELSE Glue(joined[n - 1], words[n])
    IN  joined[Len(words)]

\* The words of the message that the words of a command leave.
Rest(c, text) == SubSeq(text, Len(c.words) + 1, Len(text))

Begins(c, text) ==
    /\ Len(c.words) <= Len(text)
    /\ \A i \in 1..Len(c.words) : text[i] = Word(c.words[i])

\* The expressions of a command differ in how many of the parameters they
\* have; a parameter takes in as little as it can, and so the last one the
\* words that are left, unless it takes one word only.
Matches(c, text) ==
    /\ Begins(c, text)
    /\ c.lazy \/ c.parameters = <<>> => Len(Rest(c, text)) <= Len(c.parameters)

\* Mutant: the first parameter takes in as much as it can.
TakenMutant(rest, n, i) ==
    IF i > 1 THEN rest[Len(rest) - n + i] ELSE Join(SubSeq(rest, 1, Len(rest) - n + 1))

\* What the i-th of n parameters takes in.
Taken(rest, n, i) ==
    IF i < n THEN rest[i] ELSE Join(SubSeq(rest, n, Len(rest)))

\* The properties of a match: parameter -> value, <<>> where there is none.
Properties(c, text) ==
    LET rest == Rest(c, text)
        n == IF Len(rest) < Len(c.parameters) THEN Len(rest) ELSE Len(c.parameters)
    IN  [p \in ToSet(c.parameters) |->
            LET i == CHOOSE i \in 1..Len(c.parameters) : c.parameters[i] = p
            IN  IF i > n THEN <<>> ELSE Taken(rest, n, i)]

\* Mutant: the last command of the table that matches.
MatchMutant(text) ==
    LET all == {i \in 1..Len(SupportedCommands) : Matches(SupportedCommands[i], text)}
    IN  IF all = {} THEN None
        ELSE SupportedCommands[CHOOSE i \in all : \A k \in all : k <= i]

\* The first command of the table that matches.
Match(text) ==
    LET all == {i \in 1..Len(SupportedCommands) : Matches(SupportedCommands[i], text)}
    IN  IF all = {} THEN None
        ELSE SupportedCommands[CHOOSE i \in all : \A k \in all : i <= k]

-----------------------------------------------------------------------------
(* Values of parameters.                                                   *)

\* The parts between the commas, without the empty ones.
ParseImageInput(value) ==
    LET kept[n \in 0..Len(value)] ==
            IF n = 0 THEN <<>>
            ELSE IF value[n] = <<>> THEN kept[n - 1] ELSE Append(kept[n - 1], value[n])
    IN  kept[Len(value)]

\* "no valid inputs found": there is a value, of commas alone.
NoInput(value) == value # <<>> /\ ParseImageInput(value) = <<>>

Atom(part) == part[1]

HasKey(part) == Len(part) > 0 /\ Atom(part) \in DOMAIN KeyOf

\* What a part says: a key with its value, or a key alone.
Key(part) == IF HasKey(part) THEN <<KeyOf[Atom(part)]>> ELSE part
Value(part) == IF HasKey(part) THEN ValueOf[Atom(part)] ELSE ""

\* The last part with a key gives its value.
ParamsFromAnnotation(value) ==
    [k \in {Key(value[i]) : i \in 1..Len(value)} |->
        LET last == CHOOSE i \in 1..Len(value) :
                        /\ Key(value[i]) = k
                        /\ \A h \in 1..Len(value) : Key(value[h]) = k => h <= i
        IN  Value(value[last])]

Refused == [ok |-> FALSE]

DefaultPlatform(architecture, inputs, jobType) ==
    IF /\ architecture \in {"", "multi"}
       /\ jobType = "install"
       /\ \/ Len(inputs) = 1 /\ Atom(inputs[1][1]) \in HostedPrefixed
          \/ CurrentHosted /\ (inputs = <<>>
                \/ inputs[1][1] \in {<<"nightly">>, <<"ci">>, <<"prerelease">>})
    THEN "hypershift-hosted" ELSE "aws"

\* Mutant: nobody checks the architecture.
HostedFitsMutant(platform, architecture) == TRUE

HostedFits(platform, architecture) ==
    platform = "hypershift-hosted" => architecture = "multi"

\* At most one platform, at most one architecture and known parameters; what
\* is not said gets a default, and hypershift-hosted needs multi.
ParseOptions(value, inputs, jobType) ==
    LET options == {Key(value[i]) : i \in 1..Len(value)}
        platforms == {p \in KnownPlatforms : <<p>> \in options}
        architectures == {a \in KnownArchitectures : <<a>> \in options}
        typed(S) == IF S = {} THEN "" ELSE CHOOSE x \in S : TRUE
        platform == IF platforms # {} THEN typed(platforms)
                    ELSE DefaultPlatform(typed(architectures), inputs, jobType)
        architecture == IF architectures # {} THEN typed(architectures)
                        ELSE IF platform = "hypershift-hosted" THEN "multi" ELSE "amd64"
        rest == options \ {<<x>> : x \in platforms \cup architectures}
    IN  IF \/ <<>> \in options
           \/ Cardinality(platforms) > 1 \/ Cardinality(architectures) > 1
           \/ ~(rest \subseteq {<<p>> : p \in KnownParameters})
           \/ ~HostedFits(platform, architecture)
        THEN Refused
        ELSE [ok |-> TRUE, platform |-> platform, architecture |-> architecture,
              params |-> [k \in rest |-> ParamsFromAnnotation(value)[k]]]

\* Every parameter of a workflow is written "KEY=VALUE".
BuildJobParams(value) ==
    IF \E i \in 1..Len(value) : ~HasKey(value[i]) THEN Refused
    ELSE [ok |-> TRUE, params |-> ParamsFromAnnotation(value)]

\* The platform and the architecture of a workflow, if it is in the list and
\* its architecture is supported.
GetPlatformArchFromWorkflowConfig(name) ==
    IF name \notin DOMAIN WorkflowConfig THEN Refused
    ELSE LET w == WorkflowConfig[name]
         IN  IF w.architecture \notin KnownArchitectures \cup {""} THEN Refused
             ELSE [ok |-> TRUE, platform |-> w.platform,
                   architecture |-> IF w.platform = "hypershift-hosted" THEN "multi"
                                    ELSE IF w.architecture = "" THEN "amd64"
                                    ELSE w.architecture]
-----------------------------------------------------------------------------
(* The handlers (actions.go): what they ask the manager for, or None where *)
(* they answer with what is wrong. A handler is the set of its outcomes.   *)

Launch(jobType, inputs, how, params, workflow) ==
    [op |-> "LaunchJobForUser", type |-> jobType, inputs |-> inputs,
     platform |-> how.platform, architecture |-> how.architecture,
     params |-> params, workflow |-> workflow]

Param(params, k) == IF <<k>> \in DOMAIN params THEN params[<<k>>] ELSE ""

\* The parameters of a job with the test it is to run.
WithTest(params, test) ==
    [k \in DOMAIN params \cup {<<"test">>} |-> IF k = <<"test">> THEN test ELSE params[k]]

LaunchCluster(p) ==
    LET from == ParseImageInput(p.image_or_version_or_prs)
        inputs == IF from = <<>> THEN <<>> ELSE <<from>>
        o == ParseOptions(p.options, inputs, "install")
    IN  IF NoInput(p.image_or_version_or_prs) \/ ~o.ok THEN None
        ELSE IF Param(o.params, "test") # "" THEN None
        ELSE Launch("install", inputs, o, o.params, "")

TestUpgrade(p) ==
    LET from == ParseImageInput(p.from)
        to == IF p.to = <<>> THEN from ELSE ParseImageInput(p.to)
        o == ParseOptions(p.options, <<from, to>>, "upgrade")
        test == IF Param(o.params, "test") = "" THEN "e2e-upgrade" ELSE Param(o.params, "test")
    IN  IF from = <<>> \/ to = <<>> \/ ~o.ok THEN None
        ELSE IF test \notin UpgradeTests THEN None
        ELSE Launch("upgrade", <<from, to>>, o, WithTest(o.params, test), "")

Test(p) ==
    LET from == ParseImageInput(p.image_or_version_or_prs)
        o == ParseOptions(p.options, <<from>>, "test")
        tests == {t \in KnownTests : p.name = Word(t)}
    IN  IF from = <<>> \/ tests = {} \/ ~o.ok THEN None
        ELSE LET test == CHOOSE t \in tests : TRUE
             IN  IF test \in UpgradeTests THEN None
                 ELSE Launch("test", <<from>>, o, WithTest(o.params, test), "")

CatalogBuild(p) ==
    LET from == ParseImageInput(p.pullrequest)
        bundle == ParseImageInput(p.bundle_name)
        o == ParseOptions(<<>>, <<from>>, "catalog")
    IN  IF from = <<>> \/ bundle = <<>> THEN None
        ELSE Launch("catalog", <<from>>, o, <<"bundle">> :> bundle[1], "")

Build(p) ==
    LET from == ParseImageInput(p.pullrequest)
        o == ParseOptions(<<>>, <<from>>, "build")
    IN  IF from = <<>> THEN None ELSE Launch("build", <<from>>, o, o.params, "")

\* WorkflowLaunch, WorkflowTest and WorkflowUpgrade.
Workflow(jobType, inputs, name, parameters) ==
    LET how == GetPlatformArchFromWorkflowConfig(name)
        o == BuildJobParams(parameters)
    IN  IF <<>> \in ToSet(inputs) \/ ~how.ok \/ ~o.ok THEN None
        ELSE Launch(jobType, inputs, how, o.params, name)

WorkflowLaunch(p) ==
    Workflow("workflow-launch", <<ParseImageInput(p.image_or_version_or_prs)>>,
             p.name, p.parameters)

WorkflowTest(p) ==
    Workflow("workflow-test", <<ParseImageInput(p.image_or_version_or_prs)>>,
             p.name, p.parameters)

WorkflowUpgrade(p) ==
    Workflow("workflow-upgrade",
             <<ParseImageInput(p.from_image_or_version_or_prs),
               ParseImageInput(p.to_image_or_version_or_prs)>>, p.name, p.parameters)

\* One value or none; more than one is refused.
Single(value) == ~NoInput(value) /\ Len(ParseImageInput(value)) <= 1

Lookup(p) ==
    LET architecture == IF p.architecture = <<>> THEN <<"amd64">>
                        ELSE ParseImageInput(p.architecture)[1]
    IN  IF NoInput(p.image_or_version_or_prs) \/ ~Single(p.architecture) THEN None
        ELSE IF architecture \notin {<<a>> : a \in KnownArchitectures} THEN None
        ELSE [op |-> "LookupInputs", inputs |-> ParseImageInput(p.image_or_version_or_prs),
              architecture |-> architecture]

\* Only the first of several durations counts.
BadDuration(value) ==
    \/ NoInput(value)
    \/ value # <<>> /\ ParseImageInput(value)[1] \notin {<<h>> : h \in Hours}

Duration(value) == IF value = <<>> THEN <<>> ELSE ParseImageInput(value)[1]

RosaCreate(p) ==
    IF ~Single(p.version) THEN None
    ELSE IF BadDuration(p.duration) THEN None
    ELSE [op |-> "CreateRosaCluster", version |-> ParseImageInput(p.version),
          duration |-> Duration(p.duration)]

RosaLookup(p) ==
    IF ~Single(p.version) THEN None
    ELSE [op |-> "LookupRosaInputs", version |-> ParseImageInput(p.version)]

RosaDescribe(p) ==
    IF ~Single(p.cluster) THEN None
    ELSE [op |-> "DescribeROSACluster", cluster |-> ParseImageInput(p.cluster)]

\* The check for more than one platform reads the wrong variable: several
\* platforms count as none.
MceCreate(p) ==
    LET platform == ParseImageInput(p.platform)
    IN  IF NoInput(p.image_or_version_or_prs) \/ NoInput(p.platform) THEN None
        ELSE IF BadDuration(p.duration) THEN None
        ELSE [op |-> "CreateMceCluster",
              inputs |-> ParseImageInput(p.image_or_version_or_prs),
              platform |-> IF Len(platform) = 1 THEN platform[1] ELSE <<>>,
              duration |-> Duration(p.duration)]

\* The one cluster of the user where no name is given.
OnlyCluster(u) == IF Cardinality(ManagedBy[u]) = 1
                  THEN CHOOSE c \in ManagedBy[u] : TRUE ELSE None

MceAuth(u, p) ==
    LET name == IF p.name = <<>> THEN OnlyCluster(u) ELSE ParseImageInput(p.name)[1]
    IN  IF ~Single(p.name) THEN None
        ELSE IF name \notin ManagedBy[u] THEN None
        ELSE [op |-> "NotifyMce", name |-> name]

MceDelete(u, p) ==
    LET name == IF p.cluster_name = <<>> THEN OnlyCluster(u)
                ELSE ParseImageInput(p.cluster_name)[1]
    IN  IF ~Single(p.cluster_name) THEN None
        ELSE IF name = None THEN None
        ELSE [op |-> "DeleteMceCluster", name |-> name]

MceList(u, p) ==
    IF NoInput(p.all) THEN None
    ELSE [op |-> "ListManagedClusters",
          user |-> IF p.all # <<>> /\ ParseImageInput(p.all)[1] = <<"all">> THEN None ELSE u]

\* Mutant: the email counts for whoever is not in the organization by the Slack ID.
ClassifyUserMembershipMutant(u, email) ==
    LET employees == {BySlackID[u]} \cup IF email THEN {ByEmail[u]} ELSE {}
    IN  IF employees \subseteq {None} THEN "unknown"
        ELSE IF employees \cap HybridPlatforms # {} THEN "member" ELSE "non_member"

\* The email counts only for whoever has no employee with the Slack ID.
ClassifyUserMembership(u, email) ==
    LET employee == IF BySlackID[u] = None /\ email THEN ByEmail[u] ELSE BySlackID[u]
    IN  IF employee = None THEN "unknown"
        ELSE IF employee \in HybridPlatforms THEN "member" ELSE "non_member"

\* The Slack profile may not be had; otherwise the user is a member or is
\* turned down.
ForMembers(u, op) ==
    {None} \cup IF u \in WithEmail /\ ClassifyUserMembership(u, TRUE) = "member"
                THEN {[op |-> op, user |-> u]} ELSE {}

request(u, p) ==
    IF p.resource # Word("gcp-access") \/ p.justification = <<>> THEN {None}
    ELSE ForMembers(u, "GrantGCPAccess")

Revoke(u, p) ==
    IF p.resource # Word("gcp-access") THEN {None} ELSE ForMembers(u, "RevokeGCPAccess")

\* A ROSA cluster comes before a cluster of a job; there may be neither.
Auth == {[op |-> "NotifyRosa"], [op |-> "NotifyJob"], None}

Handler(c, u, p) ==
    CASE c.words = <<"launch">>           -> {LaunchCluster(p)}
      [] c.words = <<"rosa", "create">>   -> {RosaCreate(p)}
      [] c.words = <<"rosa", "lookup">>   -> {RosaLookup(p)}
      [] c.words = <<"rosa", "describe">> -> {RosaDescribe(p)}
      [] c.words = <<"list">>             -> {[op |-> "ListJobs"]}
      [] c.words = <<"done">>             -> {[op |-> "TerminateJobForUser"]}
      [] c.words = <<"refresh">>          -> {[op |-> "SyncJobForUser"]}
      [] c.words = <<"auth">>             -> Auth
      [] c.words = <<"test", "upgrade">>  -> {TestUpgrade(p)}
      [] c.words = <<"test">>             -> {Test(p)}
      [] c.words = <<"build">>            -> {Build(p)}
      [] c.words = <<"workflow-launch">>  -> {WorkflowLaunch(p)}
      [] c.words = <<"workflow-test">>    -> {WorkflowTest(p)}
      [] c.words = <<"workflow-upgrade">> -> {WorkflowUpgrade(p)}
      [] c.words = <<"version">>          -> {None}
      [] c.words = <<"lookup">>           -> {Lookup(p)}
      [] c.words = <<"catalog", "build">> -> {CatalogBuild(p)}
      [] c.words = <<"mce", "create">>    -> {MceCreate(p)}
      [] c.words = <<"mce", "auth">>      -> {MceAuth(u, p)}
      [] c.words = <<"mce", "delete">>    -> {MceDelete(u, p)}
      [] c.words = <<"mce", "list">>      -> {MceList(u, p)}
      [] c.words = <<"mce", "lookup">>    -> {[op |-> "ListMceVersions"]}
      [] c.words = <<"request">>          -> request(u, p)
      [] c.words = <<"revoke">>           -> Revoke(u, p)

-----------------------------------------------------------------------------
(* A message and its answer.                                               *)

CommandInit ==
    /\ message = None /\ stage = "idle"
    /\ ran = None /\ call = None /\ tries = 0

\* handleEvent: Slack has its 200 before a goroutine looks at the message.
Receive ==
    /\ stage = "idle"
    /\ \E t \in Texts, u \in Senders, kind \in {"dm", "other"} :
          message' = [text |-> t, user |-> u, kind |-> kind]
    /\ stage' = "handle"
    /\ UNCHANGED <<ran, call, tries>>

\* No direct message of a person, or an edit of one: bots and edits get no
\* answer, a channel is told once where to go.
Ignore ==
    /\ stage = "handle"
    /\ message.kind # "dm"
    /\ stage' = "done"
    /\ UNCHANGED <<message, ran, call, tries>>

Help ==
    /\ stage = "handle"
    /\ message.kind = "dm" /\ message.text[1] = Word("help")
    /\ stage' = "post"
    /\ UNCHANGED <<message, ran, call, tries>>

Unrecognized ==
    /\ stage = "handle"
    /\ message.kind = "dm" /\ message.text[1] # Word("help")
    /\ Match(message.text) = None
    /\ stage' = "post"
    /\ UNCHANGED <<message, ran, call, tries>>

\* What is recorded about the user: the email is asked for only where the
\* Slack ID says nothing, and may not be had.
MembershipRecorded(u) ==
    {ClassifyUserMembership(u, FALSE)}
    \cup IF ClassifyUserMembership(u, FALSE) = "unknown" /\ u \in WithEmail
         THEN {ClassifyUserMembership(u, TRUE)} ELSE {}

executeCommand ==
    /\ stage = "handle"
    /\ message.kind = "dm" /\ message.text[1] # Word("help")
    /\ Match(message.text) # None
    /\ LET c == Match(message.text)
           p == Properties(c, message.text)
       IN  \E m \in MembershipRecorded(message.user) :
              /\ ran' = [command |-> c, properties |-> p, membership |-> m]
              /\ call' \in Handler(c, message.user, p)
    /\ stage' = "post"
    /\ UNCHANGED <<message, tries>>

\* The handlers that notify on their own return a blank answer, which Slack
\* does not take.
BlankAnswer(c) == c # None /\ c.op \in {"NotifyMce", "NotifyRosa", "NotifyJob"}

\* postResponse tries again for 20 seconds; nothing is run again.
postResponse ==
    /\ stage = "post"
    /\ \/ ~BlankAnswer(call) /\ stage' = "done" /\ UNCHANGED tries
       \/ tries < MaxTries /\ tries' = tries + 1 /\ UNCHANGED stage
       \/ tries = MaxTries /\ stage' = "failed" /\ UNCHANGED tries
    /\ UNCHANGED <<message, ran, call>>

CommandNext ==
    \/ Receive
    \/ Ignore
    \/ Help
    \/ Unrecognized
    \/ executeCommand
    \/ postResponse

CommandSpec == CommandInit /\ [][CommandNext]_commandVars

-----------------------------------------------------------------------------
(* Properties.                                                             *)

\* The value of the i-th parameter of the command that ran.
ValueAt(i) == ran.properties[ran.command.parameters[i]]

\* The bot does what was typed. The command it runs is the one that more
\* words of the message name than any other ("test upgrade" is no test of the
\* name upgrade), whatever the order of the table; its parameters make up the
\* rest of the message, with no word lost, doubled or out of place, and only
\* the last has more than one word. A message that names a command and is not
\* understood has more words than the command takes.
RunsWhatWasTyped ==
    LET named == {c \in ToSet(SupportedCommands) : Begins(c, message.text)}
        rest == Rest(ran.command, message.text)
    IN  /\ ran # None =>
              /\ message.kind = "dm"
              /\ ran.command \in named
              /\ \A c \in named : Len(c.words) <= Len(ran.command.words)
              /\ \E n \in 0..Len(ran.command.parameters) :
                    /\ \A i \in 1..Len(ran.command.parameters) : i <= n <=> ValueAt(i) # <<>>
                    /\ Join([i \in 1..n |-> ValueAt(i)]) = Join(rest)
                    /\ \A i \in 1..(n - 1) : ValueAt(i) \in ToSet(rest)
        /\ (stage = "post" /\ ran = None) =>
              \/ message.text[1] = Word("help")
              \/ \A c \in named : /\ c.lazy \/ c.parameters = <<>>
                                  /\ Len(Rest(c, message.text)) > Len(c.parameters)

\* What the manager is asked to launch makes sense, whatever was typed:
\* hypershift-hosted only with the architecture multi, a platform that was
\* typed is the platform used, an upgrade has two ends and an upgrade test, a
\* test has none, and no input is empty.
LaunchFits ==
    (call # None /\ call.op = "LaunchJobForUser") =>
        /\ call.platform = "hypershift-hosted" => call.architecture = "multi"
        /\ \A a \in KnownPlatforms :
              "options" \in DOMAIN ran.properties /\ <<a>> \in ToSet(ran.properties["options"])
                 => call.platform = a
        /\ call.type \in {"upgrade", "workflow-upgrade"} => Len(call.inputs) = 2
        /\ call.type = "upgrade" => call.params[<<"test">>] \in UpgradeTests
        /\ call.type = "test" => call.params[<<"test">>] \notin UpgradeTests
        /\ \A i \in 1..Len(call.inputs) :
              call.inputs[i] # <<>> /\ <<>> \notin ToSet(call.inputs[i])

\* Access to GCP is granted to members of the organization alone, and nobody
\* gets it whose usage is recorded as that of a non-member: the employee with
\* the Slack ID of the user decides, the email only where there is none.
GrantedToMembers ==
    (call # None /\ call.op \in {"GrantGCPAccess", "RevokeGCPAccess"}) =>
        /\ ran.membership # "non_member"
        /\ \/ BySlackID[message.user] \in HybridPlatforms
           \/ /\ BySlackID[message.user] = None
              /\ ByEmail[message.user] \in HybridPlatforms
=============================================================================
