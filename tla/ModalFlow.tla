----------------------------- MODULE ModalFlow -----------------------------
(***************************************************************************)
(* The dialogs of pkg/slack/modals and their router. A dialog is one Slack *)
(* view; the bot keeps nothing of it in memory. What the user has chosen   *)
(* so far travels in the private metadata of the view and comes back with  *)
(* every interaction. A submission is answered at once by the view         *)
(* "Processing the next step", and a goroutine overwrites the view when    *)
(* the next form is ready; the back button overwrites it without such a    *)
(* view, so that the user may act again before the overwrite lands.        *)
(***************************************************************************)
EXTENDS Integers, FiniteSets

CONSTANTS
    Flows,          \* the dialogs: "launch", "mce" and "simple"
    Platforms,      \* SupportedPlatforms and MCEPlatforms
    Architectures,  \* SupportedArchitectures
    Durations,      \* the durations offered for an MCE cluster
    TagsOf,         \* the release controller: stream -> tags
    StableStreams,  \* streams that start with "4-stable"
    HostedStreams,  \* streams that filterStreams keeps for hypershift-hosted
    MinorOf,        \* tag -> its major.minor
    HostedMinors,   \* HypershiftSupportedVersions
    StartsWith,     \* <<tag, m>>: the tag starts with the major.minor m
    Customs,        \* pull specs
    PRs, ValidPRs,  \* pull requests, and those that resolve
    ParamsFor,      \* platform -> the parameters offered for it
    MaxOptions,     \* SlackUIMaxOptions
    MaxPending,     \* bound on the updates under way
    Faults,         \* what may go wrong in a run (see below)
    Nil             \* no request

(***************************************************************************)
(*   fetch    the release controller does not answer                       *)
(*   slack    Slack refuses an update of the view                          *)
(*   network  an update gets no answer, so that UpdateView returns nil     *)
(*   race     an update lands before the "Processing" view                 *)
(*   restart  the bot restarts                                             *)
(*   clear    the user empties an optional field that the bot had filled   *)
(***************************************************************************)
ASSUME ModalAssumption ==
    /\ Flows \subseteq {"launch", "mce", "simple"}
    /\ StableStreams \subseteq DOMAIN TagsOf
    /\ HostedStreams \subseteq DOMAIN TagsOf
    /\ "hypershift-hosted" \in Platforms /\ {"amd64", "multi"} \subseteq Architectures
    /\ "" \notin Platforms \cup Architectures \cup Durations \cup Customs
    /\ "" \notin DOMAIN TagsOf \cup DOMAIN MinorOf
    /\ \A s \in DOMAIN TagsOf : TagsOf[s] \subseteq DOMAIN MinorOf
    /\ MaxOptions \in Nat /\ MaxPending \in Nat
    /\ Faults \subseteq {"fetch", "slack", "network", "race", "restart", "clear"}

VARIABLES
    view,     \* what the user sees: the step, and the metadata of its form
    pending,  \* updates of the view under way
    crashed,  \* a panic has ended the process of the bot
    lost      \* the update that "Processing" waits for was given up

vars == <<view, pending, crashed, lost>>

-----------------------------------------------------------------------------
(* The metadata of a view. Input and MultipleSelection are one record; "", *)
(* or {}, is an absent key.                                                *)

Steps == {"initial", "mode", "filter", "minorMajor", "version", "pr", "third"}

\* The order of the steps in clearForwardSelections.
Rank == [initial |-> 1, mode |-> 2, filter |-> 3, minorMajor |-> 4,
         version |-> 5, pr |-> 6, third |-> 7]

\* The step that asks for a key.
StepOf == [platform |-> "initial", architecture |-> "initial",
           duration |-> "initial", mode |-> "mode", stream |-> "filter",
           custom |-> "filter", majorMinor |-> "minorMajor",
           version |-> "version", pr |-> "pr", params |-> "third"]

Keys == DOMAIN StepOf

Blank == [k \in Keys |-> IF k \in {"pr", "params"} THEN {} ELSE ""]

\* A view with a form. "seen" is no part of the view: what the user entered
\* on the forms that lead to this one, as far as the last submission.
Form(cb, step, previousStep) ==
    [flow |-> cb.flow, step |-> step, prev |-> previousStep,
     data |-> cb.data, seen |-> cb.seen]

\* A view without one: processing, error, done, and the dialog when closed.
Plain(flow, step) ==
    [flow |-> flow, step |-> step, prev |-> "none", data |-> Blank, seen |-> Blank]

HasForm == view.step \in Steps

\* What the user enters wins over the metadata; an emptied field is absent
\* from the callback and so does not.
MergeCallbackData(fields) ==
    [k \in Keys |-> IF k \in DOMAIN fields /\ fields[k] # Blank[k]
                    THEN fields[k] ELSE view.data[k]]

Seen(fields) ==
    [k \in Keys |-> IF k \in DOMAIN fields THEN fields[k]
                    ELSE IF Rank[StepOf[k]] < Rank[view.step] THEN view.seen[k]
                    ELSE Blank[k]]

\* A submission, as the handlers of all steps but the first see it.
Callback(fields) ==
    [flow |-> view.flow, data |-> MergeCallbackData(fields), seen |-> Seen(fields)]

\* What the user may leave in an optional field that shows a value.
Optional(k, values) ==
    values \cup IF view.data[k] = Blank[k] \/ "clear" \in Faults
                THEN {Blank[k]} ELSE {}

HasPRMode(data) == data.mode = "Yes"

GetVersion(data) ==
    IF data.version # "" THEN data.version
    ELSE IF data.majorMinor # "" THEN data.majorMinor
    ELSE IF data.stream # "" THEN data.stream
    ELSE data.custom

-----------------------------------------------------------------------------
(* The views. A builder that asks the release controller may come back     *)
(* with the error view instead, so that builders are sets of views.        *)

FetchReleases(cb, views) ==
    views \cup IF "fetch" \in Faults THEN {Plain(cb.flow, "error")} ELSE {}

filterStreams(platform) ==
    IF platform = "hypershift-hosted" THEN HostedStreams ELSE DOMAIN TagsOf

SelectModeView(cb) == {Form(cb, "mode", "initial")}

FilterVersionView(cb) ==
    FetchReleases(cb,
        {IF filterStreams(cb.data.platform) = {} THEN Plain(cb.flow, "error")
         ELSE Form(cb, "filter", "mode")})

\* The versions of the chosen stream, of the chosen major.minor if there is one.
allTags(data) ==
    IF data.stream \notin DOMAIN TagsOf THEN {}
    ELSE {t \in TagsOf[data.stream] :
             data.majorMinor = "" \/ <<t, data.majorMinor>> \in StartsWith}

majorMinorReleases(data) ==
    IF data.stream \notin StableStreams THEN {}
    ELSE {MinorOf[t] : t \in TagsOf[data.stream]}
         \cap (IF data.platform = "hypershift-hosted" THEN HostedMinors
               ELSE {MinorOf[t] : t \in DOMAIN MinorOf})

SelectMinorMajor(cb, previousStep) ==
    FetchReleases(cb,
        {IF majorMinorReleases(cb.data) = {} THEN Plain(cb.flow, "error")
         ELSE Form(cb, "minorMajor", previousStep)})

\* More versions than a Slack menu can show lead to the form for major.minor.
SelectVersionView(cb, previousStep) ==
    FetchReleases(cb,
        IF allTags(cb.data) = {} THEN {Plain(cb.flow, "error")}
        ELSE IF Cardinality(allTags(cb.data)) > MaxOptions
             THEN SelectMinorMajor(cb, previousStep)
             ELSE {Form(cb, "version", previousStep)})

PRInputView(cb, previousStep) == {Form(cb, "pr", previousStep)}

ThirdStepView(cb, previousStep) == {Form(cb, "third", previousStep)}

-----------------------------------------------------------------------------
(* The router and the goroutines of the handlers.                          *)

\* openModal: a button of the home view or a shortcut.
OpenModal ==
    /\ view.step = "none" /\ ~crashed
    /\ \E f \in Flows :
          view' = IF f = "simple" THEN Plain(f, "simple")
                  ELSE Form([flow |-> f, data |-> Blank, seen |-> Blank],
                            "initial", "none")
    /\ UNCHANGED <<pending, crashed, lost>>

\* The user cancels or closes the dialog.
CloseModal ==
    /\ view.step \notin {"none", "closed"}
    /\ view' = Plain(view.flow, "closed")
    /\ lost' = FALSE
    /\ UNCHANGED <<pending, crashed>>

\* One overwrite, in a goroutine that recovers from a panic (SafeGo, and the
\* server of the back button) or in one that does not. The goroutine of a
\* last form first asks the job manager for the cluster.
Update(v, safe, request) ==
    [view |-> v, safe |-> safe, request |-> request, last |-> FALSE]

\* SubmitPrepare answers the submission, the goroutine is on its way. When
\* its overwrite lands before the answer, "Processing" is what remains.
Answer(views, safe, request) ==
    /\ ~crashed /\ Cardinality(pending) < MaxPending
    /\ view' = Plain(view.flow, "processing")
    /\ \E v \in views \cup (IF "race" \in Faults THEN {view'} ELSE {}) :
          pending' = pending \cup {Update(v, safe, request)}
    /\ lost' = FALSE
    /\ UNCHANGED crashed

\* OverwriteView passes no hash: the last update to land wins. A closed
\* dialog refuses the update and the error view after it.
OverwriteView(u) ==
    /\ pending' = pending \ {u}
    /\ view' = IF view.step = "closed" THEN view ELSE u.view
    /\ lost' = (view'.step = "processing")
    /\ UNCHANGED crashed

\* Mutant: the refusal is only logged.
RefuseUpdateMutant(u) ==
    /\ "slack" \in Faults
    /\ ~u.last
    /\ pending' = pending \ {u}
    /\ UNCHANGED <<view, crashed, lost>>

\* Slack refuses the update; the error view is the answer to that.
RefuseUpdate(u) ==
    /\ "slack" \in Faults
    /\ ~u.last
    /\ pending' = (pending \ {u})
         \cup {[Update(Plain(u.view.flow, "error"), u.safe, Nil) EXCEPT !.last = TRUE]}
    /\ UNCHANGED <<view, crashed, lost>>

\* No answer at all: the response is nil, and the warning that is to be
\* logged reads it. SafeGo survives that, a plain go statement does not.
LoseUpdate(u) ==
    /\ "network" \in Faults
    /\ lost' = (view.step = "processing")
    /\ IF u.safe \/ u.last
       THEN /\ pending' = pending \ {u}
            /\ UNCHANGED crashed
       ELSE /\ pending' = {}
            /\ crashed' = TRUE
    /\ UNCHANGED view

\* The bot is restarted; the views stay with Slack.
Restart ==
    /\ crashed \/ ("restart" \in Faults /\ pending # {})
    /\ pending' = {}
    /\ crashed' = FALSE
    /\ lost' = (view.step = "processing")
    /\ UNCHANGED view

-----------------------------------------------------------------------------
(* The steps of the launch and of the MCE dialog. A submission that fails  *)
(* validation leaves everything as it is: it is no step of the model.      *)

\* What each form may hold when the user leaves it; "" is nothing chosen.
FirstEntries ==
    [platform : (IF view.flow = "launch" THEN Platforms
                 ELSE Platforms \ {"hypershift-hosted"}) \cup {""},
     architecture : (IF view.flow = "launch" THEN Architectures ELSE {}) \cup {""},
     duration : (IF view.flow = "mce" THEN Durations ELSE {}) \cup {""}]

ModeEntries == [mode : {"Yes", "No", ""}]

FilterEntries ==
    [stream : Optional("stream", filterStreams(view.data.platform)),
     custom : Optional("custom", Customs)]

MinorMajorEntries == [majorMinor : majorMinorReleases(view.data) \cup {""}]

VersionEntries == [version : allTags(view.data) \cup {""}]

PREntries == [pr : SUBSET PRs]

ThirdEntries ==
    [params : IF view.flow = "launch" THEN SUBSET ParamsFor[view.data.platform]
              ELSE {{}}]

Entries ==
    CASE view.step = "initial" -> FirstEntries
      [] view.step = "mode" -> ModeEntries
      [] view.step = "filter" -> FilterEntries
      [] view.step = "minorMajor" -> MinorMajorEntries
      [] view.step = "version" -> VersionEntries
      [] view.step = "pr" -> PREntries
      [] view.step = "third" -> ThirdEntries

\* Handling the first form ignores the metadata; only the launch dialog
\* puts in the defaults, and hypershift-hosted needs the architecture multi.
FirstStepData(flow, fields) ==
    LET platform == IF fields.platform = "" /\ flow = "launch"
                    THEN "hypershift-hosted" ELSE fields.platform
        architecture == IF fields.architecture # "" THEN fields.architecture
                        ELSE IF platform = "hypershift-hosted" THEN "multi"
                        ELSE "amd64"
    IN  [k \in Keys |->
            CASE k = "platform" -> platform
              [] k = "architecture" -> IF flow = "launch" THEN architecture ELSE ""
              [] k = "duration" -> fields.duration
              [] OTHER -> Blank[k]]

\* Mutant: nobody checks the architecture.
FirstStepValidMutant(flow, data) == TRUE

FirstStepValid(flow, data) ==
    (flow = "launch" /\ data.platform = "hypershift-hosted")
        => data.architecture = "multi"

FirstStep ==
    /\ view.step = "initial"
    /\ \E fields \in Entries :
          LET data == FirstStepData(view.flow, fields)
          IN  /\ FirstStepValid(view.flow, data)
              /\ Answer(SelectModeView([flow |-> view.flow, data |-> data,
                                        seen |-> Seen(fields)]), TRUE, Nil)

ModeStep ==
    /\ view.step = "mode"
    /\ \E fields \in Entries :
          /\ fields.mode # ""
          /\ Answer(FilterVersionView(Callback(fields)), TRUE, Nil)

ValidateFilterVersion(data) == data.custom = "" \/ data.stream = ""

FilterVersionNext(cb) ==
    IF cb.data.custom = "" /\ cb.data.stream = "" THEN FilterVersionView(cb)
    ELSE IF cb.data.custom # "" /\ HasPRMode(cb.data) THEN PRInputView(cb, "filter")
    ELSE IF cb.data.custom # "" THEN ThirdStepView(cb, "filter")
    ELSE SelectVersionView(cb, "filter")

FilterVersionStep ==
    /\ view.step = "filter"
    /\ \E fields \in Entries :
          LET cb == Callback(fields)
          IN  /\ ValidateFilterVersion(cb.data)
              /\ Answer(FilterVersionNext(cb), TRUE, Nil)

\* The argument of the plain go statement, and with it the next view, is
\* evaluated by the handler itself.
SelectMinorMajorStep ==
    /\ view.step = "minorMajor"
    /\ \E fields \in Entries :
          /\ fields.majorMinor # ""
          /\ Answer(SelectVersionView(Callback(fields), "minorMajor"), FALSE, Nil)

SelectVersionStep ==
    /\ view.step = "version"
    /\ \E fields \in Entries :
          LET cb == Callback(fields)
          IN  /\ fields.version # ""
              /\ Answer(IF HasPRMode(cb.data) THEN PRInputView(cb, "version")
                        ELSE ThirdStepView(cb, "version"), TRUE, Nil)

\* ValidatePRInput resolves every pull request.
PRInputStep ==
    /\ view.step = "pr"
    /\ \E fields \in Entries :
          /\ fields.pr # {} /\ fields.pr \subseteq ValidPRs
          /\ Answer(ThirdStepView(Callback(fields), "pr"), FALSE, Nil)

\* What the last step of a dialog asks the job manager for.
RequestOf(cb) ==
    [flow |-> cb.flow, seen |-> cb.seen,
     asked |-> [platform |-> cb.data.platform, architecture |-> cb.data.architecture,
                duration |-> cb.data.duration, version |-> GetVersion(cb.data),
                prs |-> cb.data.pr,
                params |-> IF cb.flow = "launch" THEN cb.data.params ELSE {}]]

\* processLaunchOptionsStep; the job manager may refuse the configuration,
\* and either answer of LaunchJobForUser is shown.
LaunchOptionsStep ==
    /\ view.step = "third" /\ view.flow = "launch"
    /\ \E fields \in Entries :
          LET cb == Callback(fields)
          IN  Answer({Plain(cb.flow, "done")}, TRUE, RequestOf(cb))

\* The last step of the MCE dialog has nothing to fill in.
CreateConfirmStep ==
    /\ view.step = "third" /\ view.flow = "mce"
    /\ \E fields \in Entries :
          LET cb == Callback(fields)
          IN  Answer({Plain(cb.flow, "done")}, TRUE, RequestOf(cb))

\* list, auth, done, refresh and the MCE dialogs of one form.
SimpleProcess ==
    /\ view.step = "simple"
    /\ Answer({Plain(view.flow, "done"), Plain(view.flow, "error")}, TRUE, Nil)

-----------------------------------------------------------------------------
(* The back button.                                                        *)

\* Mutant: the selections of the forms that follow stay.
clearForwardSelectionsMutant(data, fromStep) == data

clearForwardSelections(data, fromStep) ==
    [k \in Keys |-> IF Rank[StepOf[k]] > Rank[fromStep] THEN Blank[k] ELSE data[k]]

\* Mutant: the form gets the step it is for as the step before it.
PreviousViewMutant(cb, previousStep) ==
    CASE previousStep = "initial" -> {Form(cb, "initial", "none")}
      [] previousStep = "mode" -> SelectModeView(cb)
      [] previousStep = "filter" -> FilterVersionView(cb)
      [] previousStep = "minorMajor" -> SelectMinorMajor(cb, previousStep)
      [] previousStep = "version" -> SelectVersionView(cb, previousStep)
      [] previousStep = "pr" -> PRInputView(cb, previousStep)

\* The forms without a value of their own are shown as after the filter form.
PreviousView(cb, previousStep) ==
    CASE previousStep = "initial" -> {Form(cb, "initial", "none")}
      [] previousStep = "mode" -> SelectModeView(cb)
      [] previousStep = "filter" -> FilterVersionView(cb)
      [] previousStep = "minorMajor" -> SelectMinorMajor(cb, "filter")
      [] previousStep = "version" -> SelectVersionView(cb, "filter")
      [] previousStep = "pr" ->
            PRInputView(cb, IF cb.data.version # "" \/ cb.data.custom # ""
                            THEN "filter" ELSE "mode")

\* What the user has entered on the form that is left counts as well. The
\* overwrite is under way while the form stays usable.
NavigateBack ==
    /\ HasForm /\ view.step # "initial"
    /\ ~crashed /\ Cardinality(pending) < MaxPending
    /\ \E fields \in Entries :
          LET data == clearForwardSelections(MergeCallbackData(fields), view.prev)
              cb == [flow |-> view.flow, data |-> data, seen |-> view.seen]
          IN  \E v \in PreviousView(cb, view.prev) :
                 pending' = pending \cup {Update(v, TRUE, Nil)}
    /\ UNCHANGED <<view, crashed, lost>>

-----------------------------------------------------------------------------
(* Specification.                                                          *)

Init ==
    /\ view = Plain("none", "none")
    /\ pending = {}
    /\ crashed = FALSE
    /\ lost = FALSE

SubmitStep ==
    \/ FirstStep
    \/ ModeStep
    \/ FilterVersionStep
    \/ SelectMinorMajorStep
    \/ SelectVersionStep
    \/ PRInputStep
    \/ LaunchOptionsStep
    \/ CreateConfirmStep
    \/ SimpleProcess

UpdateLands == \E u \in pending : OverwriteView(u) \/ RefuseUpdate(u) \/ LoseUpdate(u)

Next ==
    \/ OpenModal
    \/ CloseModal
    \/ SubmitStep
    \/ NavigateBack
    \/ UpdateLands
    \/ Restart

Spec == Init /\ [][Next]_vars

-----------------------------------------------------------------------------
(* Properties.                                                             *)

\* What the job manager is being asked for.
Requests == {u.request : u \in pending} \ {Nil}

\* What the entries on the forms mean: the defaults of the launch dialog,
\* the pull spec or the version, the pull requests only if they were wanted.
Meaning(flow, seen) ==
    LET platform == IF flow = "launch" /\ seen.platform = ""
                    THEN "hypershift-hosted" ELSE seen.platform
    IN  [platform |-> platform,
         architecture |-> IF flow = "mce" \/ seen.architecture # ""
                          THEN seen.architecture
                          ELSE IF platform = "hypershift-hosted" THEN "multi"
                          ELSE "amd64",
         duration |-> seen.duration,
         version |-> IF seen.custom # "" THEN seen.custom ELSE seen.version,
         prs |-> IF seen.mode = "Yes" THEN seen.pr ELSE {},
         params |-> seen.params]

\* Whatever way the user took through the forms, back and forth and with
\* overwrites still under way, the cluster that is asked for is the one
\* described by the forms last submitted: no selection of a form that was
\* left with the back button leaks into the request, none is dropped.
RequestIsChosen ==
    \A r \in Requests : r.asked = Meaning(r.flow, r.seen)

\* A request fits its platform: hypershift-hosted gets the architecture
\* multi, the parameters are those offered for the platform, and the user
\* has chosen a version.
RequestFits ==
    \A r \in Requests :
        /\ r.asked.platform = "hypershift-hosted" => r.asked.architecture = "multi"
        /\ r.flow = "launch" =>
              /\ r.asked.platform \in Platforms
              /\ r.asked.architecture \in Architectures
              /\ r.asked.params \subseteq ParamsFor[r.asked.platform]
        /\ r.asked.version \in DOMAIN MinorOf \cup Customs
        /\ r.asked.prs \subseteq ValidPRs

\* The back button leads out: the form it leads to comes before the one it
\* is on, except where choosing a major.minor leads to the same form again.
BackLeadsOut ==
    \A v \in {view} \cup {u.view : u \in pending} :
        v.step \in Steps \ {"initial"} =>
            \/ Rank[v.prev] < Rank[v.step]
            \/ v.step = "minorMajor" /\ v.prev = "minorMajor"

\* Nobody is left with the "Processing" view: while it is shown, the next
\* form, an error or the answer is on its way, unless an update was given up.
ProcessingGoesOn == view.step = "processing" /\ ~lost => pending # {}

=============================================================================
