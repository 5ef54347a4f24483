-------------------------- MODULE ModalFlowProofs --------------------------
(***************************************************************************)
(* What a form of a dialog carries, proved for every catalog of releases,  *)
(* every number of overwrites under way and every order in which they      *)
(* land. The invariant is about each single view, the one that the user    *)
(* sees and those under way: whichever lands, it is sound. FormOK holds    *)
(* under every fault and yields that requests fit their platform; MeantOK, *)
(* which compares the metadata with what was entered, needs that no field  *)
(* the bot has filled in is emptied (the fault "clear").                   *)
(***************************************************************************)
EXTENDS ModalFlow, TLAPS

-----------------------------------------------------------------------------
(* The invariant.                                                          *)

\* The forms that may come before a form.
Previous(step) ==
    CASE step = "mode" -> {"initial"}
      [] step = "filter" -> {"mode"}
      [] step = "minorMajor" -> {"filter", "minorMajor"}
      [] step = "version" -> {"filter", "minorMajor"}
      [] step = "pr" -> {"filter", "version", "mode"}
      [] step = "third" -> {"filter", "version", "pr"}
      [] OTHER -> {"none"}

\* The choices of the first form.
PlatformFits(flow, data) ==
    /\ flow = "launch" =>
          /\ data.platform \in Platforms
          /\ data.architecture \in Architectures
          /\ data.platform = "hypershift-hosted" => data.architecture = "multi"
    /\ flow = "mce" => data.platform # "hypershift-hosted"

\* A release was chosen: a pull spec and nothing else, or a version.
ReleaseChosen(data) ==
    IF data.custom # ""
    THEN /\ data.custom \in Customs
         /\ data.stream = "" /\ data.majorMinor = "" /\ data.version = ""
    ELSE data.version \in DOMAIN MinorOf

\* The menu can show the versions of this stream and major.minor.
MenuFits(data) == ~(Cardinality(allTags(data)) > MaxOptions)

\* What a form carries at each step.
FormOK(v) ==
    v.step \in Steps =>
        /\ v.flow \in {"launch", "mce"}
        /\ v.prev \in Previous(v.step)
        /\ \A k \in Keys : Rank[StepOf[k]] > Rank[v.step] => v.data[k] = Blank[k]
        /\ v.data.custom \in Customs \cup {""}
        /\ v.step # "initial" => PlatformFits(v.flow, v.data)
        /\ v.step \in {"minorMajor", "version"} => v.data.custom = ""
        /\ v.step \in {"pr", "third"} => ReleaseChosen(v.data)
        /\ v.prev = "version" => v.data.custom = ""
        /\ (v.step = "version" \/ v.prev = "version") => MenuFits(v.data)
        /\ (v.step = "pr" \/ v.prev = "pr") => v.data.mode = "Yes"
        /\ v.step = "third" =>
              /\ v.data.params = {}
              /\ v.data.pr \subseteq ValidPRs
              /\ v.data.mode # "Yes" => v.data.pr = {}

\* What a single request must be to fit.
Fits(r) ==
    /\ r.asked.platform = "hypershift-hosted" => r.asked.architecture = "multi"
    /\ r.flow = "launch" =>
          /\ r.asked.platform \in Platforms
          /\ r.asked.architecture \in Architectures
          /\ r.asked.params \subseteq ParamsFor[r.asked.platform]
    /\ r.asked.version \in DOMAIN MinorOf \cup Customs
    /\ r.asked.prs \subseteq ValidPRs

\* The metadata of a form says what was entered on the forms before it.
MeantOK(v) ==
    v.step \in Steps =>
        /\ v.step # "initial" =>
              /\ v.data.platform = Meaning(v.flow, v.seen).platform
              /\ v.data.architecture = Meaning(v.flow, v.seen).architecture
              /\ v.data.duration = v.seen.duration
        /\ \A k \in Keys \ {"platform", "architecture"} :
              Rank[StepOf[k]] < Rank[v.step] => v.data[k] = v.seen[k]

Chosen(r) == r.asked = Meaning(r.flow, r.seen)

Good(v) == FormOK(v) /\ ("clear" \notin Faults => MeantOK(v))

GoodRequest(r) == Fits(r) /\ ("clear" \notin Faults => Chosen(r))

\* The inductive invariant: every view, seen or under way, and every request.
ViewsAreGood ==
    /\ Good(view)
    /\ \A u \in pending : Good(u.view) /\ (u.request # Nil => GoodRequest(u.request))

-----------------------------------------------------------------------------
(* Keys and ranks.                                                         *)

\* The keys, by name.
LEMMA KeyNames ==
    Keys = {"platform", "architecture", "duration", "mode", "stream", "custom",
            "majorMinor", "version", "pr", "params"}
  BY DEF Keys, StepOf

\* The steps are ordered as the forms follow each other.
LEMMA Ranks ==
    /\ \A s \in Steps : Rank[s] \in Nat
    /\ Rank["initial"] = 1 /\ Rank["mode"] = 2 /\ Rank["filter"] = 3
    /\ Rank["minorMajor"] = 4 /\ Rank["version"] = 5 /\ Rank["pr"] = 6
    /\ Rank["third"] = 7
    /\ \A k \in Keys : StepOf[k] \in Steps
    /\ \A s, t \in Steps : Rank[s] = Rank[t] => s = t
  BY KeyNames DEF Rank, StepOf, Steps

\* The rank of the form that asks for each key.
LEMMA KeyRanks ==
    /\ Rank[StepOf["platform"]] = 1 /\ Rank[StepOf["architecture"]] = 1
    /\ Rank[StepOf["duration"]] = 1 /\ Rank[StepOf["mode"]] = 2
    /\ Rank[StepOf["stream"]] = 3 /\ Rank[StepOf["custom"]] = 3
    /\ Rank[StepOf["majorMinor"]] = 4 /\ Rank[StepOf["version"]] = 5
    /\ Rank[StepOf["pr"]] = 6 /\ Rank[StepOf["params"]] = 7
  BY DEF Rank, StepOf

\* Ranks are numbers, and the first form asks for three keys.
LEMMA RankNumbers ==
    /\ \A k \in Keys : Rank[StepOf[k]] \in Nat
    /\ \A k \in {"platform", "architecture", "duration"} : Rank[StepOf[k]] = 1
    /\ \A k \in Keys : Rank[StepOf[k]] < 2 => k \in {"platform", "architecture", "duration"}
  BY KeyNames DEF Rank, StepOf

\* The forms and keys that follow the choice of a version.
LEMMA AfterVersion ==
    /\ \A step \in {"pr", "third"} : step \in Steps /\ Rank[step] >= Rank["version"]
    /\ \A k \in {"pr", "params"} : k \in Keys /\ Rank[StepOf[k]] > Rank["version"]
  BY KeyNames DEF StepOf, Rank, Steps

\* What an absent key reads as.
LEMMA BlankValues ==
    /\ Blank["platform"] = "" /\ Blank["architecture"] = "" /\ Blank["duration"] = ""
    /\ Blank["mode"] = "" /\ Blank["stream"] = "" /\ Blank["custom"] = ""
    /\ Blank["majorMinor"] = "" /\ Blank["version"] = ""
    /\ Blank["pr"] = {} /\ Blank["params"] = {}
  BY KeyNames DEF Blank

\* The versions on offer depend on the stream and the major.minor alone.
LEMMA SameMenu ==
    ASSUME NEW d, NEW e, d.stream = e.stream, d.majorMinor = e.majorMinor
    PROVE  MenuFits(d) <=> MenuFits(e)
<1>1. allTags(d) = allTags(e)
  BY DEF allTags
<1> QED  BY <1>1 DEF MenuFits

-----------------------------------------------------------------------------
(* Views.                                                                  *)

\* A view without a form promises nothing.
LEMMA PlainOK ==
    ASSUME NEW flow, NEW step, step \notin Steps
    PROVE  FormOK(Plain(flow, step)) /\ MeantOK(Plain(flow, step))
  BY DEF Plain, FormOK, MeantOK

\* Those views are the error view and its like.
LEMMA ErrorOK ==
    ASSUME NEW flow, NEW step, step \in {"none", "closed", "processing", "error", "done", "simple"}
    PROVE  FormOK(Plain(flow, step)) /\ MeantOK(Plain(flow, step))
  BY PlainOK DEF Steps

\* What the builders return, besides the error view.
LEMMA Built ==
    ASSUME NEW cb, NEW prev, NEW v
    PROVE  /\ v \in SelectModeView(cb) => v = Form(cb, "mode", "initial")
           /\ v \in FilterVersionView(cb) =>
                 v \in {Plain(cb.flow, "error"), Form(cb, "filter", "mode")}
           /\ v \in SelectMinorMajor(cb, prev) =>
                 v \in {Plain(cb.flow, "error"), Form(cb, "minorMajor", prev)}
           /\ v \in SelectVersionView(cb, prev) =>
                 \/ v = Plain(cb.flow, "error")
                 \/ v = Form(cb, "minorMajor", prev) /\ ~MenuFits(cb.data)
                 \/ v = Form(cb, "version", prev) /\ MenuFits(cb.data)
           /\ v \in PRInputView(cb, prev) => v = Form(cb, "pr", prev)
           /\ v \in ThirdStepView(cb, prev) => v = Form(cb, "third", prev)
<1>1. v \in SelectModeView(cb) => v = Form(cb, "mode", "initial")
  BY DEF SelectModeView
<1>2. v \in FilterVersionView(cb) =>
        v \in {Plain(cb.flow, "error"), Form(cb, "filter", "mode")}
  BY DEF FilterVersionView, FetchReleases
<1>3. v \in SelectMinorMajor(cb, prev) =>
        v \in {Plain(cb.flow, "error"), Form(cb, "minorMajor", prev)}
  BY DEF SelectMinorMajor, FetchReleases
<1>4. v \in SelectVersionView(cb, prev) =>
        \/ v = Plain(cb.flow, "error")
        \/ v = Form(cb, "minorMajor", prev) /\ ~MenuFits(cb.data)
        \/ v = Form(cb, "version", prev) /\ MenuFits(cb.data)
  BY <1>3 DEF SelectVersionView, FetchReleases, MenuFits
<1>5. /\ v \in PRInputView(cb, prev) => v = Form(cb, "pr", prev)
      /\ v \in ThirdStepView(cb, prev) => v = Form(cb, "third", prev)
  BY DEF PRInputView, ThirdStepView
<1> QED  BY <1>1, <1>2, <1>3, <1>4, <1>5

-----------------------------------------------------------------------------
(* What a form may hold when it is left.                                   *)

\* The keys of each form.
LEMMA KeysOf ==
    /\ {k \in Keys : StepOf[k] = "initial"} = {"platform", "architecture", "duration"}
    /\ {k \in Keys : StepOf[k] = "mode"} = {"mode"}
    /\ {k \in Keys : StepOf[k] = "filter"} = {"stream", "custom"}
    /\ {k \in Keys : StepOf[k] = "minorMajor"} = {"majorMinor"}
    /\ {k \in Keys : StepOf[k] = "version"} = {"version"}
    /\ {k \in Keys : StepOf[k] = "pr"} = {"pr"}
    /\ {k \in Keys : StepOf[k] = "third"} = {"params"}
  BY KeyNames DEF StepOf

\* An entry has the keys of its form.
LEMMA Entered ==
    ASSUME HasForm, NEW fields \in Entries
    PROVE  DOMAIN fields = {k \in Keys : StepOf[k] = view.step}
<1>1. CASE view.step = "initial"
  <2>1. fields \in FirstEntries
    BY <1>1 DEF Entries
  <2> QED  BY <1>1, <2>1, KeysOf DEF FirstEntries
<1>2. CASE view.step = "mode"
  <2>1. fields \in ModeEntries
    BY <1>2 DEF Entries
  <2> QED  BY <1>2, <2>1, KeysOf DEF ModeEntries
<1>3. CASE view.step = "filter"
  <2>1. fields \in FilterEntries
    BY <1>3 DEF Entries
  <2> QED  BY <1>3, <2>1, KeysOf DEF FilterEntries
<1>4. CASE view.step = "minorMajor"
  <2>1. fields \in MinorMajorEntries
    BY <1>4 DEF Entries
  <2> QED  BY <1>4, <2>1, KeysOf DEF MinorMajorEntries
<1>5. CASE view.step = "version"
  <2>1. fields \in VersionEntries
    BY <1>5 DEF Entries
  <2> QED  BY <1>5, <2>1, KeysOf DEF VersionEntries
<1>6. CASE view.step = "pr"
  <2>1. fields \in PREntries
    BY <1>6 DEF Entries
  <2> QED  BY <1>6, <2>1, KeysOf DEF PREntries
<1>7. CASE view.step = "third"
  <2>1. fields \in ThirdEntries
    BY <1>7 DEF Entries
  <2> QED  BY <1>7, <2>1, KeysOf DEF ThirdEntries
<1> QED  BY <1>1, <1>2, <1>3, <1>4, <1>5, <1>6, <1>7 DEF HasForm, Steps

\* A submission touches the keys of its own form only.
LEMMA Merged ==
    ASSUME HasForm, NEW fields \in Entries, NEW k \in Keys
    PROVE  /\ StepOf[k] # view.step => MergeCallbackData(fields)[k] = view.data[k]
           /\ StepOf[k] = view.step =>
                 MergeCallbackData(fields)[k] =
                     IF fields[k] # Blank[k] THEN fields[k] ELSE view.data[k]
           /\ StepOf[k] = view.step => Seen(fields)[k] = fields[k]
           /\ Rank[StepOf[k]] < Rank[view.step] => Seen(fields)[k] = view.seen[k]
           /\ Rank[StepOf[k]] > Rank[view.step] => Seen(fields)[k] = Blank[k]
<1>1. k \in DOMAIN fields <=> StepOf[k] = view.step
  <2>1. DOMAIN fields = {j \in Keys : StepOf[j] = view.step}
    BY Entered
  <2> QED  BY <2>1
<1>2. MergeCallbackData(fields)[k] = IF k \in DOMAIN fields /\ fields[k] # Blank[k]
                                     THEN fields[k] ELSE view.data[k]
  BY Zenon DEF MergeCallbackData
<1>3. Seen(fields)[k] = IF k \in DOMAIN fields THEN fields[k]
                        ELSE IF Rank[StepOf[k]] < Rank[view.step] THEN view.seen[k]
                        ELSE Blank[k]
  BY Zenon DEF Seen
<1>4. Rank[StepOf[k]] \in Nat /\ Rank[view.step] \in Nat
  BY Ranks DEF HasForm
<1>5. ~(Rank[view.step] < Rank[view.step])
  BY <1>4
<1>6. Rank[StepOf[k]] > Rank[view.step] => ~(Rank[StepOf[k]] < Rank[view.step])
  BY <1>4
<1>7. Rank[StepOf[k]] > Rank[view.step] => StepOf[k] # view.step
  BY <1>4
<1>8. Rank[StepOf[k]] < Rank[view.step] => StepOf[k] # view.step
  BY <1>4
<1> QED  BY <1>1, <1>2, <1>3, <1>6, <1>7, <1>8, Zenon

\* What clearForwardSelections keeps.
LEMMA Cleared ==
    ASSUME NEW data, NEW step, NEW k \in Keys
    PROVE  clearForwardSelections(data, step)[k] =
               IF Rank[StepOf[k]] > Rank[step] THEN Blank[k] ELSE data[k]
  BY DEF clearForwardSelections

\* The values of the fields of each form.
LEMMA EnteredValues ==
    ASSUME NEW fields \in Entries
    PROVE  /\ view.step = "initial" =>
                 /\ fields.platform \in Platforms \cup {""}
                 /\ view.flow = "mce" => fields.platform # "hypershift-hosted"
                 /\ view.flow = "mce" => fields.architecture = ""
                 /\ fields.architecture \in Architectures \cup {""}
           /\ view.step = "filter" =>
                 /\ fields.custom \in Customs \cup {""}
                 /\ "clear" \notin Faults =>
                       /\ fields.stream = "" => view.data.stream = ""
                       /\ fields.custom = "" => view.data.custom = ""
           /\ view.step = "version" => fields.version \in allTags(view.data) \cup {""}
           /\ view.step = "third" =>
                 /\ view.flow = "launch" => fields.params \subseteq ParamsFor[view.data.platform]
                 /\ view.flow # "launch" => fields.params = {}
<1>1. CASE view.step = "initial"
  <2>1. fields \in FirstEntries
    BY <1>1 DEF Entries
  <2> QED  BY <1>1, <2>1, ModalAssumption DEF FirstEntries
<1>2. CASE view.step = "filter"
  <2>1. fields \in FilterEntries
    BY <1>2 DEF Entries
  <2>2. Blank["stream"] = "" /\ Blank["custom"] = ""
    BY KeyNames DEF Blank
  <2>3. "" \notin Customs /\ "" \notin filterStreams(view.data.platform)
    BY ModalAssumption DEF filterStreams
  <2> QED  BY <1>2, <2>1, <2>2, <2>3 DEF FilterEntries, Optional
<1>3. CASE view.step = "version"
  <2>1. fields \in VersionEntries
    BY <1>3 DEF Entries
  <2> QED  BY <1>3, <2>1 DEF VersionEntries
<1>4. CASE view.step = "third"
  <2>1. fields \in ThirdEntries
    BY <1>4 DEF Entries
  <2> QED  BY <1>4, <2>1 DEF ThirdEntries
<1> QED  BY <1>1, <1>2, <1>3, <1>4

-----------------------------------------------------------------------------
(* The view that follows a submission.                                     *)

\* The metadata after a submission: the keys of the form itself may change,
\* those of the forms ahead are absent.
LEMMA Submitted ==
    ASSUME HasForm, FormOK(view), NEW fields \in Entries
    PROVE  LET d == MergeCallbackData(fields)
           IN  /\ \A k \in Keys : StepOf[k] # view.step => d[k] = view.data[k]
               /\ \A k \in Keys : Rank[StepOf[k]] > Rank[view.step] => d[k] = Blank[k]
               /\ view.step # "filter" => d.custom = view.data.custom
               /\ d.custom \in Customs \cup {""}
               /\ view.step # "initial" => PlatformFits(view.flow, d)
<1> DEFINE d == MergeCallbackData(fields)
<1>1. \A k \in Keys : StepOf[k] # view.step => d[k] = view.data[k]
  BY Merged
<1>2. \A k \in Keys : Rank[StepOf[k]] > Rank[view.step] => d[k] = Blank[k]
  <2> SUFFICES ASSUME NEW k \in Keys, Rank[StepOf[k]] > Rank[view.step]
               PROVE  d[k] = Blank[k]
    OBVIOUS
  <2>1. StepOf[k] # view.step
    BY Ranks DEF HasForm
  <2>2. view.data[k] = Blank[k]
    BY DEF FormOK, HasForm
  <2> QED  BY <1>1, <2>1, <2>2
<1>3. view.step # "filter" => d.custom = view.data.custom
  BY <1>1, KeyNames DEF StepOf
<1>4. d.custom \in Customs \cup {""}
  <2>1. CASE view.step = "filter"
    <3>1. fields.custom \in Customs \cup {""} /\ view.data.custom \in Customs \cup {""}
      BY <2>1, EnteredValues DEF FormOK, Steps
    <3>2. StepOf["custom"] = view.step
      BY <2>1 DEF StepOf
    <3>3. d["custom"] \in {fields["custom"], view.data["custom"]}
      BY <3>2, Merged, KeyNames
    <3> QED  BY <3>1, <3>3
  <2>2. CASE view.step # "filter"
    BY <1>3, <2>2 DEF FormOK, HasForm
  <2> QED  BY <2>1, <2>2
<1>5. view.step # "initial" => PlatformFits(view.flow, d)
  <2> SUFFICES ASSUME view.step # "initial"  PROVE PlatformFits(view.flow, d)
    OBVIOUS
  <2>1. d.platform = view.data.platform /\ d.architecture = view.data.architecture
    BY <1>1, KeyNames DEF StepOf
  <2>2. PlatformFits(view.flow, view.data)
    BY DEF FormOK, HasForm
  <2> HIDE DEF d
  <2> QED  BY <2>1, <2>2 DEF PlatformFits
<1> QED  BY <1>1, <1>2, <1>3, <1>4, <1>5

\* The same for what was entered. A field that is left empty counts as not
\* entered: "held" says that the metadata had nothing for it either.
LEMMA SubmittedMeant ==
    ASSUME HasForm, view.step # "initial", MeantOK(view), NEW fields \in Entries,
           \A k \in Keys : (StepOf[k] = view.step /\ fields[k] = Blank[k])
                               => view.data[k] = Blank[k]
    PROVE  LET d == MergeCallbackData(fields)
               e == Seen(fields)
           IN  /\ d.platform = Meaning(view.flow, e).platform
               /\ d.architecture = Meaning(view.flow, e).architecture
               /\ d.duration = e.duration
               /\ \A k \in Keys \ {"platform", "architecture"} :
                     Rank[StepOf[k]] <= Rank[view.step] => d[k] = e[k]
               /\ \A k \in Keys : Rank[StepOf[k]] > Rank[view.step] => e[k] = Blank[k]
<1> DEFINE d == MergeCallbackData(fields)
           e == Seen(fields)
<1>1. Rank[view.step] \in Nat /\ Rank[view.step] > 1
  BY Ranks DEF HasForm, Steps
<1>2. \A k \in {"platform", "architecture", "duration"} :
         d[k] = view.data[k] /\ e[k] = view.seen[k]
  <2> SUFFICES ASSUME NEW k \in {"platform", "architecture", "duration"}
               PROVE  d[k] = view.data[k] /\ e[k] = view.seen[k]
    OBVIOUS
  <2>1. k \in Keys /\ StepOf[k] = "initial"
    BY KeyNames DEF StepOf
  <2>2. StepOf[k] # view.step /\ Rank[StepOf[k]] < Rank[view.step]
    BY <1>1, <2>1, Ranks
  <2> QED  BY <2>1, <2>2, Merged
<1>3. /\ view.data.platform = Meaning(view.flow, view.seen).platform
      /\ view.data.architecture = Meaning(view.flow, view.seen).architecture
      /\ view.data.duration = view.seen.duration
  BY DEF MeantOK, HasForm
<1>4. /\ Meaning(view.flow, e).platform = Meaning(view.flow, view.seen).platform
      /\ Meaning(view.flow, e).architecture = Meaning(view.flow, view.seen).architecture
  <2>1. e.platform = view.seen.platform /\ e.architecture = view.seen.architecture
    BY <1>2
  <2> HIDE DEF e
  <2> QED  BY <2>1 DEF Meaning
<1>5. ASSUME NEW k \in Keys \ {"platform", "architecture"},
             Rank[StepOf[k]] <= Rank[view.step]
      PROVE  d[k] = e[k]
  <2>1. CASE StepOf[k] = view.step
    <3>1. e[k] = fields[k] /\ d[k] = IF fields[k] # Blank[k] THEN fields[k] ELSE view.data[k]
      BY <2>1, Merged
    <3>2. fields[k] = Blank[k] => view.data[k] = Blank[k]
      BY <2>1
    <3> QED  BY <3>1, <3>2, Zenon
  <2>2. CASE StepOf[k] # view.step
    <3>1. Rank[StepOf[k]] # Rank[view.step]
      BY <2>2, Ranks DEF HasForm
    <3>2. Rank[StepOf[k]] < Rank[view.step]
      BY <1>5, <3>1, Ranks DEF HasForm
    <3>3. view.data[k] = view.seen[k]
      BY <1>5, <3>2 DEF MeantOK, HasForm
    <3> QED  BY <2>2, <3>2, <3>3, Merged
  <2> QED  BY <2>1, <2>2
<1>6. \A k \in Keys : Rank[StepOf[k]] > Rank[view.step] => e[k] = Blank[k]
  BY Merged
<1>7. /\ d.platform = view.data.platform /\ d.architecture = view.data.architecture
      /\ d.duration = view.data.duration /\ e.duration = view.seen.duration
  BY <1>2
<1> HIDE DEF d, e
<1>8. /\ d.platform = Meaning(view.flow, e).platform
      /\ d.architecture = Meaning(view.flow, e).architecture
      /\ d.duration = e.duration
  BY <1>3, <1>4, <1>7
<1> QED  BY <1>5, <1>6, <1>8 DEF d, e

\* Every form after the first, wherever it leads.
LEMMA ForwardMeant ==
    ASSUME HasForm, view.step # "initial", FormOK(view), MeantOK(view),
           NEW fields \in Entries, NEW step \in Steps, NEW prev,
           \A k \in Keys : (StepOf[k] = view.step /\ fields[k] = Blank[k])
                               => view.data[k] = Blank[k]
    PROVE  MeantOK(Form(Callback(fields), step, prev))
<1> DEFINE d == MergeCallbackData(fields)
           e == Seen(fields)
<1>1. /\ d.platform = Meaning(view.flow, e).platform
      /\ d.architecture = Meaning(view.flow, e).architecture
      /\ d.duration = e.duration
      /\ \A k \in Keys \ {"platform", "architecture"} :
            Rank[StepOf[k]] <= Rank[view.step] => d[k] = e[k]
      /\ \A k \in Keys : Rank[StepOf[k]] > Rank[view.step] => e[k] = Blank[k]
  BY SubmittedMeant
<1>2. \A k \in Keys : Rank[StepOf[k]] > Rank[view.step] => d[k] = Blank[k]
  BY Submitted
<1>3. \A k \in Keys \ {"platform", "architecture"} : d[k] = e[k]
  BY <1>1, <1>2, Ranks DEF HasForm
<1>4. Form(Callback(fields), step, prev) =
         [flow |-> view.flow, step |-> step, prev |-> prev, data |-> d, seen |-> e]
  BY DEF Form, Callback
<1> HIDE DEF d, e
<1> QED  BY <1>1, <1>3, <1>4 DEF MeantOK

\* Nothing is chosen yet beyond the form that follows.
LEMMA ForwardAhead ==
    ASSUME HasForm, FormOK(view), NEW fields \in Entries,
           NEW step \in Steps, Rank[step] >= Rank[view.step]
    PROVE  \A k \in Keys : Rank[StepOf[k]] > Rank[step] =>
               MergeCallbackData(fields)[k] = Blank[k]
<1> SUFFICES ASSUME NEW k \in Keys, Rank[StepOf[k]] > Rank[step]
             PROVE  MergeCallbackData(fields)[k] = Blank[k]
  OBVIOUS
<1>1. Rank[StepOf[k]] \in Nat /\ Rank[step] \in Nat /\ Rank[view.step] \in Nat
  BY Ranks DEF HasForm
<1>2. Rank[StepOf[k]] > Rank[view.step]
  BY <1>1
<1> QED  BY <1>2, Submitted

\* The parts of FormOK for a form that a builder has made.
LEMMA FormSound ==
    ASSUME NEW cb, NEW step \in Steps, NEW prev \in Previous(step),
           cb.flow \in {"launch", "mce"},
           \A k \in Keys : Rank[StepOf[k]] > Rank[step] => cb.data[k] = Blank[k],
           cb.data.custom \in Customs \cup {""},
           step # "initial" => PlatformFits(cb.flow, cb.data),
           step \in {"minorMajor", "version"} => cb.data.custom = "",
           step \in {"pr", "third"} => ReleaseChosen(cb.data),
           prev = "version" => cb.data.custom = "",
           (step = "version" \/ prev = "version") => MenuFits(cb.data),
           (step = "pr" \/ prev = "pr") => cb.data.mode = "Yes",
           step = "third" => /\ cb.data.params = {}
                             /\ cb.data.pr \subseteq ValidPRs
                             /\ cb.data.mode # "Yes" => cb.data.pr = {}
    PROVE  FormOK(Form(cb, step, prev))
<1> DEFINE v == Form(cb, step, prev)
<1>1. v.flow = cb.flow /\ v.step = step /\ v.prev = prev /\ v.data = cb.data
  BY DEF Form
<1> HIDE DEF v
<1>2. FormOK(v)
  BY <1>1 DEF FormOK
<1> QED  BY <1>2 DEF v

\* The first form: its data come from its fields and the defaults alone.
LEMMA FirstForms ==
    ASSUME view.step = "initial", view.flow \in {"launch", "mce"}, NEW fields \in Entries,
           FirstStepValid(view.flow, FirstStepData(view.flow, fields)),
           NEW v \in SelectModeView([flow |-> view.flow,
                                     data |-> FirstStepData(view.flow, fields),
                                     seen |-> Seen(fields)])
    PROVE  FormOK(v) /\ MeantOK(v)
<1> DEFINE d == FirstStepData(view.flow, fields)
           e == Seen(fields)
           cb == [flow |-> view.flow, data |-> d, seen |-> e]
<1>1. v = Form(cb, "mode", "initial")
  BY Built
<1>2. /\ fields.platform \in Platforms \cup {""}
      /\ fields.architecture \in Architectures \cup {""}
      /\ view.flow = "mce" => fields.platform # "hypershift-hosted"
      /\ view.flow = "mce" => fields.architecture = ""
  BY EnteredValues
<1>3. /\ d.platform = IF fields.platform = "" /\ view.flow = "launch"
                      THEN "hypershift-hosted" ELSE fields.platform
      /\ d.architecture = IF view.flow = "launch"
                          THEN IF fields.architecture # "" THEN fields.architecture
                               ELSE IF d.platform = "hypershift-hosted" THEN "multi"
                               ELSE "amd64"
                          ELSE ""
      /\ d.duration = fields.duration
      /\ \A k \in Keys \ {"platform", "architecture", "duration"} : d[k] = Blank[k]
  BY KeyNames DEF FirstStepData
<1>4. e.platform = fields.platform /\ e.architecture = fields.architecture
      /\ e.duration = fields.duration
  <2>1. HasForm
    BY DEF HasForm, Steps
  <2>2. \A k \in {"platform", "architecture", "duration"} :
           k \in Keys /\ StepOf[k] = view.step
    BY KeyNames DEF StepOf
  <2>3. \A k \in {"platform", "architecture", "duration"} : e[k] = fields[k]
    BY <2>1, <2>2, Merged
  <2> QED  BY <2>3
<1>5. FirstStepValid(view.flow, d)
  OBVIOUS
<1>6. v.flow = view.flow /\ v.step = "mode" /\ v.prev = "initial" /\ v.data = d /\ v.seen = e
  BY <1>1 DEF Form
<1> HIDE DEF d, e, cb
<1>7. PlatformFits(view.flow, d)
  BY <1>2, <1>3, <1>5, ModalAssumption DEF PlatformFits, FirstStepValid
<1>8. FormOK(v)
  <2>1. "initial" \in Previous("mode") /\ "mode" \in Steps
    BY DEF Previous, Steps
  <2>2. \A k \in Keys : Rank[StepOf[k]] > Rank["mode"] => d[k] = Blank[k]
    <3> SUFFICES ASSUME NEW k \in Keys, Rank[StepOf[k]] > Rank["mode"]
                 PROVE  d[k] = Blank[k]
      OBVIOUS
    <3>1. Rank["mode"] = 2
      BY Ranks
    <3>2. k \notin {"platform", "architecture", "duration"}
      BY <3>1, RankNumbers
    <3> QED  BY <1>3, <3>2
  <2>3. d.custom = ""
    BY <1>3, BlankValues, KeyNames
  <2> QED  BY <1>6, <1>7, <2>1, <2>2, <2>3 DEF FormOK
<1>9. MeantOK(v)
  <2>1. /\ d.platform = Meaning(view.flow, e).platform
        /\ d.architecture = Meaning(view.flow, e).architecture
        /\ d.duration = e.duration
    BY <1>2, <1>3, <1>4 DEF Meaning
  <2>2. \A k \in Keys \ {"platform", "architecture"} :
           Rank[StepOf[k]] < Rank["mode"] => d[k] = e[k]
    <3>1. Rank["mode"] = 2
      BY Ranks
    <3>2. \A k \in Keys \ {"platform", "architecture"} : Rank[StepOf[k]] < 2 => k = "duration"
      BY RankNumbers
    <3> QED  BY <2>1, <3>1, <3>2
  <2> QED  BY <1>6, <2>1, <2>2 DEF MeantOK
<1> QED  BY <1>8, <1>9

\* A view that follows a submission: no form, or one with its callback data.
Follows(v, fields) ==
    v.step \in Steps => \E step \in Steps : \E prev : v = Form(Callback(fields), step, prev)

\* The question for pull requests leads to the streams.
LEMMA ModeForms ==
    ASSUME view.step = "mode", FormOK(view), NEW fields \in Entries,
           NEW v \in FilterVersionView(Callback(fields))
    PROVE  FormOK(v) /\ Follows(v, fields)
<1> DEFINE d == MergeCallbackData(fields)
           cb == Callback(fields)
<1>1. HasForm
  BY DEF HasForm, Steps
<1>2. cb.flow = view.flow /\ cb.data = d
  BY DEF Callback
<1>3. /\ \A k \in Keys : StepOf[k] # view.step => d[k] = view.data[k]
      /\ \A k \in Keys : Rank[StepOf[k]] > Rank[view.step] => d[k] = Blank[k]
      /\ view.step # "filter" => d.custom = view.data.custom
      /\ d.custom \in Customs \cup {""}
      /\ PlatformFits(view.flow, d)
      /\ view.flow \in {"launch", "mce"}
  BY <1>1, Submitted DEF FormOK, HasForm
<1>4. v = Plain(cb.flow, "error") \/ v = Form(cb, "filter", "mode")
  BY Built
<1>5. v = Form(cb, "filter", "mode") => FormOK(v) /\ Follows(v, fields)
  <2>1. "mode" \in Previous("filter") /\ "filter" \in Steps
    BY DEF Previous, Steps
  <2>2. \A k \in Keys : Rank[StepOf[k]] > Rank["filter"] => d[k] = Blank[k]
    BY <1>1, <2>1, ForwardAhead, Ranks
  <2>3. FormOK(Form(cb, "filter", "mode"))
    <3> HIDE DEF d, cb
    <3> QED  BY <1>2, <1>3, <2>1, <2>2, FormSound
  <2> QED  BY <2>1, <2>3 DEF Follows
<1>6. v = Plain(cb.flow, "error") => FormOK(v) /\ Follows(v, fields)
  BY ErrorOK DEF Plain, Steps, Follows
<1> QED  BY <1>4, <1>5, <1>6

\* The form with streams and pull specs leads to four others.
LEMMA FilterForms ==
    ASSUME view.step = "filter", FormOK(view), NEW fields \in Entries,
           ValidateFilterVersion(Callback(fields).data),
           NEW v \in FilterVersionNext(Callback(fields))
    PROVE  FormOK(v) /\ Follows(v, fields)
<1> DEFINE d == MergeCallbackData(fields)
           cb == Callback(fields)
<1>1. HasForm
  BY DEF HasForm, Steps
<1>2. cb.flow = view.flow /\ cb.data = d
  BY DEF Callback
<1>3. /\ \A k \in Keys : StepOf[k] # view.step => d[k] = view.data[k]
      /\ \A k \in Keys : Rank[StepOf[k]] > Rank[view.step] => d[k] = Blank[k]
      /\ view.step # "filter" => d.custom = view.data.custom
      /\ d.custom \in Customs \cup {""}
      /\ PlatformFits(view.flow, d)
      /\ view.flow \in {"launch", "mce"}
  BY <1>1, Submitted DEF FormOK, HasForm
<1>4. d.majorMinor = "" /\ d.version = "" /\ d.pr = {} /\ d.params = {}
  <2>1. \A k \in {"majorMinor", "version", "pr", "params"} :
           k \in Keys /\ Rank[StepOf[k]] > Rank["filter"]
    BY KeyNames DEF StepOf, Rank
  <2>2. \A k \in {"majorMinor", "version", "pr", "params"} : d[k] = Blank[k]
    BY <1>3, <2>1
  <2> QED  BY <2>2, BlankValues
<1>5. d.custom = "" \/ d.stream = ""
  BY <1>2 DEF ValidateFilterVersion
<1>6. \A step \in {"filter", "minorMajor", "version", "pr", "third"} :
         \A k \in Keys : Rank[StepOf[k]] > Rank[step] => d[k] = Blank[k]
  <2> TAKE step \in {"filter", "minorMajor", "version", "pr", "third"}
  <2>1. step \in Steps /\ Rank[step] >= Rank[view.step]
    BY Ranks DEF Steps
  <2> QED  BY <1>1, <2>1, ForwardAhead
<1>7. CASE v = Plain(cb.flow, "error")
  BY <1>7, ErrorOK DEF Plain, Steps, Follows
<1>8. CASE v = Form(cb, "filter", "mode")
  <2>1. "mode" \in Previous("filter") /\ "filter" \in Steps
    BY DEF Previous, Steps
  <2>2. FormOK(Form(cb, "filter", "mode"))
    <3> HIDE DEF d, cb
    <3> QED  BY <1>2, <1>3, <1>6, <2>1, FormSound
  <2> QED  BY <1>8, <2>1, <2>2 DEF Follows
<1>9. CASE v = Form(cb, "minorMajor", "filter") /\ d.custom = ""
  <2>1. "filter" \in Previous("minorMajor") /\ "minorMajor" \in Steps
    BY DEF Previous, Steps
  <2>2. FormOK(Form(cb, "minorMajor", "filter"))
    <3> HIDE DEF d, cb
    <3> QED  BY <1>2, <1>3, <1>6, <1>9, <2>1, FormSound
  <2> QED  BY <1>9, <2>1, <2>2 DEF Follows
<1>10. CASE v = Form(cb, "version", "filter") /\ d.custom = "" /\ MenuFits(cb.data)
  <2>1. "filter" \in Previous("version") /\ "version" \in Steps
    BY DEF Previous, Steps
  <2>2. FormOK(Form(cb, "version", "filter"))
    <3> HIDE DEF d, cb
    <3> QED  BY <1>2, <1>3, <1>6, <1>10, <2>1, FormSound
  <2> QED  BY <1>10, <2>1, <2>2 DEF Follows
<1>11. CASE v = Form(cb, "pr", "filter") /\ d.custom # "" /\ HasPRMode(d)
  <2>1. "filter" \in Previous("pr") /\ "pr" \in Steps
    BY DEF Previous, Steps
  <2>2. FormOK(Form(cb, "pr", "filter"))
    <3> HIDE DEF d, cb
    <3>1. ReleaseChosen(d) /\ d.mode = "Yes"
      BY <1>3, <1>4, <1>5, <1>11 DEF ReleaseChosen, HasPRMode
    <3> QED  BY <1>2, <1>3, <1>6, <2>1, <3>1, FormSound
  <2> QED  BY <1>11, <2>1, <2>2 DEF Follows
<1>12. CASE v = Form(cb, "third", "filter") /\ d.custom # "" /\ ~HasPRMode(d)
  <2>1. "filter" \in Previous("third") /\ "third" \in Steps
    BY DEF Previous, Steps
  <2>2. FormOK(Form(cb, "third", "filter"))
    <3> HIDE DEF d, cb
    <3>1. ReleaseChosen(d)
      BY <1>3, <1>4, <1>5, <1>12 DEF ReleaseChosen
    <3> QED  BY <1>2, <1>3, <1>4, <1>6, <2>1, <3>1, FormSound
  <2> QED  BY <1>12, <2>1, <2>2 DEF Follows
<1>13. \/ v \in FilterVersionView(cb)
       \/ v \in PRInputView(cb, "filter") /\ d.custom # "" /\ HasPRMode(d)
       \/ v \in ThirdStepView(cb, "filter") /\ d.custom # "" /\ ~HasPRMode(d)
       \/ v \in SelectVersionView(cb, "filter") /\ d.custom = ""
  <2> HIDE DEF d, cb
  <2>1. v \in FilterVersionNext(cb)
    BY DEF cb
  <2> QED  BY <1>2, <2>1, Zenon DEF FilterVersionNext
<1>14. \/ v = Plain(cb.flow, "error")
       \/ v = Form(cb, "filter", "mode")
       \/ v = Form(cb, "minorMajor", "filter") /\ d.custom = ""
       \/ v = Form(cb, "version", "filter") /\ d.custom = "" /\ MenuFits(cb.data)
       \/ v = Form(cb, "pr", "filter") /\ d.custom # "" /\ HasPRMode(d)
       \/ v = Form(cb, "third", "filter") /\ d.custom # "" /\ ~HasPRMode(d)
  <2> HIDE DEF d, cb
  <2>1. v \in FilterVersionView(cb) => v = Plain(cb.flow, "error") \/ v = Form(cb, "filter", "mode")
    BY Built
  <2>2. v \in PRInputView(cb, "filter") => v = Form(cb, "pr", "filter")
    BY Built
  <2>3. v \in ThirdStepView(cb, "filter") => v = Form(cb, "third", "filter")
    BY Built
  <2>4. v \in SelectVersionView(cb, "filter") =>
           \/ v = Plain(cb.flow, "error")
           \/ v = Form(cb, "minorMajor", "filter")
           \/ v = Form(cb, "version", "filter") /\ MenuFits(cb.data)
    BY Built
  <2> QED  BY <1>13, <2>1, <2>2, <2>3, <2>4, Zenon
<1> QED  BY <1>7, <1>8, <1>9, <1>10, <1>11, <1>12, <1>14, Zenon

\* Choosing a major.minor leads to its versions, or to the same form again.
LEMMA MinorMajorForms ==
    ASSUME view.step = "minorMajor", FormOK(view), NEW fields \in Entries,
           NEW v \in SelectVersionView(Callback(fields), "minorMajor")
    PROVE  FormOK(v) /\ Follows(v, fields)
<1> DEFINE d == MergeCallbackData(fields)
           cb == Callback(fields)
<1>1. HasForm
  BY DEF HasForm, Steps
<1>2. cb.flow = view.flow /\ cb.data = d
  BY DEF Callback
<1>3. /\ \A k \in Keys : StepOf[k] # view.step => d[k] = view.data[k]
      /\ \A k \in Keys : Rank[StepOf[k]] > Rank[view.step] => d[k] = Blank[k]
      /\ view.step # "filter" => d.custom = view.data.custom
      /\ d.custom \in Customs \cup {""}
      /\ PlatformFits(view.flow, d)
      /\ view.flow \in {"launch", "mce"}
  BY <1>1, Submitted DEF FormOK, HasForm
<1>4. d.custom = ""
  BY <1>3 DEF FormOK, Steps
<1>5. \A step \in {"minorMajor", "version"} :
         /\ step \in Steps /\ "minorMajor" \in Previous(step)
         /\ \A k \in Keys : Rank[StepOf[k]] > Rank[step] => d[k] = Blank[k]
  <2> TAKE step \in {"minorMajor", "version"}
  <2>1. step \in Steps /\ Rank[step] >= Rank[view.step]
    BY Ranks DEF Steps
  <2> QED  BY <1>1, <2>1, ForwardAhead DEF Previous
<1>6. CASE v = Plain(cb.flow, "error")
  BY <1>6, ErrorOK DEF Plain, Steps, Follows
<1>7. CASE v = Form(cb, "minorMajor", "minorMajor")
  <2>1. FormOK(Form(cb, "minorMajor", "minorMajor"))
    <3> HIDE DEF d, cb
    <3> QED  BY <1>2, <1>3, <1>4, <1>5, FormSound
  <2> QED  BY <1>5, <1>7, <2>1 DEF Follows
<1>8. CASE v = Form(cb, "version", "minorMajor") /\ MenuFits(cb.data)
  <2>1. FormOK(Form(cb, "version", "minorMajor"))
    <3> HIDE DEF d, cb
    <3> QED  BY <1>2, <1>3, <1>4, <1>5, <1>8, FormSound
  <2> QED  BY <1>5, <1>8, <2>1 DEF Follows
<1>9. \/ v = Plain(cb.flow, "error")
      \/ v = Form(cb, "minorMajor", "minorMajor")
      \/ v = Form(cb, "version", "minorMajor") /\ MenuFits(cb.data)
  BY Built
<1> QED  BY <1>6, <1>7, <1>8, <1>9

\* A version that was entered is one of the catalog.
LEMMA VersionForms ==
    ASSUME view.step = "version", FormOK(view), NEW fields \in Entries, fields.version # "",
           NEW v \in IF HasPRMode(Callback(fields).data)
                     THEN PRInputView(Callback(fields), "version")
                     ELSE ThirdStepView(Callback(fields), "version")
    PROVE  FormOK(v) /\ Follows(v, fields)
<1> DEFINE d == MergeCallbackData(fields)
           cb == Callback(fields)
<1>1. HasForm
  BY DEF HasForm, Steps
<1>2. cb.flow = view.flow /\ cb.data = d
  BY DEF Callback
<1>3. /\ \A k \in Keys : StepOf[k] # view.step => d[k] = view.data[k]
      /\ \A k \in Keys : Rank[StepOf[k]] > Rank[view.step] => d[k] = Blank[k]
      /\ view.step # "filter" => d.custom = view.data.custom
      /\ d.custom \in Customs \cup {""}
      /\ PlatformFits(view.flow, d)
      /\ view.flow \in {"launch", "mce"}
  BY <1>1, Submitted DEF FormOK, HasForm
<1>4. d.custom = "" /\ MenuFits(d)
  <2>1. view.data.custom = "" /\ MenuFits(view.data)
    BY DEF FormOK, Steps
  <2>2. d.stream = view.data.stream /\ d.majorMinor = view.data.majorMinor
    BY <1>3, KeyNames DEF StepOf
  <2>3. d.custom = view.data.custom
    BY <1>3
  <2> HIDE DEF d
  <2> QED  BY <2>1, <2>2, <2>3, SameMenu
<1>5. d.version \in DOMAIN MinorOf
  <2>1. "version" \in Keys /\ StepOf["version"] = view.step
    BY KeyNames DEF StepOf
  <2>2. d["version"] = IF fields["version"] # Blank["version"] THEN fields["version"]
                       ELSE view.data["version"]
    BY <1>1, <2>1, Merged
  <2>3. d.version = fields.version
    BY <2>2, BlankValues
  <2>4. fields.version \in allTags(view.data)
    BY EnteredValues
  <2> QED  BY <2>3, <2>4, ModalAssumption DEF allTags
<1>6. \A step \in {"pr", "third"} :
         /\ step \in Steps /\ "version" \in Previous(step)
         /\ \A k \in Keys : Rank[StepOf[k]] > Rank[step] => d[k] = Blank[k]
  <2> TAKE step \in {"pr", "third"}
  <2>1. step \in Steps /\ Rank[step] >= Rank[view.step]
    BY AfterVersion
  <2> QED  BY <1>1, <2>1, ForwardAhead DEF Previous
<1>7. d.pr = {} /\ d.params = {}
  <2>1. \A k \in {"pr", "params"} : k \in Keys /\ Rank[StepOf[k]] > Rank["version"]
    BY AfterVersion
  <2>2. \A k \in {"pr", "params"} : d[k] = Blank[k]
    BY <1>3, <2>1
  <2> QED  BY <2>2, BlankValues
<1>8. CASE v = Form(cb, "pr", "version") /\ HasPRMode(d)
  <2>1. FormOK(Form(cb, "pr", "version"))
    <3> HIDE DEF d, cb
    <3>1. ReleaseChosen(d) /\ d.mode = "Yes"
      BY <1>4, <1>5, <1>8 DEF ReleaseChosen, HasPRMode
    <3> QED  BY <1>2, <1>3, <1>4, <1>6, <3>1, FormSound
  <2> QED  BY <1>6, <1>8, <2>1 DEF Follows
<1>9. CASE v = Form(cb, "third", "version") /\ ~HasPRMode(d)
  <2>1. FormOK(Form(cb, "third", "version"))
    <3> HIDE DEF d, cb
    <3>1. ReleaseChosen(d)
      BY <1>4, <1>5, <1>9 DEF ReleaseChosen
    <3> QED  BY <1>2, <1>3, <1>4, <1>6, <1>7, <3>1, FormSound
  <2> QED  BY <1>6, <1>9, <2>1 DEF Follows
<1>10. \/ v = Form(cb, "pr", "version") /\ HasPRMode(d)
       \/ v = Form(cb, "third", "version") /\ ~HasPRMode(d)
  <2>1. v \in PRInputView(cb, "version") => v = Form(cb, "pr", "version")
    BY Built
  <2>2. v \in ThirdStepView(cb, "version") => v = Form(cb, "third", "version")
    BY Built
  <2> QED  BY <1>2, <2>1, <2>2
<1> QED  BY <1>8, <1>9, <1>10

\* Pull requests are asked for only where they were wanted.
LEMMA PRForms ==
    ASSUME view.step = "pr", FormOK(view), NEW fields \in Entries,
           fields.pr # {}, fields.pr \subseteq ValidPRs,
           NEW v \in ThirdStepView(Callback(fields), "pr")
    PROVE  FormOK(v) /\ Follows(v, fields)
<1> DEFINE d == MergeCallbackData(fields)
           cb == Callback(fields)
<1>1. HasForm
  BY DEF HasForm, Steps
<1>2. cb.flow = view.flow /\ cb.data = d
  BY DEF Callback
<1>3. /\ \A k \in Keys : StepOf[k] # view.step => d[k] = view.data[k]
      /\ \A k \in Keys : Rank[StepOf[k]] > Rank[view.step] => d[k] = Blank[k]
      /\ view.step # "filter" => d.custom = view.data.custom
      /\ d.custom \in Customs \cup {""}
      /\ PlatformFits(view.flow, d)
      /\ view.flow \in {"launch", "mce"}
  BY <1>1, Submitted DEF FormOK, HasForm
<1>4. v = Form(cb, "third", "pr")
  BY Built
<1>5. \A k \in {"mode", "stream", "custom", "majorMinor", "version"} : d[k] = view.data[k]
  BY <1>3, KeyNames DEF StepOf
<1>6. ReleaseChosen(d) /\ d.mode = "Yes"
  <2>1. ReleaseChosen(view.data) /\ view.data.mode = "Yes"
    BY DEF FormOK, Steps
  <2>2. /\ d.mode = view.data.mode /\ d.stream = view.data.stream
        /\ d.custom = view.data.custom /\ d.majorMinor = view.data.majorMinor
        /\ d.version = view.data.version
    BY <1>5
  <2> HIDE DEF d
  <2> QED  BY <2>1, <2>2 DEF ReleaseChosen
<1>7. d.pr = fields.pr /\ d.params = {}
  <2>1. "pr" \in Keys /\ StepOf["pr"] = view.step
    BY KeyNames DEF StepOf
  <2>2. d["pr"] = IF fields["pr"] # Blank["pr"] THEN fields["pr"] ELSE view.data["pr"]
    BY <1>1, <2>1, Merged
  <2>3. "params" \in Keys /\ Rank[StepOf["params"]] > Rank["pr"]
    BY KeyNames DEF StepOf, Rank
  <2> QED  BY <1>3, <2>2, <2>3, BlankValues
<1>8. "third" \in Steps /\ "pr" \in Previous("third")
  BY DEF Previous, Steps
<1>9. \A k \in Keys : Rank[StepOf[k]] > Rank["third"] => d[k] = Blank[k]
  BY <1>1, <1>8, ForwardAhead, Ranks
<1>10. FormOK(Form(cb, "third", "pr"))
  <2> HIDE DEF d, cb
  <2> QED  BY <1>2, <1>3, <1>6, <1>7, <1>8, <1>9, FormSound
<1> QED  BY <1>4, <1>8, <1>10 DEF Follows

\* What the last form asks for.
LEMMA RequestFitsForm ==
    ASSUME view.step = "third", FormOK(view), NEW fields \in Entries
    PROVE  Fits(RequestOf(Callback(fields)))
<1> DEFINE d == MergeCallbackData(fields)
           cb == Callback(fields)
<1>1. HasForm
  BY DEF HasForm, Steps
<1>2. cb.flow = view.flow /\ cb.data = d
  BY DEF Callback
<1>3. /\ \A k \in Keys : StepOf[k] # view.step => d[k] = view.data[k]
      /\ \A k \in Keys : Rank[StepOf[k]] > Rank[view.step] => d[k] = Blank[k]
      /\ view.step # "filter" => d.custom = view.data.custom
      /\ d.custom \in Customs \cup {""}
      /\ PlatformFits(view.flow, d)
      /\ view.flow \in {"launch", "mce"}
  BY <1>1, Submitted DEF FormOK, HasForm
<1>4. \A k \in Keys \ {"params"} : d[k] = view.data[k]
  BY <1>3, KeyNames DEF StepOf
<1>5. /\ d.platform = view.data.platform /\ d.pr = view.data.pr
      /\ d.custom = view.data.custom /\ d.stream = view.data.stream
      /\ d.majorMinor = view.data.majorMinor /\ d.version = view.data.version
  BY <1>4, KeyNames
<1>6. ReleaseChosen(view.data) /\ view.data.pr \subseteq ValidPRs /\ view.data.params = {}
  BY DEF FormOK, Steps
<1>7. view.flow = "launch" => d.params \subseteq ParamsFor[d.platform]
  <2>1. "params" \in Keys /\ StepOf["params"] = view.step
    BY KeyNames DEF StepOf
  <2>2. d["params"] \in {fields["params"], view.data["params"]}
    BY <1>1, <2>1, Merged
  <2>3. view.flow = "launch" => fields.params \subseteq ParamsFor[view.data.platform]
    BY EnteredValues
  <2> QED  BY <1>5, <1>6, <2>2, <2>3
<1> HIDE DEF d, cb
<1>8. GetVersion(d) \in DOMAIN MinorOf \cup Customs
  BY <1>5, <1>6, ModalAssumption DEF ReleaseChosen, GetVersion
<1>9. d.platform = "hypershift-hosted" => d.architecture = "multi"
  BY <1>3 DEF PlatformFits
<1>10. view.flow = "launch" => d.platform \in Platforms /\ d.architecture \in Architectures
  BY <1>3 DEF PlatformFits
<1>11. d.pr \subseteq ValidPRs
  BY <1>5, <1>6
<1>12. Fits(RequestOf(cb))
  BY <1>2, <1>7, <1>8, <1>9, <1>10, <1>11 DEF Fits, RequestOf
<1> QED  BY <1>12 DEF cb

\* The request of the last form is what the forms mean.
LEMMA RequestChosenForm ==
    ASSUME view.step = "third", FormOK(view), MeantOK(view), NEW fields \in Entries
    PROVE  Chosen(RequestOf(Callback(fields)))
<1> DEFINE d == MergeCallbackData(fields)
           cb == Callback(fields)
<1>1. HasForm
  BY DEF HasForm, Steps
<1>2. cb.flow = view.flow /\ cb.data = d
  BY DEF Callback
<1>3. /\ \A k \in Keys : StepOf[k] # view.step => d[k] = view.data[k]
      /\ \A k \in Keys : Rank[StepOf[k]] > Rank[view.step] => d[k] = Blank[k]
      /\ view.step # "filter" => d.custom = view.data.custom
      /\ d.custom \in Customs \cup {""}
      /\ PlatformFits(view.flow, d)
      /\ view.flow \in {"launch", "mce"}
  BY <1>1, Submitted DEF FormOK, HasForm
<1> DEFINE e == Seen(fields)
<1>4. /\ ReleaseChosen(view.data) /\ view.data.params = {}
      /\ view.data.mode # "Yes" => view.data.pr = {}
  BY DEF FormOK, Steps
<1>5. \A k \in Keys : (StepOf[k] = view.step /\ fields[k] = Blank[k])
                          => view.data[k] = Blank[k]
  <2>1. \A k \in Keys : StepOf[k] = "third" => k = "params"
    BY KeysOf
  <2> QED  BY <1>4, <2>1, BlankValues
<1>6. /\ d.platform = Meaning(view.flow, e).platform
      /\ d.architecture = Meaning(view.flow, e).architecture
      /\ d.duration = e.duration
      /\ \A k \in Keys \ {"platform", "architecture"} :
            Rank[StepOf[k]] <= Rank[view.step] => d[k] = e[k]
  BY <1>1, <1>5, SubmittedMeant
<1>7. \A k \in {"mode", "stream", "custom", "majorMinor", "version", "pr", "params"} : d[k] = e[k]
  <2>1. \A k \in {"mode", "stream", "custom", "majorMinor", "version", "pr", "params"} :
           k \in Keys \ {"platform", "architecture"} /\ Rank[StepOf[k]] <= Rank["third"]
    BY KeyNames DEF StepOf, Rank
  <2> QED  BY <1>6, <2>1
<1>8. \A k \in {"mode", "stream", "custom", "majorMinor", "version", "pr"} : d[k] = view.data[k]
  BY <1>3, KeyNames DEF StepOf
<1>9. /\ d.mode = e.mode /\ d.custom = e.custom /\ d.version = e.version /\ d.pr = e.pr
      /\ d.params = e.params
      /\ d.mode = view.data.mode /\ d.stream = view.data.stream
      /\ d.custom = view.data.custom /\ d.majorMinor = view.data.majorMinor
      /\ d.version = view.data.version /\ d.pr = view.data.pr
  BY <1>7, <1>8
<1>10. view.flow # "launch" => e.params = {}
  <2>1. "params" \in Keys /\ StepOf["params"] = view.step
    BY KeyNames DEF StepOf
  <2>2. e["params"] = fields["params"]
    BY <1>1, <2>1, Merged
  <2> QED  BY <2>2, EnteredValues
<1>11. cb.seen = e
  BY DEF Callback
<1> HIDE DEF d, e, cb
<1>12. GetVersion(d) = IF e.custom # "" THEN e.custom ELSE e.version
  BY <1>4, <1>9, ModalAssumption DEF ReleaseChosen, GetVersion
<1>13. d.pr = IF e.mode = "Yes" THEN e.pr ELSE {}
  BY <1>4, <1>9
<1>14. (IF view.flow = "launch" THEN d.params ELSE {}) = e.params
  BY <1>9, <1>10
<1>15. Chosen(RequestOf(cb))
  <2>1. Meaning(view.flow, e) =
           [platform |-> d.platform, architecture |-> d.architecture,
            duration |-> d.duration, version |-> GetVersion(d), prs |-> d.pr,
            params |-> IF view.flow = "launch" THEN d.params ELSE {}]
    BY <1>6, <1>12, <1>13, <1>14 DEF Meaning
  <2> QED  BY <1>2, <1>11, <2>1 DEF Chosen, RequestOf
<1> QED  BY <1>15 DEF cb

-----------------------------------------------------------------------------
(* The view that the back button leads to.                                 *)

BackData(fields) == clearForwardSelections(MergeCallbackData(fields), view.prev)

BackCallback(fields) ==
    [flow |-> view.flow, data |-> BackData(fields), seen |-> view.seen]

\* The form before is no later one, and is the same only for a major.minor.
LEMMA Before ==
    ASSUME HasForm, view.step # "initial", FormOK(view)
    PROVE  /\ view.prev \in Steps
           /\ Rank[view.prev] \in Nat /\ Rank[view.step] \in Nat
           /\ Rank[view.prev] <= Rank[view.step]
           /\ Rank[view.prev] < Rank[view.step] \/ view.step = "minorMajor"
           /\ view.prev # "third"
<1>1. view.prev \in Previous(view.step) /\ view.step \in Steps
  BY DEF FormOK, HasForm
<1> QED  BY <1>1, Ranks DEF Previous, Steps

\* Going back keeps the choices of the forms up to there.
LEMMA BackKeeps ==
    ASSUME HasForm, view.step # "initial", FormOK(view), NEW fields \in Entries
    PROVE  LET c == BackData(fields)
           IN  /\ \A k \in Keys : Rank[StepOf[k]] > Rank[view.prev] => c[k] = Blank[k]
               /\ \A k \in Keys : (Rank[StepOf[k]] <= Rank[view.prev] /\ StepOf[k] # view.step)
                                      => c[k] = view.data[k]
               /\ c.custom \in {view.data.custom, ""}
               /\ c.custom \in Customs \cup {""}
               /\ PlatformFits(view.flow, c)
<1> DEFINE c == BackData(fields)
           d == MergeCallbackData(fields)
<1>1. \A k \in Keys : c[k] = IF Rank[StepOf[k]] > Rank[view.prev] THEN Blank[k] ELSE d[k]
  BY Cleared DEF BackData
<1>2. \A k \in Keys : StepOf[k] # view.step => d[k] = view.data[k]
  BY Submitted
<1>3. \A k \in Keys : Rank[StepOf[k]] > Rank[view.prev] => c[k] = Blank[k]
  BY <1>1
<1>4. \A k \in Keys : (Rank[StepOf[k]] <= Rank[view.prev] /\ StepOf[k] # view.step)
                          => c[k] = view.data[k]
  <2> SUFFICES ASSUME NEW k \in Keys, Rank[StepOf[k]] <= Rank[view.prev], StepOf[k] # view.step
               PROVE  c[k] = view.data[k]
    OBVIOUS
  <2>1. ~(Rank[StepOf[k]] > Rank[view.prev])
    BY Before, RankNumbers
  <2>2. c[k] = d[k] /\ d[k] = view.data[k]
    BY <1>1, <1>2, <2>1
  <2> QED  BY <2>2
<1>5. c.custom \in {view.data.custom, ""}
  <2>1. "custom" \in Keys /\ Rank[StepOf["custom"]] = 3 /\ StepOf["custom"] = "filter"
    BY KeyNames, KeyRanks DEF StepOf
  <2>2. CASE Rank[view.prev] < 3
    BY <1>3, <2>1, <2>2, BlankValues
  <2>3. CASE ~(Rank[view.prev] < 3)
    <3>1. view.step # "filter"
      BY <2>3, Before, Ranks
    <3>2. 3 <= Rank[view.prev]
      BY <2>3, Before
    <3>3. c["custom"] = view.data["custom"]
      BY <1>4, <2>1, <3>1, <3>2
    <3> QED  BY <3>3
  <2> QED  BY <2>2, <2>3
<1>6. c.platform = view.data.platform /\ c.architecture = view.data.architecture
  <2>1. \A k \in {"platform", "architecture"} :
           k \in Keys /\ Rank[StepOf[k]] = 1 /\ StepOf[k] = "initial"
    BY KeyNames, KeyRanks DEF StepOf
  <2>2. 1 <= Rank[view.prev]
    BY Before, Ranks DEF Steps
  <2>3. \A k \in {"platform", "architecture"} : c[k] = view.data[k]
    BY <1>4, <2>1, <2>2
  <2> QED  BY <2>3
<1>7. PlatformFits(view.flow, view.data) /\ view.data.custom \in Customs \cup {""}
  BY DEF FormOK, HasForm
<1> HIDE DEF c, d
<1>8. PlatformFits(view.flow, c)
  BY <1>6, <1>7 DEF PlatformFits
<1> QED  BY <1>3, <1>4, <1>5, <1>7, <1>8 DEF c

\* What the back button keeps is what was entered.
LEMMA BackMeant ==
    ASSUME HasForm, view.step # "initial", FormOK(view), MeantOK(view),
           NEW fields \in Entries, NEW prev
    PROVE  MeantOK(Form(BackCallback(fields), view.prev, prev))
<1> DEFINE c == BackData(fields)
<1>1. \A k \in Keys : (Rank[StepOf[k]] <= Rank[view.prev] /\ StepOf[k] # view.step)
                          => c[k] = view.data[k]
  BY BackKeeps
<1>2. /\ view.data.platform = Meaning(view.flow, view.seen).platform
      /\ view.data.architecture = Meaning(view.flow, view.seen).architecture
      /\ view.data.duration = view.seen.duration
      /\ \A k \in Keys \ {"platform", "architecture"} :
            Rank[StepOf[k]] < Rank[view.step] => view.data[k] = view.seen[k]
  BY DEF MeantOK, HasForm
<1>3. \A k \in {"platform", "architecture", "duration"} : c[k] = view.data[k]
  <2>1. \A k \in {"platform", "architecture", "duration"} :
           k \in Keys /\ Rank[StepOf[k]] = 1 /\ StepOf[k] = "initial"
    BY KeyNames, KeyRanks DEF StepOf
  <2>2. 1 <= Rank[view.prev]
    BY Before, Ranks DEF Steps
  <2> QED  BY <1>1, <2>1, <2>2
<1>4. ASSUME NEW k \in Keys \ {"platform", "architecture"}, Rank[StepOf[k]] < Rank[view.prev]
      PROVE  c[k] = view.seen[k]
  <2>1. Rank[StepOf[k]] <= Rank[view.prev] /\ Rank[StepOf[k]] < Rank[view.step]
    BY <1>4, Before, RankNumbers
  <2>2. StepOf[k] # view.step
    BY <2>1, Before
  <2> QED  BY <1>1, <1>2, <2>1, <2>2
<1>5. c.platform = view.data.platform /\ c.architecture = view.data.architecture
      /\ c.duration = view.data.duration
  BY <1>3
<1>6. Form(BackCallback(fields), view.prev, prev) =
         [flow |-> view.flow, step |-> view.prev, prev |-> prev, data |-> c, seen |-> view.seen]
  BY DEF Form, BackCallback
<1> HIDE DEF c
<1> QED  BY <1>2, <1>4, <1>5, <1>6 DEF MeantOK

\* The form that the back button leads to is sound, whatever was on the way.
LEMMA BackForms ==
    ASSUME HasForm, view.step # "initial", FormOK(view), NEW fields \in Entries,
           NEW v \in PreviousView(BackCallback(fields), view.prev)
    PROVE  /\ FormOK(v)
           /\ \/ v = Plain(view.flow, "error")
              \/ \E prev : v = Form(BackCallback(fields), view.prev, prev)
<1> DEFINE c == BackData(fields)
           cb == BackCallback(fields)
<1>1. cb.flow = view.flow /\ cb.data = c
  BY DEF BackCallback
<1>2. /\ \A k \in Keys : Rank[StepOf[k]] > Rank[view.prev] => c[k] = Blank[k]
      /\ \A k \in Keys : (Rank[StepOf[k]] <= Rank[view.prev] /\ StepOf[k] # view.step)
                             => c[k] = view.data[k]
      /\ c.custom \in {view.data.custom, ""}
      /\ c.custom \in Customs \cup {""}
      /\ PlatformFits(view.flow, c)
  BY BackKeeps
<1>3. /\ view.flow \in {"launch", "mce"} /\ view.step \in Steps
      /\ view.prev \in Previous(view.step)
      /\ view.step \in {"minorMajor", "version"} => view.data.custom = ""
      /\ view.step \in {"pr", "third"} => ReleaseChosen(view.data)
      /\ view.prev = "version" => view.data.custom = ""
      /\ view.prev = "version" => MenuFits(view.data)
      /\ view.prev = "pr" => view.data.mode = "Yes"
  BY DEF FormOK, HasForm
<1>4. view.prev \in Steps \ {"third"}
  BY Before
<1>5. v \in PreviousView(cb, view.prev)
  OBVIOUS
<1>6. v = Plain(cb.flow, "error") => FormOK(v) /\ v = Plain(view.flow, "error")
  BY <1>1, ErrorOK
<1>7. CASE view.prev = "initial"
  <2>1. v = Form(cb, "initial", "none")
    BY <1>5, <1>7 DEF PreviousView
  <2>2. "none" \in Previous("initial")
    BY DEF Previous
  <2>3. FormOK(Form(cb, "initial", "none"))
    <3> HIDE DEF c, cb
    <3> QED  BY <1>1, <1>2, <1>3, <1>4, <1>7, <2>2, FormSound
  <2> QED  BY <1>7, <2>1, <2>3
<1>8. CASE view.prev = "mode"
  <2>1. v \in SelectModeView(cb)
    BY <1>5, <1>8 DEF PreviousView
  <2>2. v = Form(cb, "mode", "initial")
    BY <2>1, Built
  <2>3. "initial" \in Previous("mode")
    BY DEF Previous
  <2>4. FormOK(Form(cb, "mode", "initial"))
    <3> HIDE DEF c, cb
    <3> QED  BY <1>1, <1>2, <1>3, <1>4, <1>8, <2>3, FormSound
  <2> QED  BY <1>8, <2>2, <2>4
<1>9. CASE view.prev = "filter"
  <2>1. v \in FilterVersionView(cb)
    BY <1>5, <1>9 DEF PreviousView
  <2>2. v = Plain(cb.flow, "error") \/ v = Form(cb, "filter", "mode")
    BY <2>1, Built
  <2>3. "mode" \in Previous("filter")
    BY DEF Previous
  <2>4. FormOK(Form(cb, "filter", "mode"))
    <3> HIDE DEF c, cb
    <3> QED  BY <1>1, <1>2, <1>3, <1>4, <1>9, <2>3, FormSound
  <2> QED  BY <1>6, <1>9, <2>2, <2>4
<1>10. CASE view.prev = "minorMajor"
  <2>1. v \in SelectMinorMajor(cb, "filter")
    BY <1>5, <1>10 DEF PreviousView
  <2>2. v = Plain(cb.flow, "error") \/ v = Form(cb, "minorMajor", "filter")
    BY <2>1, Built
  <2>3. "filter" \in Previous("minorMajor")
    BY DEF Previous
  <2>4. view.step \in {"minorMajor", "version"}
    BY <1>3, <1>10 DEF Previous, Steps
  <2>5. c.custom = ""
    BY <1>2, <1>3, <2>4
  <2>6. FormOK(Form(cb, "minorMajor", "filter"))
    <3> HIDE DEF c, cb
    <3> QED  BY <1>1, <1>2, <1>3, <1>4, <1>10, <2>3, <2>5, FormSound
  <2> QED  BY <1>6, <1>10, <2>2, <2>6
<1>11. CASE view.prev = "version"
  <2>1. v \in SelectVersionView(cb, "filter")
    BY <1>5, <1>11 DEF PreviousView
  <2>2. \/ v = Plain(cb.flow, "error")
        \/ v = Form(cb, "minorMajor", "filter") /\ ~MenuFits(cb.data)
        \/ v = Form(cb, "version", "filter") /\ MenuFits(cb.data)
    BY <2>1, Built
  <2>3. "filter" \in Previous("version")
    BY DEF Previous
  <2>4. view.step \in {"pr", "third"}
    BY <1>3, <1>11 DEF Previous, Steps
  <2>5. c.custom = ""
    BY <1>2, <1>3, <1>11
  <2>6. c.stream = view.data.stream /\ c.majorMinor = view.data.majorMinor
    <3>1. \A k \in {"stream", "majorMinor"} :
             k \in Keys /\ Rank[StepOf[k]] <= Rank["version"] /\ StepOf[k] \notin {"pr", "third"}
      BY KeyNames DEF StepOf, Rank
    <3>2. \A k \in {"stream", "majorMinor"} : c[k] = view.data[k]
      BY <1>2, <1>11, <2>4, <3>1
    <3> QED  BY <3>2
  <2>7. MenuFits(c)
    <3> HIDE DEF c
    <3> QED  BY <1>3, <1>11, <2>6, SameMenu
  <2>8. FormOK(Form(cb, "version", "filter"))
    <3> HIDE DEF c, cb
    <3> QED  BY <1>1, <1>2, <1>3, <1>4, <1>11, <2>3, <2>5, <2>7, FormSound
  <2>9. v = Plain(cb.flow, "error") \/ v = Form(cb, "version", "filter")
    BY <1>1, <2>2, <2>7, Zenon
  <2> QED  BY <1>6, <1>11, <2>8, <2>9
<1>12. CASE view.prev = "pr"
  <2> DEFINE before == IF cb.data.version # "" \/ cb.data.custom # "" THEN "filter" ELSE "mode"
  <2>1. v \in PRInputView(cb, before)
    BY <1>5, <1>12 DEF PreviousView
  <2>2. v = Form(cb, "pr", before)
    BY <2>1, Built
  <2>3. before \in Previous("pr") /\ before \notin {"pr", "version"}
    BY DEF Previous
  <2>4. view.step = "third"
    BY <1>3, <1>12 DEF Previous, Steps
  <2>5. \A k \in {"mode", "stream", "custom", "majorMinor", "version"} : c[k] = view.data[k]
    <3>1. \A k \in {"mode", "stream", "custom", "majorMinor", "version"} :
             k \in Keys /\ Rank[StepOf[k]] <= Rank["pr"] /\ StepOf[k] # "third"
      BY KeyNames DEF StepOf, Rank
    <3> QED  BY <1>2, <1>12, <2>4, <3>1
  <2>6. /\ c.mode = view.data.mode /\ c.stream = view.data.stream
        /\ c.custom = view.data.custom /\ c.majorMinor = view.data.majorMinor
        /\ c.version = view.data.version
    BY <2>5
  <2>7. ReleaseChosen(c) /\ c.mode = "Yes"
    <3> HIDE DEF c
    <3> QED  BY <1>3, <1>12, <2>4, <2>6 DEF ReleaseChosen
  <2>8. FormOK(Form(cb, "pr", before))
    <3> HIDE DEF c, cb, before
    <3> QED  BY <1>1, <1>2, <1>3, <1>4, <1>12, <2>3, <2>7, FormSound
  <2> QED  BY <1>12, <2>2, <2>8
<1> QED  BY <1>4, <1>7, <1>8, <1>9, <1>10, <1>11, <1>12 DEF Steps

-----------------------------------------------------------------------------
(* Every step keeps the views good.                                        *)

\* Views without a form are good.
LEMMA PlainGood ==
    ASSUME NEW flow, NEW step \in {"none", "closed", "processing", "error", "done", "simple"}
    PROVE  Good(Plain(flow, step))
  BY ErrorOK DEF Good

\* A view that follows a submission is good, if the fields left empty had no value.
LEMMA FollowsGood ==
    ASSUME HasForm, view.step # "initial", Good(view), NEW fields \in Entries,
           NEW v, FormOK(v), Follows(v, fields),
           "clear" \notin Faults =>
               \A k \in Keys : (StepOf[k] = view.step /\ fields[k] = Blank[k])
                                   => view.data[k] = Blank[k]
    PROVE  Good(v)
<1>1. CASE v.step \in Steps
  <2>1. PICK step \in Steps : \E prev : v = Form(Callback(fields), step, prev)
    BY <1>1 DEF Follows
  <2>2. PICK prev : v = Form(Callback(fields), step, prev)
    BY <2>1
  <2>3. "clear" \notin Faults => MeantOK(Form(Callback(fields), step, prev))
    BY ForwardMeant DEF Good
  <2> QED  BY <2>2, <2>3 DEF Good
<1>2. CASE v.step \notin Steps
  BY <1>2 DEF Good, MeantOK
<1> QED  BY <1>1, <1>2

\* Good speaks of its argument and of constants only.
LEMMA PrimedGood ==
    ASSUME Good(view')
    PROVE  Good(view)'
  BY DEF Good, FormOK, MeantOK, PlatformFits, ReleaseChosen, MenuFits, Meaning, allTags

\* SubmitPrepare and the update it waits for.
LEMMA AnswerGood ==
    ASSUME ViewsAreGood, NEW views, NEW safe, NEW request, Answer(views, safe, request),
           \A v \in views : Good(v), request # Nil => GoodRequest(request)
    PROVE  ViewsAreGood'
<1>1. view' = Plain(view.flow, "processing")
  BY DEF Answer
<1>2. Good(Plain(view.flow, "processing"))
  BY PlainGood
<1>3. PICK v \in views \cup {Plain(view.flow, "processing")} :
         pending' = pending \cup {Update(v, safe, request)}
  BY <1>1 DEF Answer
<1>4. Good(v)
  BY <1>2, <1>3
<1>5. Update(v, safe, request).view = v /\ Update(v, safe, request).request = request
  BY DEF Update
<1>6. \A u \in pending' : Good(u.view) /\ (u.request # Nil => GoodRequest(u.request))
  BY <1>3, <1>4, <1>5 DEF ViewsAreGood
<1>7. Good(view')
  BY <1>1, <1>2
<1> QED  BY <1>6, <1>7, PrimedGood DEF ViewsAreGood

LEMMA FirstStepGood ==
    ASSUME ViewsAreGood, FirstStep
    PROVE  ViewsAreGood'
<1> DEFINE D(fields) == FirstStepData(view.flow, fields)
           CB(fields) == [flow |-> view.flow, data |-> D(fields), seen |-> Seen(fields)]
<1>1. view.step = "initial"
  BY DEF FirstStep
<1>2. PICK fields \in Entries :
         /\ FirstStepValid(view.flow, D(fields))
         /\ Answer(SelectModeView(CB(fields)), TRUE, Nil)
  BY DEF FirstStep
<1>3. view.flow \in {"launch", "mce"}
  BY <1>1 DEF ViewsAreGood, Good, FormOK, Steps
<1>4. \A v \in SelectModeView(CB(fields)) : Good(v)
  BY <1>1, <1>2, <1>3, FirstForms DEF Good
<1> HIDE DEF CB, D
<1> QED  BY <1>2, <1>4, AnswerGood

LEMMA ModeStepGood ==
    ASSUME ViewsAreGood, ModeStep
    PROVE  ViewsAreGood'
<1>1. view.step = "mode" /\ HasForm /\ Good(view) /\ FormOK(view)
  BY DEF ModeStep, HasForm, Steps, ViewsAreGood, Good
<1>2. PICK fields \in Entries :
         fields.mode # "" /\ Answer(FilterVersionView(Callback(fields)), TRUE, Nil)
  BY DEF ModeStep
<1>3. \A k \in Keys : StepOf[k] = view.step => fields[k] # Blank[k]
  <2>1. \A k \in Keys : StepOf[k] = "mode" => k = "mode"
    BY KeysOf
  <2>2. fields.mode # Blank.mode
    BY <1>2, BlankValues
  <2> QED  BY <1>1, <2>1, <2>2
<1>4. \A v \in FilterVersionView(Callback(fields)) : Good(v)
  <2> TAKE v \in FilterVersionView(Callback(fields))
  <2>1. FormOK(v) /\ Follows(v, fields)
    BY <1>1, ModeForms
  <2> QED  BY <1>1, <1>3, <2>1, FollowsGood
<1> QED  BY <1>2, <1>4, AnswerGood

LEMMA FilterVersionStepGood ==
    ASSUME ViewsAreGood, FilterVersionStep
    PROVE  ViewsAreGood'
<1>1. view.step = "filter" /\ HasForm /\ Good(view) /\ FormOK(view)
  BY DEF FilterVersionStep, HasForm, Steps, ViewsAreGood, Good
<1>2. PICK fields \in Entries :
         /\ ValidateFilterVersion(Callback(fields).data)
         /\ Answer(FilterVersionNext(Callback(fields)), TRUE, Nil)
  BY DEF FilterVersionStep
<1>3. "clear" \notin Faults =>
         \A k \in Keys : (StepOf[k] = view.step /\ fields[k] = Blank[k])
                             => view.data[k] = Blank[k]
  <2>1. "clear" \notin Faults => /\ fields.stream = "" => view.data.stream = ""
                                 /\ fields.custom = "" => view.data.custom = ""
    BY <1>1, EnteredValues
  <2>2. \A k \in Keys : StepOf[k] = view.step => k \in {"stream", "custom"}
    BY <1>1, KeysOf
  <2> QED  BY <2>1, <2>2, BlankValues
<1>4. \A v \in FilterVersionNext(Callback(fields)) : Good(v)
  <2> TAKE v \in FilterVersionNext(Callback(fields))
  <2>1. FormOK(v) /\ Follows(v, fields)
    BY <1>1, <1>2, FilterForms
  <2> QED  BY <1>1, <1>3, <2>1, FollowsGood
<1> QED  BY <1>2, <1>4, AnswerGood

LEMMA SelectMinorMajorStepGood ==
    ASSUME ViewsAreGood, SelectMinorMajorStep
    PROVE  ViewsAreGood'
<1>1. view.step = "minorMajor" /\ HasForm /\ Good(view) /\ FormOK(view)
  BY DEF SelectMinorMajorStep, HasForm, Steps, ViewsAreGood, Good
<1>2. PICK fields \in Entries :
         /\ fields.majorMinor # ""
         /\ Answer(SelectVersionView(Callback(fields), "minorMajor"), FALSE, Nil)
  BY DEF SelectMinorMajorStep
<1>3. \A k \in Keys : StepOf[k] = view.step => fields[k] # Blank[k]
  <2>1. \A k \in Keys : StepOf[k] = "minorMajor" => k = "majorMinor"
    BY KeysOf
  <2>2. fields.majorMinor # Blank.majorMinor
    BY <1>2, BlankValues
  <2> QED  BY <1>1, <2>1, <2>2
<1>4. \A v \in SelectVersionView(Callback(fields), "minorMajor") : Good(v)
  <2> TAKE v \in SelectVersionView(Callback(fields), "minorMajor")
  <2>1. FormOK(v) /\ Follows(v, fields)
    BY <1>1, MinorMajorForms
  <2> QED  BY <1>1, <1>3, <2>1, FollowsGood
<1> QED  BY <1>2, <1>4, AnswerGood

LEMMA SelectVersionStepGood ==
    ASSUME ViewsAreGood, SelectVersionStep
    PROVE  ViewsAreGood'
<1> DEFINE V(fields) == IF HasPRMode(Callback(fields).data)
                        THEN PRInputView(Callback(fields), "version")
                        ELSE ThirdStepView(Callback(fields), "version")
<1>1. view.step = "version" /\ HasForm /\ Good(view) /\ FormOK(view)
  BY DEF SelectVersionStep, HasForm, Steps, ViewsAreGood, Good
<1>2. PICK fields \in Entries : fields.version # "" /\ Answer(V(fields), TRUE, Nil)
  BY DEF SelectVersionStep
<1>3. \A k \in Keys : StepOf[k] = view.step => fields[k] # Blank[k]
  <2>1. \A k \in Keys : StepOf[k] = "version" => k = "version"
    BY KeysOf
  <2>2. fields.version # Blank.version
    BY <1>2, BlankValues
  <2> QED  BY <1>1, <2>1, <2>2
<1>4. \A v \in V(fields) : Good(v)
  <2> TAKE v \in V(fields)
  <2>1. FormOK(v) /\ Follows(v, fields)
    BY <1>1, <1>2, VersionForms
  <2> QED  BY <1>1, <1>3, <2>1, FollowsGood
<1> HIDE DEF V
<1> QED  BY <1>2, <1>4, AnswerGood

LEMMA PRInputStepGood ==
    ASSUME ViewsAreGood, PRInputStep
    PROVE  ViewsAreGood'
<1>1. view.step = "pr" /\ HasForm /\ Good(view) /\ FormOK(view)
  BY DEF PRInputStep, HasForm, Steps, ViewsAreGood, Good
<1>2. PICK fields \in Entries :
         /\ fields.pr # {} /\ fields.pr \subseteq ValidPRs
         /\ Answer(ThirdStepView(Callback(fields), "pr"), FALSE, Nil)
  BY DEF PRInputStep
<1>3. \A k \in Keys : StepOf[k] = view.step => fields[k] # Blank[k]
  <2>1. \A k \in Keys : StepOf[k] = "pr" => k = "pr"
    BY KeysOf
  <2>2. fields.pr # Blank.pr
    BY <1>2, BlankValues
  <2> QED  BY <1>1, <2>1, <2>2
<1>4. \A v \in ThirdStepView(Callback(fields), "pr") : Good(v)
  <2> TAKE v \in ThirdStepView(Callback(fields), "pr")
  <2>1. FormOK(v) /\ Follows(v, fields)
    BY <1>1, <1>2, PRForms
  <2> QED  BY <1>1, <1>3, <2>1, FollowsGood
<1> QED  BY <1>2, <1>4, AnswerGood

LEMMA LastStepGood ==
    ASSUME ViewsAreGood, LaunchOptionsStep \/ CreateConfirmStep
    PROVE  ViewsAreGood'
<1> DEFINE V(fields) == {Plain(Callback(fields).flow, "done")}
           R(fields) == RequestOf(Callback(fields))
<1>1. view.step = "third" /\ Good(view) /\ FormOK(view)
  BY DEF LaunchOptionsStep, CreateConfirmStep, ViewsAreGood, Good
<1>2. PICK fields \in Entries : Answer(V(fields), TRUE, R(fields))
  BY Zenon DEF LaunchOptionsStep, CreateConfirmStep
<1>3. GoodRequest(R(fields))
  BY <1>1, RequestFitsForm, RequestChosenForm DEF Good, GoodRequest
<1>4. \A v \in V(fields) : Good(v)
  BY PlainGood
<1> HIDE DEF V, R
<1> QED  BY <1>2, <1>3, <1>4, AnswerGood

LEMMA SimpleProcessGood ==
    ASSUME ViewsAreGood, SimpleProcess
    PROVE  ViewsAreGood'
<1> DEFINE V == {Plain(view.flow, "done"), Plain(view.flow, "error")}
<1>1. \A v \in V : Good(v)
  BY PlainGood
<1>2. Answer(V, TRUE, Nil)
  BY DEF SimpleProcess
<1> HIDE DEF V
<1> QED  BY <1>1, <1>2, AnswerGood

LEMMA NavigateBackGood ==
    ASSUME ViewsAreGood, NavigateBack
    PROVE  ViewsAreGood'
<1>1. HasForm /\ view.step # "initial" /\ Good(view) /\ FormOK(view)
  BY DEF NavigateBack, ViewsAreGood, Good
<1>2. PICK fields \in Entries : \E v \in PreviousView(BackCallback(fields), view.prev) :
         pending' = pending \cup {Update(v, TRUE, Nil)}
  BY Zenon DEF NavigateBack, BackCallback, BackData
<1>3. PICK v \in PreviousView(BackCallback(fields), view.prev) :
         pending' = pending \cup {Update(v, TRUE, Nil)}
  BY <1>2
<1>4. Good(v)
  <2>1. /\ FormOK(v)
        /\ \/ v = Plain(view.flow, "error")
           \/ \E prev : v = Form(BackCallback(fields), view.prev, prev)
    BY <1>1, BackForms
  <2>2. CASE v = Plain(view.flow, "error")
    BY <2>2, PlainGood
  <2>3. CASE \E prev : v = Form(BackCallback(fields), view.prev, prev)
    <3>1. PICK prev : v = Form(BackCallback(fields), view.prev, prev)
      BY <2>3
    <3>2. "clear" \notin Faults => MeantOK(Form(BackCallback(fields), view.prev, prev))
      BY <1>1, BackMeant DEF Good
    <3> QED  BY <2>1, <3>1, <3>2 DEF Good
  <2> QED  BY <2>1, <2>2, <2>3
<1>5. Update(v, TRUE, Nil).view = v /\ Update(v, TRUE, Nil).request = Nil
  BY DEF Update
<1>6. \A u \in pending' : Good(u.view) /\ (u.request # Nil => GoodRequest(u.request))
  BY <1>3, <1>4, <1>5 DEF ViewsAreGood
<1>7. view' = view
  BY DEF NavigateBack
<1>8. Good(view')
  BY <1>1, <1>7
<1> QED  BY <1>6, <1>8, PrimedGood DEF ViewsAreGood

LEMMA OpenModalGood ==
    ASSUME ViewsAreGood, OpenModal
    PROVE  ViewsAreGood'
<1>1. PICK f \in Flows :
         view' = IF f = "simple" THEN Plain(f, "simple")
                 ELSE Form([flow |-> f, data |-> Blank, seen |-> Blank], "initial", "none")
  BY DEF OpenModal
<1>2. ASSUME f = "simple"  PROVE Good(view')
  BY <1>1, <1>2, PlainGood
<1>3. ASSUME f # "simple"  PROVE Good(view')
  <2> DEFINE cb == [flow |-> f, data |-> Blank, seen |-> Blank]
             v == Form(cb, "initial", "none")
  <2>1. f \in {"launch", "mce"} /\ "none" \in Previous("initial") /\ "initial" \in Steps
    BY <1>3, ModalAssumption DEF Previous, Steps
  <2>2. cb.flow = f /\ cb.data = Blank /\ Blank.custom = ""
    BY BlankValues
  <2>3. FormOK(v)
    <3> HIDE DEF cb
    <3> QED  BY <2>1, <2>2, FormSound
  <2>4. \A k \in Keys : ~(Rank[StepOf[k]] < Rank["initial"])
    BY Ranks, KeyNames DEF StepOf, Rank
  <2>5. MeantOK(v)
    BY <2>4 DEF MeantOK, Form
  <2>6. Good(v)
    BY <2>3, <2>5 DEF Good
  <2> QED  BY <1>1, <1>3, <2>6
<1>4. Good(view')
  BY <1>2, <1>3
<1>5. pending' = pending
  BY DEF OpenModal
<1> QED  BY <1>4, <1>5, PrimedGood DEF ViewsAreGood

LEMMA UpdateLandsGood ==
    ASSUME ViewsAreGood, UpdateLands
    PROVE  ViewsAreGood'
<1>1. PICK u \in pending : OverwriteView(u) \/ RefuseUpdate(u) \/ LoseUpdate(u)
  BY DEF UpdateLands
<1>2. CASE OverwriteView(u)
  <2>1. Good(view')
    BY <1>1, <1>2 DEF OverwriteView, ViewsAreGood
  <2>2. pending' \subseteq pending
    BY <1>2 DEF OverwriteView
  <2> QED  BY <2>1, <2>2, PrimedGood DEF ViewsAreGood
<1>3. CASE RefuseUpdate(u)
  <2> DEFINE w == [Update(Plain(u.view.flow, "error"), u.safe, Nil) EXCEPT !.last = TRUE]
  <2>1. w.view = Plain(u.view.flow, "error") /\ w.request = Nil
    BY DEF Update
  <2>2. Good(w.view)
    BY <2>1, PlainGood
  <2>3. pending' = (pending \ {u}) \cup {w} /\ view' = view
    BY <1>3 DEF RefuseUpdate
  <2>4. Good(view')
    BY <2>3 DEF ViewsAreGood
  <2> HIDE DEF w
  <2>5. \A x \in pending' : Good(x.view) /\ (x.request # Nil => GoodRequest(x.request))
    BY <2>1, <2>2, <2>3 DEF ViewsAreGood
  <2> QED  BY <2>4, <2>5, PrimedGood DEF ViewsAreGood
<1>4. CASE LoseUpdate(u)
  <2>1. pending' \subseteq pending /\ view' = view
    BY <1>4 DEF LoseUpdate
  <2>2. Good(view')
    BY <2>1 DEF ViewsAreGood
  <2> QED  BY <2>1, <2>2, PrimedGood DEF ViewsAreGood
<1> QED  BY <1>1, <1>2, <1>3, <1>4

\* Every step keeps all views good.
LEMMA NextGood ==
    ASSUME ViewsAreGood, [Next]_vars
    PROVE  ViewsAreGood'
<1>1. CASE OpenModal
  BY <1>1, OpenModalGood
<1>2. CASE CloseModal
  <2>1. Good(view') /\ pending' = pending
    BY <1>2, PlainGood DEF CloseModal
  <2> QED  BY <2>1, PrimedGood DEF ViewsAreGood
<1>3. CASE SubmitStep
  BY <1>3, FirstStepGood, ModeStepGood, FilterVersionStepGood, SelectMinorMajorStepGood,
     SelectVersionStepGood, PRInputStepGood, LastStepGood, SimpleProcessGood
     DEF SubmitStep
<1>4. CASE NavigateBack
  BY <1>4, NavigateBackGood
<1>5. CASE UpdateLands
  BY <1>5, UpdateLandsGood
<1>6. CASE Restart
  <2>1. Good(view') /\ pending' = {}
    BY <1>6 DEF Restart, ViewsAreGood
  <2> QED  BY <2>1, PrimedGood DEF ViewsAreGood
<1>7. CASE UNCHANGED vars
  <2>1. Good(view') /\ pending' = pending
    BY <1>7 DEF vars, ViewsAreGood
  <2> QED  BY <2>1, PrimedGood DEF ViewsAreGood
<1> QED  BY <1>1, <1>2, <1>3, <1>4, <1>5, <1>6, <1>7 DEF Next

\* There is no dialog at first.
LEMMA InitGood == Init => ViewsAreGood
  BY PlainGood DEF Init, ViewsAreGood

LEMMA ViewsStayGood == Spec => []ViewsAreGood
  BY InitGood, NextGood, PTL DEF Spec

-----------------------------------------------------------------------------
(* The theorems.                                                           *)

\* Whatever way the user took through the forms, back and forth and with
\* overwrites landing late, the cluster that is asked for is the one the
\* submitted forms describe (clearForwardSelections, MergeCallbackData).
\* A field that the bot filled in and the user empties again is read from
\* the metadata, and so the fault "clear" is excluded.
THEOREM RequestsAreChosen == "clear" \notin Faults => (Spec => []RequestIsChosen)
<1> SUFFICES ASSUME "clear" \notin Faults
             PROVE  Spec => []RequestIsChosen
  OBVIOUS
<1>1. ViewsAreGood => RequestIsChosen
  BY DEF ViewsAreGood, GoodRequest, Chosen, RequestIsChosen, Requests
<1> QED  BY <1>1, ViewsStayGood, PTL

\* Under every fault a request fits its platform: the architecture of
\* hypershift-hosted, the parameters on offer, a version of the catalog or a
\* pull spec, pull requests that resolve.
THEOREM RequestsFit == Spec => []RequestFits
<1>1. ViewsAreGood => RequestFits
  BY DEF ViewsAreGood, GoodRequest, Fits, RequestFits, Requests
<1> QED  BY <1>1, ViewsStayGood, PTL

\* Under every fault the form that the back button leads to comes before
\* the one it is on, for the view on the screen and for every overwrite
\* under way.
THEOREM BackAlwaysLeadsOut == Spec => []BackLeadsOut
<1>1. ASSUME NEW v, FormOK(v), v.step \in Steps \ {"initial"}
      PROVE  Rank[v.prev] < Rank[v.step] \/ (v.step = "minorMajor" /\ v.prev = "minorMajor")
  <2>1. v.prev \in Previous(v.step)
    BY <1>1 DEF FormOK
  <2> QED  BY <1>1, <2>1, Ranks DEF Previous, Steps
<1>2. ViewsAreGood => BackLeadsOut
  BY <1>1 DEF ViewsAreGood, Good, BackLeadsOut
<1> QED  BY <1>2, ViewsStayGood, PTL

\* Under every fault, while the "Processing" view is shown, an update is
\* under way, unless one was given up (OverwriteView, its error view, a
\* restart).
THEOREM ProcessingIsAnswered == Spec => []ProcessingGoesOn
<1>1. Init => ProcessingGoesOn
  BY DEF Init, ProcessingGoesOn, Plain
<1>2. ASSUME ProcessingGoesOn, [Next]_vars
      PROVE  ProcessingGoesOn'
  <2>1. CASE OpenModal
    BY <2>1 DEF OpenModal, Plain, Form, ProcessingGoesOn
  <2>2. CASE CloseModal
    BY <2>2 DEF CloseModal, Plain, ProcessingGoesOn
  <2>3. CASE SubmitStep
    <3>1. \E views, safe, request : Answer(views, safe, request)
      BY <2>3, Zenon DEF SubmitStep, FirstStep, ModeStep, FilterVersionStep, SelectMinorMajorStep,
         SelectVersionStep, PRInputStep, LaunchOptionsStep, CreateConfirmStep, SimpleProcess
    <3> QED  BY <3>1 DEF Answer, ProcessingGoesOn
  <2>4. CASE NavigateBack
    BY <2>4 DEF NavigateBack, ProcessingGoesOn
  <2>5. CASE UpdateLands
    BY <2>5 DEF UpdateLands, OverwriteView, RefuseUpdate, LoseUpdate, ProcessingGoesOn
  <2>6. CASE Restart
    BY <2>6 DEF Restart, ProcessingGoesOn
  <2>7. CASE UNCHANGED vars
    BY <1>2, <2>7 DEF vars, ProcessingGoesOn
  <2> QED  BY <1>2, <2>1, <2>2, <2>3, <2>4, <2>5, <2>6, <2>7 DEF Next
<1> QED  BY <1>1, <1>2, PTL DEF Spec

=============================================================================
