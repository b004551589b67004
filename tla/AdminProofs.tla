---------------------------- MODULE AdminProofs ----------------------------
(***************************************************************************)
(* Proofs about the administrator's pages: for any policy sets, conditions,  *)
(* packages, ACLs and templates, and any number of calls under way and of    *)
(* clicks, RulesOwnSet, ConditionsKept, SavedStays, UpdatesFit and EditorsOwn*)
(* hold.                                                                    *)
(*                                                                          *)
(* Each page has an invariant of its own, which matters only while it is     *)
(* open, and no step changes the page.  Conditions and the editor's trees    *)
(* are of any depth: what FromLeaves and Put make of one is found by         *)
(* induction over its places, for a set of places instead of a predicate     *)
(* (the least number not in it, WFMin).  Then an editor's tree reads as what *)
(* it shows (TreeReads), a condition it has widgets for opens as one that    *)
(* reads as it (GroupOpens), and an edit leaves a tree (EditedTree).         *)
(***************************************************************************)
EXTENDS Admin, SequenceTheorems, WellFoundedInduction, TLAPS

(* A page that has room for a call has a number for it.                      *)
LEMMA SlotIsFree ==
    ASSUME Taken \subseteq Slots, Room
    PROVE  Slot \in Slots /\ Slot \notin Taken
  BY DEF Room, Slot

----------------------------------------------------------------------------
(* The sections of the settings.  What a save is about to store of another   *)
(* section agrees with the saves that were stored before its GET was         *)
(* answered, but for what one of them may have undone, and for what the save *)
(* itself will reset (Agrees).                                               *)
Content == {"stored", "new", "default", "html"}
Given(s) == [S!FieldsOf(s) -> Content]
SaveCall == {c \in [n : Slots, sec : S!Sections, step : {"get", "put"},
                    val : UNION {Given(s) : s \in S!Sections},
                    body : [S!Fields -> Content], since : Nat] : c.val \in Given(c.sec)}
Saved == [sec : S!Sections, val : Content, since : Nat]

Agrees(c) ==
    /\ c.since <= Len(log) /\ c.body[c.sec] = c.val[c.sec]
    /\ \A i \in 1 .. c.since :
         \/ log[i].sec \in {c.sec} \cup S!ResetBy(c.sec)
         \/ c.body[log[i].sec] = log[i].val
         \/ \E j \in i + 1 .. c.since : S!MayUndo(j, i)

SettingsOK ==
    /\ stored \in [S!Fields -> Content]
    /\ form \in [S!Fields -> Content]
    /\ log \in Seq(Saved)
    /\ out \subseteq SaveCall
    /\ \A c \in out : c.step = "put" => Agrees(c)
    /\ S!SavedStays

(* The fields are those of the sections, and the switch.                     *)
LEMMA FieldsAre ==
    /\ S!Sections = {"backend", "cache", "branch", "debug", "decomm", "guest"}
    /\ S!Fields = S!Sections \cup {"authz"}
    /\ \A s \in S!Sections : s \in S!FieldsOf(s) /\ S!FieldsOf(s) \subseteq S!Fields
    /\ \A s \in S!Sections \ {"decomm"} : S!FieldsOf(s) = {s}
    /\ S!FieldsOf("decomm") = {"decomm", "authz"}
  BY DEF S!Sections, S!Fields, S!FieldsOf

(* The page opens with nothing saved.                                        *)
LEMMA SettingsStarts == S!SettingsInit /\ out = {} => SettingsOK
  <1> SUFFICES ASSUME S!SettingsInit, out = {} PROVE SettingsOK
    OBVIOUS
  <1>1. stored \in [S!Fields -> Content] /\ form \in [S!Fields -> Content]
    BY DEF S!SettingsInit, Content
  <1>2. log = <<>>
    BY DEF S!SettingsInit
  <1>3. log \in Seq(Saved) /\ Len(log) = 0
    BY <1>2, EmptySeq
  <1>4. S!SavedStays
    BY <1>3 DEF S!SavedStays
  <1> QED BY <1>1, <1>3, <1>4 DEF SettingsOK

(* What is given of a section has its type.                                  *)
LEMMA GivenOK ==
    ASSUME NEW s \in S!Sections, NEW values \in [S!Fields -> Content]
    PROVE  S!Of(s, values) \in Given(s) /\ S!Of(s, values)[s] = values[s]
  BY FieldsAre DEF S!Of, Given

(* A call that starts is a GET, or a PUT that knows of no other save and     *)
(* resets them all.                                                          *)
LEMMA SaveStarts ==
    ASSUME SettingsOK, S!Room, NEW s \in S!Sections, NEW values \in [S!Fields -> Content],
           NEW step \in {"get", "put"}, NEW body \in [S!Fields -> Content],
           step = "get" \/ body[s] = values[s],
           stored' = stored, log' = log, form' \in [S!Fields -> Content],
           out' = out \cup {S!Call(s, step, S!Of(s, values), body)}
    PROVE  SettingsOK'
  <1> DEFINE d == S!Call(s, step, S!Of(s, values), body)
  <1>1. S!Slot \in Slots
    BY SlotIsFree DEF S!Room, S!Slot, S!Slots, S!Taken, Room, Slot, Slots, Taken, SettingsOK, SaveCall
  <1>2. /\ d.n = S!Slot /\ d.sec = s /\ d.step = step /\ d.val = S!Of(s, values) /\ d.body = body
        /\ d.since = 0 /\ d = [n |-> d.n, sec |-> d.sec, step |-> d.step, val |-> d.val,
                               body |-> d.body, since |-> d.since]
    BY DEF S!Call
  <1>3. S!Of(s, values) \in Given(s) /\ S!Of(s, values)[s] = values[s]
    BY GivenOK
  <1> HIDE DEF d
  <1>4. d \in SaveCall
    BY <1>1, <1>2, <1>3 DEF SaveCall
  <1>5. Len(log) \in Nat
    BY LenProperties DEF SettingsOK
  <1>6. d.step = "put" => Agrees(d)
    BY <1>2, <1>3, <1>5 DEF Agrees
  <1>7. out' = out \cup {d}
    BY DEF d
  <1>8. \A c \in out' : c.step = "put" => Agrees(c)'
    BY <1>6, <1>7 DEF SettingsOK, Agrees, S!MayUndo
  <1> QED BY <1>4, <1>7, <1>8 DEF SettingsOK, S!SavedStays, S!MayUndo

(* The answer to a GET: what is stored now agrees with all saves so far.     *)
LEMMA SaveAsked ==
    ASSUME SettingsOK, NEW c \in out, S!GetAnswer(c) PROVE SettingsOK'
  <1> DEFINE v == IF c.sec \in S!ReadLate THEN S!Of(c.sec, form) ELSE c.val
             b == S!Body(c.sec, S!Reported, v)
             d == [c EXCEPT !.step = "put", !.val = v, !.since = Len(log), !.body = b]
  <1>1. c \in SaveCall /\ c.sec \in S!Sections /\ c.val \in Given(c.sec)
    BY DEF SettingsOK, SaveCall
  <1>2. v \in Given(c.sec)
    BY <1>1, GivenOK DEF SettingsOK
  <1>3. Len(log) \in Nat
    BY LenProperties DEF SettingsOK
  <1>4. /\ S!Reported \in [S!Fields -> Content]
        /\ \A s \in S!Sections : S!Reported[s] = stored[s]
    BY FieldsAre DEF S!Reported, SettingsOK, Content
  <1> HIDE DEF v
  <1>5. /\ b \in [S!Fields -> Content] /\ b[c.sec] = v[c.sec]
        /\ \A s \in S!Sections \ ({c.sec} \cup S!ResetBy(c.sec)) : b[s] = stored[s]
    <2>1. \A f \in S!FieldsOf(c.sec) : v[f] \in Content
      BY <1>2 DEF Given
    <2>2. DOMAIN v = S!FieldsOf(c.sec)
      BY <1>2 DEF Given
    <2>3. CASE c.sec = "cache"
      <3>1. b = [S!Defaults EXCEPT !["backend"] = S!Reported["backend"], !["cache"] = v["cache"]]
        BY <2>3 DEF S!Body, S!CacheBody
      <3>2. S!Defaults \in [S!Fields -> Content]
        BY DEF S!Defaults, Content
      <3>3. v["cache"] \in Content /\ S!Reported["backend"] \in Content
        BY <1>4, <2>1, <2>3, FieldsAre
      <3>4. S!ResetBy("cache") = S!Sections \ {"backend", "cache"}
        BY DEF S!ResetBy
      <3> QED BY <1>4, <2>3, <3>1, <3>2, <3>3, <3>4, FieldsAre
    <2>4. CASE c.sec # "cache"
      <3>1. b = [f \in S!Fields |-> IF f \in S!FieldsOf(c.sec) THEN v[f] ELSE S!Reported[f]]
        BY <2>2, <2>4 DEF S!Body, S!With
      <3>2. \A s \in S!Sections \ {c.sec} : s \notin S!FieldsOf(c.sec)
        BY <1>1, FieldsAre
      <3> QED BY <1>1, <1>4, <2>1, <3>1, <3>2, FieldsAre
    <2> QED BY <2>3, <2>4
  <1>6. d.step = "put" /\ d.sec = c.sec /\ d.val = v /\ d.since = Len(log) /\ d.body = b
    BY <1>1 DEF SaveCall
  <1>7. d \in SaveCall
    BY <1>1, <1>2, <1>3, <1>5 DEF SaveCall
  <1>8. out' = (out \ {c}) \cup {d} /\ stored' = stored /\ form' = form /\ log' = log
    BY DEF S!GetAnswer, S!settingsVars, v
  <1> HIDE DEF d, b
  <1>9. Agrees(d)
    <2> SUFFICES ASSUME NEW i \in 1 .. Len(log), log[i].sec \notin {c.sec} \cup S!ResetBy(c.sec)
                 PROVE  \/ b[log[i].sec] = log[i].val
                        \/ \E j \in i + 1 .. Len(log) : S!MayUndo(j, i)
      BY <1>3, <1>5, <1>6 DEF Agrees
    <2>1. log[i] \in Saved
      BY ElementOfSeq DEF SettingsOK
    <2>2. b[log[i].sec] = stored[log[i].sec]
      BY <1>5, <2>1 DEF Saved
    <2> QED BY <2>2 DEF SettingsOK, S!SavedStays
  <1>10. \A x \in out' : x.step = "put" => Agrees(x)'
    BY <1>8, <1>9 DEF SettingsOK, Agrees, S!MayUndo
  <1> QED BY <1>7, <1>8, <1>10 DEF SettingsOK, S!SavedStays, S!MayUndo

(* A save that is stored: it agrees with the earlier ones it knows of, and   *)
(* may undo the others.                                                      *)
LEMMA SaveStored ==
    ASSUME SettingsOK, NEW c \in out, S!Store(c) PROVE SettingsOK'
  <1> DEFINE e == [sec |-> c.sec, val |-> c.val[c.sec], since |-> c.since]
  <1>0. PICK n : n = Len(log)
    OBVIOUS
  <1>1. /\ c \in SaveCall /\ c.sec \in S!Sections /\ c.val \in Given(c.sec)
        /\ c.body \in [S!Fields -> Content] /\ c.since \in Nat /\ Agrees(c)
    BY DEF SettingsOK, SaveCall, S!Store
  <1>2. e \in Saved /\ e.sec = c.sec /\ e.val = c.val[c.sec] /\ e.since = c.since
    BY <1>1, FieldsAre DEF Saved, Given
  <1>3. /\ log' = Append(log, e) /\ out' = out \ {c} /\ form' = form
        /\ stored' = [c.body EXCEPT !["authz"] = stored["authz"]]
    BY DEF S!Store
  <1>4. n \in Nat /\ log \in Seq(Saved)
    BY <1>0, LenProperties DEF SettingsOK
  <1> HIDE DEF e
  <1>5. /\ log' \in Seq(Saved) /\ Len(log') = n + 1 /\ log'[n + 1] = e
        /\ \A i \in 1 .. n : log'[i] = log[i]
    BY <1>0, <1>2, <1>3, <1>4, AppendProperties
  <1>6. /\ stored' \in [S!Fields -> Content]
        /\ \A s \in S!Sections : stored'[s] = c.body[s]
    BY <1>1, <1>3, FieldsAre DEF SettingsOK
  <1>7. \A i, j \in 1 .. n : S!MayUndo(j, i)' <=> S!MayUndo(j, i)
    BY <1>5 DEF S!MayUndo
  <1>8. ASSUME NEW d \in out', d.step = "put" PROVE Agrees(d)'
    <2>1. d \in out /\ Agrees(d) /\ d.since \in Nat /\ d.since <= n
      BY <1>0, <1>3, <1>8 DEF SettingsOK, SaveCall, Agrees
    <2>2. ASSUME NEW i \in 1 .. d.since
          PROVE  \/ log'[i].sec \in {d.sec} \cup S!ResetBy(d.sec)
                 \/ d.body[log'[i].sec] = log'[i].val
                 \/ \E j \in i + 1 .. d.since : S!MayUndo(j, i)'
      <3>1. i \in 1 .. n /\ log'[i] = log[i]
        BY <1>4, <1>5, <2>1
      <3>2. \A j \in i + 1 .. d.since : j \in 1 .. n
        BY <1>4, <2>1
      <3> QED BY <1>7, <2>1, <3>1, <3>2 DEF Agrees
    <2> QED BY <1>4, <1>5, <2>1, <2>2 DEF Agrees
  <1>9. ASSUME NEW i \in 1 .. Len(log')
        PROVE  \/ stored'[log'[i].sec] = log'[i].val
               \/ \E j \in i + 1 .. Len(log') : S!MayUndo(j, i)'
    <2>1. CASE i = n + 1
      BY <1>1, <1>2, <1>5, <1>6, <2>1 DEF Agrees
    <2>2. CASE i # n + 1
      <3>1. i \in 1 .. n /\ log'[i] = log[i] /\ n + 1 \in i + 1 .. Len(log')
        BY <1>4, <1>5, <2>2
      <3>2. log[i] \in Saved
        BY <1>0, <1>4, <3>1, ElementOfSeq
      <3>3. \/ log[i].sec \in {c.sec} \cup S!ResetBy(c.sec)
            \/ c.since < i
            \/ c.body[log[i].sec] = log[i].val
            \/ \E j \in i + 1 .. c.since : S!MayUndo(j, i)
        BY <1>1, <3>1 DEF Agrees
      <3>4. CASE log[i].sec \in {c.sec} \cup S!ResetBy(c.sec) \/ c.since < i
        <4>1. log'[n + 1].sec = c.sec /\ log'[n + 1].since = c.since /\ log'[i].sec = log[i].sec
          BY <1>2, <1>5, <3>1
        <4>2. \/ log'[n + 1].sec = log'[i].sec
              \/ log'[i].sec \in S!ResetBy(log'[n + 1].sec)
              \/ log'[n + 1].since < i
          BY <3>4, <4>1
        <4>3. S!MayUndo(n + 1, i)'
          BY <4>2 DEF S!MayUndo
        <4> QED BY <3>1, <4>3
      <3>5. CASE c.body[log[i].sec] = log[i].val
        BY <1>6, <3>1, <3>2, <3>5 DEF Saved
      <3>6. CASE \E j \in i + 1 .. c.since : S!MayUndo(j, i)
        <4>1. PICK j \in i + 1 .. c.since : S!MayUndo(j, i)
          BY <3>6
        <4>2. j \in 1 .. n /\ j \in i + 1 .. Len(log')
          BY <1>0, <1>1, <1>4, <1>5, <3>1, <4>1 DEF Agrees
        <4> QED BY <1>7, <3>1, <4>1, <4>2
      <3> QED BY <3>3, <3>4, <3>5, <3>6
    <2> QED BY <2>1, <2>2
  <1>10. out' \subseteq SaveCall
    BY <1>3 DEF SettingsOK
  <1>11. S!SavedStays'
    BY <1>9 DEF S!SavedStays
  <1> QED BY <1>3, <1>5, <1>6, <1>8, <1>10, <1>11 DEF SettingsOK

(* Every step of the settings keeps this.                                    *)
LEMMA SettingsStep == ASSUME SettingsOK, S!SettingsNext PROVE SettingsOK'
  <1> USE DEF SettingsOK
  <1>a. S!Defaults \in [S!Fields -> Content] /\ S!Toggles \subseteq S!Sections
    BY DEF S!Defaults, S!Sections, Content, S!Toggles
  <1>b. \A v \in Content : S!Flip(v) \in Content
    BY DEF S!Flip, Content
  <1>0. ASSUME stored' = stored, log' = log, form' \in [S!Fields -> Content], out' \subseteq out
        PROVE  SettingsOK'
    BY <1>0 DEF S!SavedStays, S!MayUndo, Agrees
  <1>1. CASE S!NextSections
    BY <1>1, <1>0 DEF S!NextSections
  <1>2. ASSUME NEW g, S!Fill(g) PROVE SettingsOK'
    <2>1. S!Reported \in [S!Fields -> Content]
      BY FieldsAre DEF S!Reported, Content
    <2>2. form' \in [S!Fields -> Content]
      BY <1>2, <2>1 DEF S!Fill
    <2> QED BY <2>2, <1>2, <1>0 DEF S!Fill
  <1>3. ASSUME NEW f \in S!Fields, S!Enter(f) PROVE SettingsOK'
    <2>1. form' \in [S!Fields -> Content]
      BY <1>3 DEF S!Enter, Content
    <2> QED BY <2>1, <1>3, <1>0 DEF S!Enter
  <1>4. CASE S!SaveBackend
    <2>1. S!BackendBody \in [S!Fields -> Content] /\ S!BackendBody["backend"] = form["backend"]
      BY <1>a, FieldsAre DEF S!BackendBody
    <2> QED BY <2>1, <1>4, FieldsAre, SaveStarts DEF S!SaveBackend, S!settingsVars
  <1>5. CASE S!SaveCache
    BY <1>5, <1>a, FieldsAre, SaveStarts DEF S!SaveCache, S!Ask, S!settingsVars
  <1>6. ASSUME NEW s \in S!Sections, S!Turned(s) PROVE SettingsOK'
    <2>1. form' \in [S!Fields -> Content]
      BY <1>6, <1>b, FieldsAre DEF S!Turned
    <2> QED BY <2>1, <1>6, <1>a, SaveStarts DEF S!Turned, S!Ask
  <1>7. ASSUME NEW s \in S!Sections, S!Submitted(s) PROVE SettingsOK'
    BY <1>7, <1>a, SaveStarts DEF S!Submitted, S!Ask
  <1>8. ASSUME NEW c \in out, S!GetAnswer(c) PROVE SettingsOK'
    BY <1>8, SaveAsked
  <1>9. ASSUME NEW c \in out, S!Store(c) PROVE SettingsOK'
    BY <1>9, SaveStored
  <1>10. ASSUME NEW c \in out, S!SaveFailed(c) PROVE SettingsOK'
    <2>1. form' \in [S!Fields -> Content]
      BY <1>10, <1>a, <1>b, FieldsAre DEF S!SaveFailed
    <2> QED BY <2>1, <1>10, <1>0 DEF S!SaveFailed
  <1> QED
    BY <1>1, <1>2, <1>3, <1>4, <1>5, <1>6, <1>7, <1>8, <1>9, <1>10, FieldsAre
       DEF S!SettingsNext, S!FillBackend, S!FillCache, S!FillBranch, S!FillAdvanced, S!FillGuest,
           S!TurnBranch, S!TurnDebug, S!SaveDecomm, S!SaveGuest

----------------------------------------------------------------------------
(* The update cards.  Only what the server found good counts as validated.   *)
(* While the server compares or pulls, the button that would start a second  *)
(* call is off, or not in the page.                                          *)
Kinds == {"validate", "apply", "applyRestart", "restart", "reload", "check", "pull"}
UpdateCall == [n : Slots, kind : Kinds, file : SUBSET Packages]
Busy(kinds) == \E c \in out : c.kind \in kinds

UpdateOK ==
    /\ out \subseteq UpdateCall
    /\ chosen \subseteq Packages /\ validated \subseteq Packages
    /\ validated \subseteq Good
    /\ Busy({"check"}) => "check" \notin on /\ ~pullShown
    /\ Busy({"pull"}) => "check" \notin on /\ "pull" \notin on
    /\ U!AppliesFit /\ U!PullAlone

(* The update page opens idle.                                               *)
LEMMA UpdateStarts == U!UpdateInit /\ out = {} => UpdateOK
  BY DEF U!UpdateInit, UpdateOK, Busy, U!AppliesFit, U!PullAlone

(* A call of the update page that starts.                                    *)
LEMMA CallIsTyped ==
    ASSUME out \subseteq UpdateCall, U!Room, NEW k \in Kinds, NEW f \in SUBSET Packages
    PROVE  U!Call(k, f) \in UpdateCall /\ U!Call(k, f).kind = k
  <1>1. U!Slot \in Slots
    BY SlotIsFree DEF U!Room, U!Slot, U!Slots, U!Taken, Room, Slot, Slots, Taken, UpdateCall
  <1> QED BY <1>1 DEF U!Call, UpdateCall

(* A step that neither compares nor pulls, and turns neither button on.      *)
LEMMA ElseUpdate ==
    ASSUME UpdateOK, out' \subseteq UpdateCall,
           \A c \in out' : c.kind \in {"check", "pull"} => c \in out,
           on' \cap {"check", "pull"} \subseteq on, pullShown' => pullShown,
           chosen' \subseteq Packages, validated' \subseteq Packages, validated' \subseteq Good,
           applied' \subseteq applied \cup validated
    PROVE  UpdateOK'
  <1>1. U!AppliesFit' BY DEF UpdateOK, U!AppliesFit
  <1>2. U!PullAlone' BY DEF UpdateOK, U!PullAlone
  <1>3. (Busy({"check"}))' => Busy({"check"}) BY DEF Busy
  <1>4. (Busy({"pull"}))' => Busy({"pull"}) BY DEF Busy
  <1> QED BY <1>1, <1>2, <1>3, <1>4 DEF UpdateOK

(* Every step of the update page keeps this.                                 *)
LEMMA UpdateStep == ASSUME UpdateOK, U!UpdateNext PROVE UpdateOK'
  <1> USE DEF UpdateOK
  <1>0. \A c \in out : c.kind \in Kinds /\ c.file \subseteq Packages
    BY DEF UpdateCall
  <1>1. ASSUME NEW f \in Packages, U!Choose(f) PROVE UpdateOK'
    <2>1. U!Call("validate", {f}) \in UpdateCall /\ U!Call("validate", {f}).kind = "validate"
      BY <1>1, CallIsTyped DEF U!Choose, Kinds
    <2> QED BY <1>1, <2>1, ElseUpdate DEF U!Choose, U!Validation, U!Turn
  <1>2. CASE U!Unchoose
    BY <1>2, ElseUpdate DEF U!Unchoose, U!Turn
  <1>3. CASE U!Validate
    <2>1. PICK f \in chosen : U!Validation(f)
      BY <1>3 DEF U!Validate
    <2>2. U!Call("validate", {f}) \in UpdateCall /\ U!Call("validate", {f}).kind = "validate"
      BY <1>3, CallIsTyped DEF U!Validate, Kinds
    <2> QED BY <1>3, <2>1, <2>2, ElseUpdate DEF U!Validate, U!Validation, U!Turn
  <1>4. CASE U!Restart
    <2>1. U!Call("restart", {}) \in UpdateCall /\ U!Call("restart", {}).kind = "restart"
      BY <1>4, CallIsTyped DEF U!Restart, Kinds
    <2> QED BY <1>4, <2>1, ElseUpdate DEF U!Restart, U!Turn
  <1>5. CASE U!Check
    <2>1. U!Call("check", {}) \in UpdateCall /\ U!Call("check", {}).kind = "check"
      BY <1>5, CallIsTyped DEF U!Check, Kinds
    <2>2. ~Busy({"check"}) /\ ~Busy({"pull"})
      BY <1>5 DEF U!Check
    <2>3. U!PullAlone'
      BY <1>5, <2>1, <2>2 DEF U!Check, U!PullAlone, Busy
    <2>4. ~(Busy({"pull"}))'
      BY <1>5, <2>1, <2>2 DEF U!Check, Busy
    <2> QED BY <1>5, <2>1, <2>3, <2>4 DEF U!Check, U!Package, U!Turn, U!AppliesFit
  <1>6. CASE U!BranchStored
    BY <1>6, ElseUpdate DEF U!BranchStored, U!Package
  <1>7. CASE U!Pull
    <2>1. U!Call("pull", {}) \in UpdateCall /\ U!Call("pull", {}).kind = "pull"
      BY <1>7, CallIsTyped DEF U!Pull, Kinds
    <2>2. ~Busy({"check"}) /\ ~Busy({"pull"})
      BY <1>7 DEF U!Pull
    <2>3. U!PullAlone'
      BY <1>7, <2>1, <2>2 DEF U!Pull, U!PullAlone, Busy
    <2>4. ~(Busy({"check"}))'
      BY <1>7, <2>1, <2>2 DEF U!Pull, Busy
    <2> QED BY <1>7, <2>1, <2>3, <2>4 DEF U!Pull, U!Package, U!Turn, U!AppliesFit
  <1>8. ASSUME NEW b \in {"apply", "applyRestart"}, U!Apply(b) PROVE UpdateOK'
    <2>1. U!Call(b, validated) \in UpdateCall /\ U!Call(b, validated).kind = b
      BY <1>8, CallIsTyped DEF U!Apply, Kinds
    <2> QED BY <1>8, <2>1, ElseUpdate DEF U!Apply, U!Turn
  <1>9. ASSUME NEW c \in out, U!Validated(c) PROVE UpdateOK'
    BY <1>0, <1>9, ElseUpdate DEF U!Validated, U!Turn
  <1>10. ASSUME NEW c \in out, U!ValidationFailed(c) PROVE UpdateOK'
    BY <1>10, ElseUpdate DEF U!ValidationFailed, U!Turn
  <1>11. ASSUME NEW c \in out, U!ApplyAnswer(c) PROVE UpdateOK'
    <2> DEFINE d == [c EXCEPT !.kind = "restart", !.file = {}]
    <2>1. d \in UpdateCall /\ d.kind = "restart"
      BY DEF UpdateCall, Kinds
    <2> HIDE DEF d
    <2> QED BY <1>11, <2>1, ElseUpdate DEF U!ApplyAnswer, U!updateVars, d
  <1>12. ASSUME NEW c \in out, U!ApplyFailed(c) PROVE UpdateOK'
    BY <1>12, ElseUpdate DEF U!ApplyFailed, U!Turn
  <1>13. ASSUME NEW c \in out, U!RestartAnswer(c) PROVE UpdateOK'
    <2> DEFINE d == [c EXCEPT !.kind = "reload"]
    <2>1. d \in UpdateCall /\ d.kind = "reload"
      BY DEF UpdateCall, Kinds
    <2> HIDE DEF d
    <2> QED BY <1>13, <2>1, ElseUpdate DEF U!RestartAnswer, d
  <1>14. ASSUME NEW c \in out, U!CheckAnswer(c) PROVE UpdateOK'
    <2>1. \A x \in out' : x.kind \notin {"check", "pull"}
      BY <1>14 DEF U!CheckAnswer, U!PullAlone
    <2> QED BY <1>14, <2>1 DEF U!CheckAnswer, U!Package, U!PullAlone, U!AppliesFit, Busy
  <1>15. ASSUME NEW c \in out, U!PullAnswer(c) PROVE UpdateOK'
    <2>1. \A x \in out' : x.kind \notin {"check", "pull"}
      BY <1>15 DEF U!PullAnswer, U!PullAlone
    <2> QED BY <1>15, <2>1 DEF U!PullAnswer, U!Package, U!PullAlone, U!AppliesFit, Busy
  <1>16. ASSUME NEW c \in out, U!Reload(c) PROVE UpdateOK'
    BY <1>16 DEF U!Reload, U!PullAlone, U!AppliesFit, Busy
  <1>17. ASSUME NEW from, NEW to, U!Server(from, to) PROVE UpdateOK'
    BY <1>17, ElseUpdate DEF U!Server, U!Package
  <1>18. CASE U!Poll
    BY <1>18, ElseUpdate DEF U!Poll, U!Package
  <1> QED
    BY <1>1, <1>2, <1>3, <1>4, <1>5, <1>6, <1>7, <1>8, <1>9, <1>10, <1>11, <1>12, <1>13,
       <1>14, <1>15, <1>16, <1>17, <1>18 DEF U!UpdateNext

----------------------------------------------------------------------------
(* The page of ACLs.  The editor was drawn for what is selected, or nothing  *)
(* is, and then Save and Delete do nothing, or the list is being fetched     *)
(* after a save of what is selected.                                         *)
Names == Acls \cup {"none", "new"}
AclCall == [n : Slots, op : {"first", "list", "saved", "deleted", "get", "put", "post", "delete"},
            id : Names, of : Names, after : SUBSET Names, seen : SUBSET Acls]
Editors == [of : Names, typed : BOOLEAN, off : SUBSET ({"save", "delete"} \X Slots)]

DaclsOK ==
    /\ exist \subseteq Acls /\ dacls \subseteq Acls /\ items \subseteq Acls
    /\ selected \in Names /\ editor \in Editors /\ dirty \in BOOLEAN
    /\ out \subseteq AclCall
    /\ D!DaclAsShown

(* An editor as it is drawn.                                                 *)
LEMMA DrawnIsTyped ==
    ASSUME NEW s \in Names
    PROVE  D!Drawn(s) \in Editors /\ D!Drawn(s).of = s
  BY DEF D!Drawn, Editors

(* The ACL page opens with no editor.                                        *)
LEMMA DaclsStart == D!DaclsInit /\ out = D!FirstCall => DaclsOK
  <1> SUFFICES ASSUME D!DaclsInit, out = D!FirstCall PROVE DaclsOK
    OBVIOUS
  <1>1. 1 \in Slots /\ exist \subseteq Acls
    BY AdminBounds, FormsAssumption DEF Slots, D!DaclsInit
  <1>2. out \subseteq AclCall
    BY <1>1 DEF D!FirstCall, AclCall, Names
  <1>3. D!Drawn("none") \in Editors /\ D!Drawn("none").of = "none"
    BY DrawnIsTyped DEF Names
  <1>4. D!DaclAsShown
    BY <1>3 DEF D!DaclsInit, D!FirstCall, D!DaclAsShown
  <1> QED BY <1>1, <1>2, <1>3, <1>4 DEF D!DaclsInit, DaclsOK, Names

(* A call of the ACL page that starts.                                       *)
LEMMA AclCallIsTyped ==
    ASSUME DaclsOK, D!Room, NEW id \in Names,
           NEW op \in {"first", "list", "saved", "deleted", "get", "put", "post", "delete"}
    PROVE  LET c == D!Call(op, id)
           IN c \in AclCall /\ c.op = op /\ c.id = id /\ c.of = editor.of
  <1>1. D!Slot \in Slots
    BY SlotIsFree
       DEF D!Room, D!Slot, D!Slots, D!Taken, Room, Slot, Slots, Taken, DaclsOK, AclCall
  <1> QED BY <1>1 DEF D!Call, AclCall, DaclsOK, Editors

(* A step that leaves the editor's subject alone and starts no write.        *)
LEMMA ElseDacls ==
    ASSUME DaclsOK, out' \subseteq AclCall,
           \A c \in out' : c.op \in {"put", "post", "delete"} => c \in out,
           \A c \in out : c.op = "saved" => c \in out',
           exist' \subseteq Acls, dacls' \subseteq Acls, items' \subseteq Acls,
           editor' \in Editors, editor'.of = editor.of, dirty' \in BOOLEAN,
           selected' = selected \/ selected' = "none"
    PROVE  DaclsOK'
  <1>1. D!JustSaved \subseteq D!JustSaved'
    BY DEF D!JustSaved
  <1>2. D!DaclAsShown'
    BY <1>1 DEF DaclsOK, D!DaclAsShown
  <1> QED BY <1>2 DEF DaclsOK, Names

(* A step that draws the editor for what is selected, and starts no write.   *)
LEMMA EditorDrawn ==
    ASSUME DaclsOK, out' \subseteq out,
           dacls' \subseteq Acls, items' \subseteq Acls, exist' = exist, dirty' \in BOOLEAN,
           selected' \in Names, editor' = D!Drawn(selected')
    PROVE  DaclsOK'
  <1>1. editor' \in Editors /\ editor'.of = selected'
    BY DrawnIsTyped
  <1>2. D!DaclAsShown'
    BY <1>1 DEF DaclsOK, D!DaclAsShown
  <1> QED BY <1>1, <1>2 DEF DaclsOK

(* An answered write: the list is fetched again, and what was saved is       *)
(* selected.                                                                 *)
LEMMA WriteAnswered ==
    ASSUME DaclsOK, NEW c \in out, NEW s \in Names, NEW op \in D!AfterWrite,
           op = "saved" \/ s = "none", D!Written(c, s, op), exist' \subseteq Acls
    PROVE  DaclsOK'
  <1> DEFINE d == [c EXCEPT !.op = op, !.id = s, !.seen = exist']
  <1>1. d \in AclCall /\ d.op = op /\ d.id = s
    BY DEF DaclsOK, AclCall, D!AfterWrite
  <1>2. out' = (out \ {c}) \cup {d} /\ editor' = editor /\ dacls' = dacls /\ items' = {}
        /\ selected' = s /\ dirty' = FALSE
    BY DEF D!Written
  <1> HIDE DEF d
  <1>3. selected' = "none" \/ selected' \in D!JustSaved'
    BY <1>1, <1>2 DEF D!JustSaved
  <1>4. D!DaclAsShown'
    BY <1>1, <1>2, <1>3 DEF DaclsOK, D!DaclAsShown, D!AfterWrite
  <1> QED BY <1>1, <1>2, <1>4 DEF DaclsOK

(* Every step of the ACL page keeps this.                                    *)
LEMMA DaclsStep == ASSUME DaclsOK, D!DaclsNext PROVE DaclsOK'
  <1>a. /\ exist \subseteq Acls /\ dacls \subseteq Acls /\ items \subseteq Acls
        /\ selected \in Names /\ editor \in Editors /\ dirty \in BOOLEAN
        /\ out \subseteq AclCall /\ {"none", "new"} \subseteq Names /\ Acls \subseteq Names
    BY DEF DaclsOK, Names
  <1>1. CASE D!Refresh
    <2>1. D!Call("list", "none") \in AclCall /\ D!Call("list", "none").op = "list"
      BY <1>1, <1>a, AclCallIsTyped DEF D!Refresh
    <2> QED BY <1>1, <1>a, <2>1, ElseDacls DEF D!Refresh
  <1>2. CASE D!New
    BY <1>2, <1>a, EditorDrawn DEF D!New, D!Select
  <1>3. CASE D!Cancel
    BY <1>3, <1>a, EditorDrawn DEF D!Cancel, D!Select
  <1>4. CASE D!Type
    <2>1. editor' \in Editors /\ editor'.of = editor.of
      BY <1>4, <1>a DEF D!Type, Editors
    <2> QED BY <1>4, <1>a, <2>1, ElseDacls DEF D!Type
  <1>5. ASSUME NEW b \in {"save", "delete"}, NEW op \in {"put", "post", "delete"}, D!Write(b, op)
        PROVE  DaclsOK'
    <2> DEFINE c == D!Call(op, selected)
               d == [c EXCEPT !.after = D!JustSaved]
    <2>1. c \in AclCall /\ c.op = op /\ c.id = selected /\ c.of = editor.of
      BY <1>5, <1>a, AclCallIsTyped DEF D!Write
    <2>2. D!JustSaved \subseteq Names
      BY <1>a DEF D!JustSaved, AclCall
    <2>3. d \in AclCall /\ d.op = op /\ d.id = selected /\ d.of = editor.of /\ d.after = D!JustSaved
      BY <2>1, <2>2 DEF AclCall
    <2>4. D!Slot \in Slots
      BY <1>5, <1>a, SlotIsFree
         DEF D!Write, D!Room, D!Slot, D!Slots, D!Taken, Room, Slot, Slots, Taken, AclCall
    <2>5. editor' \in Editors /\ editor'.of = editor.of
      BY <1>5, <1>a, <2>4 DEF D!Write, Editors
    <2> HIDE DEF c
    <2>6. out' = out \cup {d} /\ selected # "none" /\ UNCHANGED <<exist, dacls, items, selected, dirty>>
      BY <1>5 DEF D!Write, c
    <2> HIDE DEF d
    <2>7. D!JustSaved' = D!JustSaved
      BY <2>3, <2>6 DEF D!JustSaved
    <2>8. selected \in {editor.of} \cup D!JustSaved
      BY <2>6 DEF DaclsOK, D!DaclAsShown
    <2>9. D!DaclAsShown'
      BY <2>3, <2>5, <2>6, <2>7, <2>8 DEF DaclsOK, D!DaclAsShown
    <2> QED BY <1>a, <2>3, <2>5, <2>6, <2>7, <2>8, <2>9 DEF DaclsOK
  <1>6. ASSUME NEW a \in Acls, D!Open(a) PROVE DaclsOK'
    <2>1. D!Call("get", a) \in AclCall /\ D!Call("get", a).op = "get"
      BY <1>6, <1>a, AclCallIsTyped DEF D!Open
    <2> QED BY <1>6, <1>a, <2>1, ElseDacls DEF D!Open, D!daclVars
  <1>7. ASSUME NEW c \in out, D!ListAnswer(c) PROVE DaclsOK'
    <2>1. c.seen \subseteq Acls
      BY <1>a DEF AclCall
    <2>2. dacls' \subseteq Acls /\ items' \subseteq Acls /\ (selected' = selected \/ selected' = "none")
      BY <1>7, <1>a, <2>1 DEF D!ListAnswer
    <2>3. CASE c.op = "list"
      BY <1>7, <1>a, <2>2, <2>3, ElseDacls DEF D!ListAnswer, D!EditorThen
    <2>4. CASE c.op # "list"
      BY <1>7, <1>a, <2>2, <2>4, EditorDrawn DEF D!ListAnswer, D!EditorThen
    <2> QED BY <2>3, <2>4
  <1>8. ASSUME NEW c \in out, D!Opened(c) PROVE DaclsOK'
    BY <1>8, <1>a, EditorDrawn DEF D!Opened, D!Select
  <1>9. ASSUME NEW c \in out, D!OpenFailed(c) PROVE DaclsOK'
    BY <1>9, <1>a, ElseDacls DEF D!OpenFailed, D!daclVars
  <1>10. ASSUME NEW c \in out, D!Updated(c) PROVE DaclsOK'
    BY <1>10, <1>a, WriteAnswered DEF D!Updated, D!AfterWrite
  <1>11. ASSUME NEW c \in out, D!Created(c) PROVE DaclsOK'
    BY <1>11, <1>a, WriteAnswered DEF D!Created, D!AfterWrite
  <1>12. ASSUME NEW c \in out, D!Deleted(c) PROVE DaclsOK'
    BY <1>12, <1>a, WriteAnswered DEF D!Deleted, D!AfterWrite
  <1>13. ASSUME NEW c \in out, D!WriteFailed(c) PROVE DaclsOK'
    <2>1. editor' \in Editors /\ editor'.of = editor.of
      BY <1>13, <1>a DEF D!WriteFailed, Editors
    <2> QED BY <1>13, <1>a, <2>1, ElseDacls DEF D!WriteFailed
  <1>14. CASE D!Save
    BY <1>14, <1>5 DEF D!Save
  <1>15. CASE D!Delete
    BY <1>15, <1>5 DEF D!Delete
  <1> QED
    BY <1>1, <1>2, <1>3, <1>4, <1>6, <1>7, <1>8, <1>9, <1>10, <1>11, <1>12, <1>13, <1>14, <1>15
       DEF D!DaclsNext

----------------------------------------------------------------------------
(* The templates.  A form, a call, a stored or a listed template has only    *)
(* values of its own subject, or blank ones.                                 *)
Own(t) == [T!Fields -> {T!Blank, t}]
SubjectOf(id) == IF id = T!Blank THEN "new" ELSE id
FormValues == [T!Fields -> Ids \cup {T!Blank, "new"}]
TplCall == [n : Slots, op : {"list", "relist", "create", "update", "delete"},
            id : Ids \cup {T!Blank}, body : FormValues]
Store(f) == DOMAIN f \subseteq Ids /\ \A t \in DOMAIN f : f[t] \in Own(t)

TemplatesOK ==
    /\ Store(tpls) /\ Store(listed)
    /\ draft \in [shown : BOOLEAN, id : Ids \cup {T!Blank}, fields : FormValues]
    /\ draft.fields \in Own(SubjectOf(draft.id))
    /\ out \subseteq TplCall
    /\ \A c \in out : c.body \in Own(IF c.op = "create" THEN "new" ELSE c.id)

(* So an editor shows one template.                                          *)
LEMMA OwnIsOne == TemplatesOK => T!OneTemplate
  BY DEF TemplatesOK, T!OneTemplate, T!Subject, SubjectOf, Own, Store

(* An empty form is one.                                                     *)
LEMMA BlankForm ==
    /\ T!Empty \in FormValues /\ \A t : T!Empty \in Own(t)
    /\ Store(T!NoList)
    /\ T!Hidden \in [shown : BOOLEAN, id : Ids \cup {T!Blank}, fields : FormValues]
    /\ T!Hidden.fields = T!Empty /\ T!Hidden.id = T!Blank
  BY DEF T!Empty, T!Hidden, T!NoList, FormValues, Own, Store

(* The templates page opens with no editor.                                  *)
LEMMA TemplatesStart == T!TemplatesInit /\ out = T!FirstList => TemplatesOK
  <1> SUFFICES ASSUME T!TemplatesInit, out = T!FirstList PROVE TemplatesOK
    OBVIOUS
  <1>1. 1 \in Slots
    BY AdminBounds DEF Slots
  <1>2. out \subseteq TplCall /\ \A c \in out : c.body = T!Empty
    BY <1>1, BlankForm DEF T!FirstList, TplCall
  <1>3. Store(tpls)
    BY FormsAssumption DEF T!TemplatesInit, Store, Own
  <1> QED BY <1>2, <1>3, BlankForm DEF T!TemplatesInit, TemplatesOK

(* A call of the templates page that starts.                                 *)
LEMMA TplCallIsTyped ==
    ASSUME TemplatesOK, T!Room, NEW op \in {"create", "update", "delete"},
           NEW id \in Ids \cup {T!Blank}, NEW body \in FormValues
    PROVE  LET c == T!Call(op, id, body) IN c \in TplCall /\ c.op = op /\ c.id = id /\ c.body = body
  <1>1. T!Slot \in Slots
    BY SlotIsFree
       DEF T!Room, T!Slot, T!Slots, T!Taken, Room, Slot, Slots, Taken, TemplatesOK, TplCall
  <1> QED BY <1>1 DEF T!Call, TplCall

(* Every step of the templates page keeps this.                              *)
LEMMA TemplatesStep == ASSUME TemplatesOK, T!TemplatesNext PROVE TemplatesOK'
  <1> DEFINE Drafts == [shown : BOOLEAN, id : Ids \cup {T!Blank}, fields : FormValues]
  <1>a. /\ Store(tpls) /\ Store(listed) /\ draft \in Drafts
        /\ draft.fields \in Own(SubjectOf(draft.id)) /\ out \subseteq TplCall
        /\ \A c \in out : c.body \in Own(IF c.op = "create" THEN "new" ELSE c.id)
    BY DEF TemplatesOK
  <1>1. CASE T!New
    <2>1. draft' \in Drafts /\ draft'.fields = T!Empty
      BY <1>1, BlankForm DEF T!New, T!resetForm
    <2> QED BY <1>1, <1>a, <2>1, BlankForm DEF T!New, TemplatesOK
  <1>2. CASE T!Cancel
    BY <1>2, <1>a, BlankForm DEF T!Cancel, T!resetForm, TemplatesOK
  <1>3. CASE T!Save
    <2> DEFINE op == IF draft.id = T!Blank THEN "create" ELSE "update"
               d == T!Call(op, draft.id, draft.fields)
    <2>1. d \in TplCall /\ d.op = op /\ d.id = draft.id /\ d.body = draft.fields
      BY <1>3, <1>a, TplCallIsTyped DEF T!Save
    <2>2. out' = out \cup {d} /\ UNCHANGED <<tpls, listed, draft>>
      BY <1>3 DEF T!Save
    <2> HIDE DEF d
    <2> QED BY <1>a, <2>1, <2>2 DEF TemplatesOK, SubjectOf
  <1>4. ASSUME NEW t \in Ids, T!Edit(t) PROVE TemplatesOK'
    <2>1. t # T!Blank
      BY FormsAssumption
    <2>2. listed[t] \in Own(t)
      BY <1>4, <1>a DEF T!Edit, Store
    <2>3. draft'.id = t /\ draft'.fields \in Own(t)
      BY <1>4, <2>2 DEF T!Edit, T!fillForm, Own
    <2>4. draft' \in Drafts
      BY <1>4, <2>2 DEF T!Edit, T!fillForm, Own, FormValues
    <2> QED BY <1>4, <1>a, <2>1, <2>3, <2>4 DEF T!Edit, TemplatesOK, SubjectOf
  <1>5. ASSUME NEW t \in Ids, T!Delete(t) PROVE TemplatesOK'
    <2> DEFINE d == T!Call("delete", t, T!Empty)
    <2>1. d \in TplCall /\ d.op = "delete" /\ d.id = t /\ d.body = T!Empty
      BY <1>5, <1>a, TplCallIsTyped, BlankForm DEF T!Delete
    <2>2. out' = out \cup {d} /\ UNCHANGED <<tpls, listed, draft>>
      BY <1>5 DEF T!Delete, T!templateVars
    <2> HIDE DEF d
    <2> QED BY <1>a, <2>1, <2>2, BlankForm DEF TemplatesOK
  <1>6. ASSUME NEW f \in T!Fields, T!Enter(f) PROVE TemplatesOK'
    <2>1. T!Subject = SubjectOf(draft.id) /\ SubjectOf(draft.id) \in Ids \cup {T!Blank, "new"}
      BY <1>a DEF T!Subject, SubjectOf
    <2>2. draft'.id = draft.id /\ draft'.fields = [draft.fields EXCEPT ![f] = SubjectOf(draft.id)]
          /\ draft'.shown = draft.shown
      BY <1>6, <1>a, <2>1 DEF T!Enter
    <2>3. draft'.fields \in Own(SubjectOf(draft.id)) /\ draft'.fields \in FormValues
      BY <1>a, <2>1, <2>2 DEF Own, FormValues
    <2>4. draft' \in Drafts
      BY <1>6, <1>a, <2>3 DEF T!Enter
    <2> QED BY <1>6, <1>a, <2>2, <2>3, <2>4 DEF T!Enter, TemplatesOK
  <1>7. ASSUME NEW c \in out, T!Listed(c) PROVE TemplatesOK'
    BY <1>7, <1>a, BlankForm DEF T!Listed, TemplatesOK
  <1>8. ASSUME NEW c \in out, T!Written(c) PROVE TemplatesOK'
    <2> DEFINE d == [c EXCEPT !.op = IF c.op = "delete" THEN "list" ELSE "relist", !.body = T!Empty]
    <2>1. d \in TplCall /\ d.body = T!Empty
      BY <1>a, BlankForm DEF TplCall
    <2>2. Store(tpls')
      <3>0. c.body \in Own(IF c.op = "create" THEN "new" ELSE c.id) /\ T!Done(c)
            /\ c.op \in {"create", "update", "delete"}
        BY <1>8, <1>a DEF T!Written
      <3>1. CASE c.op = "update"
        BY <3>0, <3>1, <1>a DEF T!Done, Store
      <3>2. CASE c.op = "create"
        <4>1. PICK t \in Ids \ DOMAIN tpls :
                tpls' = [s \in DOMAIN tpls \cup {t} |-> IF s = t THEN T!Named(c.body, t) ELSE tpls[s]]
          BY <3>0, <3>2 DEF T!Done
        <4>2. T!Named(c.body, t) \in Own(t)
          BY <3>0, <3>2 DEF T!Named, Own
        <4> QED BY <4>1, <4>2, <1>a DEF Store
      <3>3. CASE c.op = "delete"
        BY <3>0, <3>3, <1>a DEF T!Done, Store
      <3> QED BY <3>0, <3>1, <3>2, <3>3
    <2>3. out' = (out \ {c}) \cup {d} /\ draft' = T!Hidden /\ listed' = listed
      BY <1>8 DEF T!Written, T!resetForm
    <2> HIDE DEF d
    <2> QED BY <1>a, <2>1, <2>2, <2>3, BlankForm DEF TemplatesOK
  <1>9. ASSUME NEW c \in out, T!Relisted(c) PROVE TemplatesOK'
    BY <1>9, <1>a, BlankForm DEF T!Relisted, TemplatesOK
  <1>10. ASSUME NEW c \in out, T!WriteFailed(c) PROVE TemplatesOK'
    BY <1>10, <1>a DEF T!WriteFailed, TemplatesOK
  <1> QED
    BY <1>1, <1>2, <1>3, <1>4, <1>5, <1>6, <1>7, <1>8, <1>9, <1>10 DEF T!TemplatesNext

----------------------------------------------------------------------------
(* Trees.  Induction over the natural numbers, up to a bound, and over the   *)
(* places of a tree; what At and Paths are, one step from a place they know. *)

(* Induction over the natural numbers, for a set.                            *)
LEMMA NaturalsIn ==
    ASSUME NEW A, 0 \in A, \A n \in Nat : n \in A => n + 1 \in A
    PROVE  Nat \subseteq A
  <1> SUFFICES ASSUME Nat \ A # {} PROVE FALSE
    OBVIOUS
  <1> DEFINE R == OpToRel(<, Nat)
  <1>1. R = {ss \in Nat \X Nat : ss[1] < ss[2]}
    BY DEF OpToRel
  <1> HIDE DEF R
  <1>2. PICK x \in Nat \ A : \A y \in Nat \ A : <<y, x>> \notin R
    <2>1. IsWellFoundedOn(R, Nat)
      BY NatLessThanWellFounded DEF R
    <2>2. Nat \ A \subseteq Nat
      OBVIOUS
    <2> QED BY <2>1, <2>2, WFMin
  <1>3. x # 0 /\ x - 1 \in Nat /\ x - 1 < x
    BY <1>2
  <1>4. x - 1 \notin A
    BY <1>2, <1>3
  <1>5. <<x - 1, x>> \in R
    BY <1>1, <1>3
  <1> QED BY <1>2, <1>3, <1>4, <1>5

(* Up to a bound.                                                            *)
LEMMA UpTo ==
    ASSUME NEW A, NEW top \in Nat, 0 \in A, \A n \in 0..(top - 1) : n \in A => n + 1 \in A
    PROVE  0..top \subseteq A
  <1> DEFINE B == {n \in Nat : n \in A \/ n > top}
  <1>1. 0 \in B
    OBVIOUS
  <1>2. \A n \in Nat : n \in B => n + 1 \in B
    OBVIOUS
  <1>3. Nat \subseteq B
    <2> HIDE DEF B
    <2> QED BY <1>1, <1>2, NaturalsIn
  <1> QED BY <1>3

(* The elements on the way from the root of n along p.                       *)
Walk(n, p, w) == w = [k \in 0..Len(p) |-> IF k = 0 THEN n ELSE w[k - 1].kids[p[k]]]

(* There is always one.                                                      *)
LEMMA WalkExists ==
    ASSUME NEW n, NEW p, Len(p) \in Nat
    PROVE  \E w : Walk(n, p, w)
  <1> DEFINE To(k, w) == w = [j \in 0..k |-> IF j = 0 THEN n ELSE w[j - 1].kids[p[j]]]
             A == {k \in Nat : \E w : To(k, w)}
  <1>1. 0 \in A
    <2>1. PICK w : w = [j \in 0..0 |-> n]
      OBVIOUS
    <2>2. w = [j \in 0..0 |-> IF j = 0 THEN n ELSE w[j - 1].kids[p[j]]]
      BY <2>1
    <2> QED BY <2>2
  <1>2. ASSUME NEW k \in Nat, k \in A PROVE k + 1 \in A
    <2>1. PICK w : To(k, w)
      BY <1>2
    <2>2. PICK v : v = [j \in 0..(k + 1) |-> IF j <= k THEN w[j] ELSE w[k].kids[p[k + 1]]]
      OBVIOUS
    <2>3. ASSUME NEW j \in 0..(k + 1) PROVE v[j] = IF j = 0 THEN n ELSE v[j - 1].kids[p[j]]
      <3>1. CASE j = 0
        BY <2>1, <2>2, <3>1
      <3>2. CASE j # 0 /\ j <= k
        <4>1. j \in 0..k /\ j - 1 \in 0..k /\ j - 1 \in 0..(k + 1) /\ j - 1 <= k
          BY <3>2
        <4>2. w[j] = w[j - 1].kids[p[j]] /\ v[j] = w[j] /\ v[j - 1] = w[j - 1]
          BY <2>1, <2>2, <3>2, <4>1
        <4> QED BY <3>2, <4>2
      <3>3. CASE j = k + 1
        <4>1. j - 1 = k /\ k \in 0..(k + 1) /\ j # 0 /\ ~(j <= k) /\ k <= k
          BY <3>3
        <4>2. v[k] = w[k] /\ v[j] = w[k].kids[p[k + 1]]
          BY <2>2, <3>3, <4>1
        <4> QED BY <3>3, <4>1, <4>2
      <3> QED BY <3>1, <3>2, <3>3
    <2>4. To(k + 1, v)
      BY <2>2, <2>3
    <2>5. k + 1 \in Nat
      OBVIOUS
    <2> QED BY <2>4, <2>5
  <1>3. Nat \subseteq A
    <2> HIDE DEF A
    <2> QED BY <1>1, <1>2, NaturalsIn
  <1>4. \E w : To(Len(p), w)
    BY <1>3
  <1> QED BY <1>4 DEF Walk

(* It leads to the element at p.                                             *)
LEMMA WalkEnds ==
    ASSUME NEW n, NEW p, Len(p) \in Nat, NEW w, Walk(n, p, w)
    PROVE  At(n, p) = w[Len(p)]
  <1>1. PICK v : v = CHOOSE x : Walk(n, p, x)
    OBVIOUS
  <1>2. Walk(n, p, v)
    BY <1>1
  <1>3. At(n, p) = v[Len(p)]
    BY <1>1 DEF At, Walk
  <1> DEFINE A == {k \in 0..Len(p) : v[k] = w[k]}
  <1>4. 0 \in A
    BY <1>2 DEF Walk
  <1>5. ASSUME NEW k \in 0..(Len(p) - 1), k \in A PROVE k + 1 \in A
    <2>1. k + 1 \in 0..Len(p) /\ k + 1 # 0 /\ (k + 1) - 1 = k
      OBVIOUS
    <2>2. v[k + 1] = v[k].kids[p[k + 1]] /\ w[k + 1] = w[k].kids[p[k + 1]]
      BY <1>2, <2>1 DEF Walk
    <2> QED BY <1>5, <2>1, <2>2
  <1>6. 0..Len(p) \subseteq A
    <2> HIDE DEF A
    <2> QED BY <1>4, <1>5, UpTo
  <1>7. Len(p) \in 0..Len(p)
    OBVIOUS
  <1> QED BY <1>3, <1>6, <1>7

(* The root, and the children of an element.                                 *)
LEMMA AtRoot == ASSUME NEW n PROVE At(n, <<>>) = n
  <1>1. Len(<<>>) = 0 /\ Len(<<>>) \in Nat
    OBVIOUS
  <1>2. PICK w : Walk(n, <<>>, w)
    BY <1>1, WalkExists
  <1>3. w[0] = n
    BY <1>1, <1>2 DEF Walk
  <1> QED BY <1>1, <1>2, <1>3, WalkEnds

(* The child i of the element at p.                                          *)
LEMMA AtChild ==
    ASSUME NEW n, NEW p \in Seq(Nat), NEW i \in Nat
    PROVE  At(n, Append(p, i)) = At(n, p).kids[i]
  <1> PICK q : q = Append(p, i)
    OBVIOUS
  <1>1. /\ Len(p) \in Nat /\ Len(q) \in Nat /\ Len(q) = Len(p) + 1 /\ q[Len(p) + 1] = i
        /\ \A k \in 1..Len(p) : q[k] = p[k]
    OBVIOUS
  <1>2. PICK w : Walk(n, q, w)
    BY <1>1, WalkExists
  <1>3. PICK v : v = [k \in 0..Len(p) |-> w[k]]
    OBVIOUS
  <1>4. Walk(n, p, v)
    <2>1. ASSUME NEW k \in 0..Len(p) PROVE v[k] = IF k = 0 THEN n ELSE v[k - 1].kids[p[k]]
      <3>1. k \in 0..Len(q) /\ (k # 0 => k - 1 \in 0..Len(p) /\ q[k] = p[k])
        BY <1>1
      <3>2. w[k] = IF k = 0 THEN n ELSE w[k - 1].kids[q[k]]
        BY <1>2, <3>1 DEF Walk
      <3> QED BY <1>3, <3>1, <3>2
    <2> QED BY <1>3, <2>1 DEF Walk
  <1>5. At(n, p) = w[Len(p)]
    <2>1. At(n, p) = v[Len(p)] /\ Len(p) \in 0..Len(p)
      BY <1>1, <1>4, WalkEnds
    <2> QED BY <1>3, <2>1
  <1>6. At(n, q) = w[Len(p) + 1]
    BY <1>1, <1>2, WalkEnds
  <1>7. w[Len(p) + 1] = w[Len(p)].kids[i]
    <2>1. PICK h : h = Len(p) + 1
      OBVIOUS
    <2>2. h \in 0..Len(q) /\ h # 0 /\ h - 1 = Len(p) /\ q[h] = i
      BY <1>1, <2>1
    <2>3. w[h] = w[h - 1].kids[q[h]]
      BY <1>2, <2>2 DEF Walk
    <2> QED BY <2>1, <2>2, <2>3
  <1> QED BY <1>5, <1>6, <1>7

(* What lies at q within the child i of the root.                            *)
LEMMA AtWithin ==
    ASSUME NEW n, NEW p \in Seq(Nat), NEW i \in Nat
    PROVE  At(n, <<i>> \o p) = At(n.kids[i], p)
  <1> PICK q : q = <<i>> \o p
    OBVIOUS
  <1>1. /\ Len(p) \in Nat /\ Len(q) \in Nat /\ Len(q) = Len(p) + 1 /\ q[1] = i
        /\ \A k \in 2..(Len(p) + 1) : q[k] = p[k - 1]
    OBVIOUS
  <1>2. PICK w : Walk(n.kids[i], p, w)
    BY <1>1, WalkExists
  <1>3. PICK v : v = [k \in 0..Len(q) |-> IF k = 0 THEN n ELSE w[k - 1]]
    OBVIOUS
  <1>4. Walk(n, q, v)
    <2>1. ASSUME NEW k \in 0..Len(q) PROVE v[k] = IF k = 0 THEN n ELSE v[k - 1].kids[q[k]]
      <3>1. CASE k = 0
        BY <1>3, <3>1
      <3>2. CASE k = 1
        <4>1. k - 1 = 0 /\ 0 \in 0..Len(p) /\ 0 \in 0..Len(q) /\ k # 0
          BY <1>1, <3>2
        <4>2. v[k] = w[0] /\ v[0] = n /\ w[0] = n.kids[i]
          BY <1>2, <1>3, <3>2, <4>1 DEF Walk
        <4> QED BY <1>1, <3>2, <4>1, <4>2
      <3>3. CASE k # 0 /\ k # 1
        <4>1. /\ k - 1 \in 0..Len(p) /\ k - 1 # 0 /\ (k - 1) - 1 = k - 2 /\ k - 1 \in 0..Len(q)
              /\ k \in 2..(Len(p) + 1)
          BY <1>1, <3>3
        <4>2. v[k] = w[k - 1] /\ v[k - 1] = w[k - 2] /\ w[k - 1] = w[k - 2].kids[p[k - 1]]
          BY <1>2, <1>3, <3>3, <4>1 DEF Walk
        <4> QED BY <1>1, <3>3, <4>1, <4>2
      <3> QED BY <3>1, <3>2, <3>3
    <2> QED BY <1>3, <2>1 DEF Walk
  <1>5. At(n, q) = v[Len(q)] /\ At(n.kids[i], p) = w[Len(p)]
    BY <1>1, <1>2, <1>4, WalkEnds
  <1>6. v[Len(q)] = w[Len(p)]
    BY <1>1, <1>3
  <1> QED BY <1>5, <1>6

(* The paths of a tree.                                                      *)
PathsOf(n) == {p \in Seq(Nat) : IsPath(n, p)}

(* The root is a place.                                                      *)
LEMMA PathRoot == ASSUME NEW n PROVE <<>> \in PathsOf(n)
  <1>1. <<>> \in Seq(Nat) /\ DOMAIN <<>> = {}
    OBVIOUS
  <1> QED BY <1>1 DEF PathsOf, IsPath

(* The places beneath a place are its children.                              *)
LEMMA PathChild ==
    ASSUME NEW n, NEW p \in Seq(Nat), NEW i \in Nat
    PROVE  Append(p, i) \in PathsOf(n) <=> p \in PathsOf(n) /\ i \in DOMAIN At(n, p).kids
  <1> PICK q : q = Append(p, i)
    OBVIOUS
  <1>1. /\ q \in Seq(Nat) /\ Len(p) \in Nat /\ DOMAIN q = 1..(Len(p) + 1) /\ q[Len(p) + 1] = i
        /\ DOMAIN p = 1..Len(p) /\ \A k \in 1..Len(p) : q[k] = p[k]
    OBVIOUS
  <1>2. ASSUME NEW k \in 1..Len(p) PROVE SubSeq(q, 1, k - 1) = SubSeq(p, 1, k - 1)
    <2>1. \A j \in 1..(k - 1) : q[j] = p[j]
      BY <1>1
    <2> QED BY <1>1, <2>1
  <1>3. SubSeq(q, 1, Len(p)) = p
    BY <1>1
  <1>4. \A k \in 1..(Len(p) + 1) : k \in 1..Len(p) \/ k = Len(p) + 1
    BY <1>1
  <1>5. (Len(p) + 1) - 1 = Len(p) /\ Len(p) + 1 \in 1..(Len(p) + 1) /\ 1..Len(p) \subseteq 1..(Len(p) + 1)
    BY <1>1
  <1>6. IsPath(n, q) <=> IsPath(n, p) /\ i \in DOMAIN At(n, p).kids
    <2>1. ASSUME IsPath(n, q) PROVE IsPath(n, p) /\ i \in DOMAIN At(n, p).kids
      <3>1. i \in DOMAIN At(n, p).kids
        BY <1>1, <1>3, <1>5, <2>1 DEF IsPath
      <3>2. ASSUME NEW k \in 1..Len(p) PROVE p[k] \in DOMAIN At(n, SubSeq(p, 1, k - 1)).kids
        BY <1>1, <1>2, <1>5, <2>1 DEF IsPath
      <3> QED BY <1>1, <3>1, <3>2 DEF IsPath
    <2>2. ASSUME IsPath(n, p), i \in DOMAIN At(n, p).kids PROVE IsPath(n, q)
      <3>1. ASSUME NEW k \in 1..(Len(p) + 1) PROVE q[k] \in DOMAIN At(n, SubSeq(q, 1, k - 1)).kids
        <4>1. CASE k \in 1..Len(p)
          BY <1>1, <1>2, <2>2, <4>1 DEF IsPath
        <4>2. CASE k = Len(p) + 1
          BY <1>1, <1>3, <1>5, <2>2, <4>2
        <4> QED BY <1>4, <4>1, <4>2
      <3> QED BY <1>1, <3>1 DEF IsPath
    <2> QED BY <2>1, <2>2
  <1> QED BY <1>1, <1>6 DEF PathsOf

(* The places within the child i of the root are those of that child.        *)
LEMMA PathWithin ==
    ASSUME NEW n, NEW p \in Seq(Nat), NEW i \in Nat
    PROVE  <<i>> \o p \in PathsOf(n) <=> i \in DOMAIN n.kids /\ p \in PathsOf(n.kids[i])
  <1> PICK q : q = <<i>> \o p
    OBVIOUS
  <1>1. /\ q \in Seq(Nat) /\ Len(p) \in Nat /\ DOMAIN q = 1..(Len(p) + 1) /\ q[1] = i
        /\ DOMAIN p = 1..Len(p) /\ \A k \in 1..Len(p) : q[k + 1] = p[k]
    OBVIOUS
  <1>2. ASSUME NEW k \in 1..Len(p)
        PROVE  At(n, SubSeq(q, 1, k)) = At(n.kids[i], SubSeq(p, 1, k - 1))
    <2>1. SubSeq(q, 1, k) = <<i>> \o SubSeq(p, 1, k - 1) /\ SubSeq(p, 1, k - 1) \in Seq(Nat)
      OBVIOUS
    <2> QED BY <2>1, AtWithin
  <1>3. SubSeq(q, 1, 0) = <<>>
    BY <1>1
  <1>4. At(n, SubSeq(q, 1, 0)) = n
    BY <1>3, AtRoot
  <1>6. IsPath(n, q) <=> i \in DOMAIN n.kids /\ IsPath(n.kids[i], p)
    <2>1. ASSUME IsPath(n, q) PROVE i \in DOMAIN n.kids /\ IsPath(n.kids[i], p)
      <3>1. i \in DOMAIN n.kids
        <4>1. 1 \in DOMAIN q /\ 1 - 1 = 0
          BY <1>1
        <4> QED BY <1>1, <1>4, <2>1, <4>1 DEF IsPath
      <3>2. ASSUME NEW k \in 1..Len(p) PROVE p[k] \in DOMAIN At(n.kids[i], SubSeq(p, 1, k - 1)).kids
        <4>1. k + 1 \in DOMAIN q /\ (k + 1) - 1 = k
          BY <1>1
        <4>2. q[k + 1] \in DOMAIN At(n, SubSeq(q, 1, k)).kids
          BY <2>1, <4>1 DEF IsPath
        <4> QED BY <1>1, <1>2, <4>2
      <3> QED BY <1>1, <3>1, <3>2 DEF IsPath
    <2>2. ASSUME i \in DOMAIN n.kids, IsPath(n.kids[i], p) PROVE IsPath(n, q)
      <3>1. ASSUME NEW k \in 1..(Len(p) + 1) PROVE q[k] \in DOMAIN At(n, SubSeq(q, 1, k - 1)).kids
        <4>1. CASE k = 1
          <5>1. k - 1 = 0
            BY <4>1
          <5> QED BY <1>1, <1>4, <2>2, <4>1, <5>1
        <4>2. CASE k # 1
          <5>1. PICK j \in 1..Len(p) : k = j + 1 /\ k - 1 = j
            <6>1. k - 1 \in 1..Len(p) /\ k = (k - 1) + 1
              BY <1>1, <4>2
            <6> QED BY <6>1
          <5>2. p[j] \in DOMAIN At(n.kids[i], SubSeq(p, 1, j - 1)).kids
            BY <1>1, <2>2 DEF IsPath
          <5> QED BY <1>1, <1>2, <5>1, <5>2
        <4> QED BY <4>1, <4>2
      <3> QED BY <1>1, <3>1 DEF IsPath
    <2> QED BY <2>1, <2>2
  <1> QED BY <1>1, <1>6 DEF PathsOf

(* Along the paths.                                                          *)
LEMMA AtRest ==
    ASSUME NEW n, NEW p \in PathsOf(n), NEW i \in Nat, i \in DOMAIN At(n, p).kids
    PROVE  Append(p, i) \in PathsOf(n) /\ At(n, Append(p, i)) = At(n, p).kids[i]
  <1>1. p \in Seq(Nat)
    BY DEF PathsOf
  <1> QED BY <1>1, PathChild, AtChild

(* The parent of a place is a place.                                         *)
LEMMA PathParent ==
    ASSUME NEW n, NEW p \in PathsOf(n), p # <<>>
    PROVE  \E q \in PathsOf(n), i \in Nat : p = Append(q, i) /\ i \in DOMAIN At(n, q).kids
  <1>1. p \in Seq(Nat) /\ Len(p) \in Nat
    BY DEF PathsOf
  <1>2. Len(p) # 0
    BY <1>1
  <1>3. PICK q : q = SubSeq(p, 1, Len(p) - 1)
    OBVIOUS
  <1>4. PICK i : i = p[Len(p)]
    OBVIOUS
  <1>5. q \in Seq(Nat) /\ i \in Nat /\ p = Append(q, i)
    BY <1>1, <1>2, <1>3, <1>4
  <1>6. q \in PathsOf(n) /\ i \in DOMAIN At(n, q).kids
    BY <1>5, PathChild
  <1> QED BY <1>5, <1>6

(* A tree no deeper than N.                                                  *)
Deep(n, N) == \A p \in PathsOf(n) : Len(p) <= N /\ DOMAIN At(n, p).kids \subseteq Nat

(* Induction over the places of a tree, from the leaves up.                  *)
LEMMA Subtrees ==
    ASSUME NEW n, NEW N \in Nat, Deep(n, N), NEW A,
           \A p \in PathsOf(n) :
               (\A i \in DOMAIN At(n, p).kids : Append(p, i) \in A) => p \in A
    PROVE  PathsOf(n) \subseteq A
  <1> DEFINE B == {k \in Nat : \A p \in PathsOf(n) : Len(p) + k > N => p \in A}
  <1>0. \A p \in PathsOf(n) : p \in Seq(Nat) /\ Len(p) \in Nat /\ Len(p) <= N
    BY DEF PathsOf, Deep
  <1>1. 0 \in B
    BY <1>0
  <1>2. ASSUME NEW k \in Nat, k \in B PROVE k + 1 \in B
    <2>1. ASSUME NEW p \in PathsOf(n), Len(p) + (k + 1) > N PROVE p \in A
      <3>1. ASSUME NEW i \in DOMAIN At(n, p).kids PROVE Append(p, i) \in A
        <4>1. i \in Nat
          BY DEF Deep
        <4>2. Append(p, i) \in PathsOf(n)
          BY <4>1, AtRest
        <4>3. Len(Append(p, i)) = Len(p) + 1
          BY <1>0, <4>1
        <4>4. Len(Append(p, i)) + k > N
          BY <1>0, <2>1, <4>3
        <4> QED BY <1>2, <4>2, <4>4
      <3> QED BY <3>1
    <2> QED BY <2>1
  <1>3. Nat \subseteq B
    <2> HIDE DEF B
    <2> QED BY <1>1, <1>2, NaturalsIn
  <1>4. N + 1 \in B
    <2>1. N + 1 \in Nat
      OBVIOUS
    <2> QED BY <1>3, <2>1
  <1>5. ASSUME NEW p \in PathsOf(n) PROVE p \in A
    <2>1. Len(p) + (N + 1) > N
      BY <1>0
    <2> QED BY <1>4, <2>1
  <1> QED BY <1>5

(* The elements of a tree: of a condition, or of the editor.                 *)
IsKids(s) == s \in Seq({s[i] : i \in DOMAIN s})
IsElement(m) ==
    /\ m.kind \in {"row", "group"}
    /\ m.kind = "row" => m.kids = <<>> /\ m.type # "OR"
    /\ m = [kind |-> m.kind, attr |-> m.attr, op |-> m.op, val |-> m.val,
            widget |-> m.widget, type |-> m.type, kids |-> m.kids]
IsPart(m) == m.kind \in {"attr", "ref", "and", "or"} /\ m.neg \in BOOLEAN

(* A part of a condition as the editor writes it: no block of nothing, none of a *)
(* single comparison.                                                        *)
IsWritten(m) ==
    \/ m.kind = "attr" /\ m = Attr(m.attr, m.op, m.val, FALSE)
    \/ /\ IsBlock(m) /\ m = Block(m.kind, m.kids, FALSE) /\ m.kids # <<>>
       /\ ~(Len(m.kids) = 1 /\ m.kids[1].kind = "attr")

(* One it has widgets for (Supported).                                       *)
IsShowable(d) ==
    /\ ~d.neg
    /\ IF IsBlock(d) THEN d.kids # <<>>
       ELSE /\ d.kind = "attr"
            /\ d.attr \in Editable
            /\ d.op \in ListedOps
            /\ d.attr = "Group" => d.val = "listed"

IsNode(sort, m) ==
    /\ IsKids(m.kids)
    /\ IF sort = "element" THEN IsElement(m)
       ELSE /\ IsPart(m)
            /\ sort = "written" => IsWritten(m)
            /\ sort = "showable" => IsShowable(m)

(* A tree of them, whatever its depth.                                       *)
IsTree(sort, n) ==
    /\ \E N \in Nat : Deep(n, N)
    /\ \A p \in PathsOf(n) : IsNode(sort, At(n, p))

(* Children are a sequence.                                                  *)
LEMMA KidsAre ==
    ASSUME NEW s, IsKids(s)
    PROVE  Len(s) \in Nat /\ DOMAIN s = 1..Len(s) /\ s \in Seq({s[i] : i \in DOMAIN s})
  BY DEF IsKids

(* Every sequence of them is one.                                            *)
LEMMA AreKids ==
    ASSUME NEW Z, NEW s \in Seq(Z)
    PROVE  IsKids(s)
  <1>1. PICK k \in Nat : s \in [1..k -> Z]
    OBVIOUS
  <1>2. s \in [1..k -> {s[i] : i \in DOMAIN s}]
    BY <1>1
  <1>3. s \in Seq({s[i] : i \in DOMAIN s})
    <2>1. PICK Y : Y = {s[i] : i \in DOMAIN s}
      OBVIOUS
    <2>2. s \in [1..k -> Y]
      BY <1>2, <2>1
    <2>3. s \in Seq(Y)
      BY <2>2
    <2> QED BY <2>1, <2>3
  <1> QED BY <1>3 DEF IsKids

(* The children of a tree are trees.                                         *)
LEMMA TreeKids ==
    ASSUME NEW sort, NEW n, IsTree(sort, n)
    PROVE  /\ IsNode(sort, n)
           /\ \A i \in DOMAIN n.kids : i \in Nat /\ IsTree(sort, n.kids[i])
  <1>0. PICK N \in Nat : Deep(n, N)
    BY DEF IsTree
  <1>1. <<>> \in PathsOf(n) /\ At(n, <<>>) = n
    BY PathRoot, AtRoot
  <1>2. IsNode(sort, n)
    BY <1>1 DEF IsTree
  <1>3. ASSUME NEW i \in DOMAIN n.kids PROVE i \in Nat /\ IsTree(sort, n.kids[i])
    <2>1. i \in Nat
      BY <1>0, <1>1 DEF Deep
    <2>2. ASSUME NEW p \in PathsOf(n.kids[i])
          PROVE  /\ Len(p) <= N /\ DOMAIN At(n.kids[i], p).kids \subseteq Nat
                 /\ IsNode(sort, At(n.kids[i], p))
      <3>1. p \in Seq(Nat) /\ Len(p) \in Nat
        BY DEF PathsOf
      <3>2. PICK q : q = <<i>> \o p
        OBVIOUS
      <3>3. q \in PathsOf(n) /\ At(n, q) = At(n.kids[i], p)
        BY <2>1, <3>1, <3>2, PathWithin, AtWithin
      <3>4. Len(q) = Len(p) + 1
        BY <2>1, <3>1, <3>2
      <3>5. Len(q) <= N /\ DOMAIN At(n, q).kids \subseteq Nat
        BY <1>0, <3>3 DEF Deep
      <3>6. IsNode(sort, At(n, q))
        BY <3>3 DEF IsTree
      <3>7. Len(p) <= N
        BY <3>1, <3>4, <3>5
      <3> QED BY <3>3, <3>5, <3>6, <3>7
    <2>3. Deep(n.kids[i], N)
      BY <2>2 DEF Deep
    <2> QED BY <2>1, <2>2, <2>3 DEF IsTree
  <1> QED BY <1>2, <1>3

(* An element whose children are trees is one.                               *)
LEMMA TreeOf ==
    ASSUME NEW sort, NEW n, IsNode(sort, n), \A i \in DOMAIN n.kids : IsTree(sort, n.kids[i])
    PROVE  IsTree(sort, n)
  <1>1. Len(n.kids) \in Nat /\ DOMAIN n.kids = 1..Len(n.kids)
    BY KidsAre DEF IsNode
  <1>2. PICK N \in Nat : \A i \in DOMAIN n.kids : Deep(n.kids[i], N)
    <2> DEFINE A == {k \in 0..Len(n.kids) : \E N \in Nat : \A i \in 1..k : Deep(n.kids[i], N)}
    <2>1. 0 \in A
      BY <1>1
    <2>2. ASSUME NEW k \in 0..(Len(n.kids) - 1), k \in A PROVE k + 1 \in A
      <3>1. PICK M \in Nat : \A i \in 1..k : Deep(n.kids[i], M)
        BY <2>2
      <3>2. k + 1 \in DOMAIN n.kids /\ k + 1 \in 0..Len(n.kids)
        BY <1>1
      <3>3. PICK L \in Nat : Deep(n.kids[k + 1], L)
        BY <3>2 DEF IsTree
      <3>4. ASSUME NEW i \in 1..(k + 1) PROVE Deep(n.kids[i], M + L)
        <4>1. ASSUME NEW p \in PathsOf(n.kids[i]) PROVE Len(p) <= M + L
          <5>1. Len(p) \in Nat
            BY DEF PathsOf
          <5>2. CASE i \in 1..k
            <6>1. Len(p) <= M
              BY <3>1, <5>2 DEF Deep
            <6> QED BY <5>1, <6>1
          <5>3. CASE i = k + 1
            <6>1. Len(p) <= L
              BY <3>3, <5>3 DEF Deep
            <6> QED BY <5>1, <6>1
          <5> QED BY <5>2, <5>3
        <4>2. ASSUME NEW p \in PathsOf(n.kids[i])
              PROVE  DOMAIN At(n.kids[i], p).kids \subseteq Nat
          <5>2. CASE i \in 1..k
            BY <3>1, <5>2 DEF Deep
          <5>3. CASE i = k + 1
            BY <3>3, <5>3 DEF Deep
          <5> QED BY <5>2, <5>3
        <4> QED BY <4>1, <4>2 DEF Deep
      <3>5. M + L \in Nat
        OBVIOUS
      <3> QED BY <3>2, <3>4, <3>5
    <2>3. 0..Len(n.kids) \subseteq A
      <3> HIDE DEF A
      <3> QED BY <1>1, <2>1, <2>2, UpTo
    <2>4. Len(n.kids) \in A
      <3>1. Len(n.kids) \in 0..Len(n.kids)
        BY <1>1
      <3> QED BY <2>3, <3>1
    <2> QED BY <1>1, <2>4
  <1>3. ASSUME NEW q \in PathsOf(n)
        PROVE  /\ Len(q) <= N + 1 /\ DOMAIN At(n, q).kids \subseteq Nat
               /\ IsNode(sort, At(n, q))
    <2>1. q \in Seq(Nat) /\ Len(q) \in Nat
      BY DEF PathsOf
    <2>2. CASE q = <<>>
      <3>1. At(n, q) = n /\ Len(q) = 0
        BY <2>2, AtRoot
      <3> QED BY <1>1, <3>1
    <2>3. CASE q # <<>>
      <3>0. Len(q) # 0
        BY <2>1, <2>3
      <3>1. PICK i : i = q[1]
        OBVIOUS
      <3>2. PICK p : p = SubSeq(q, 2, Len(q))
        OBVIOUS
      <3>3. i \in Nat /\ p \in Seq(Nat) /\ q = <<i>> \o p /\ Len(q) = Len(p) + 1 /\ Len(p) \in Nat
        BY <2>1, <3>0, <3>1, <3>2
      <3>4. i \in DOMAIN n.kids /\ p \in PathsOf(n.kids[i]) /\ At(n, q) = At(n.kids[i], p)
        BY <3>3, PathWithin, AtWithin
      <3>5. Len(p) <= N /\ DOMAIN At(n.kids[i], p).kids \subseteq Nat
        BY <1>2, <3>4 DEF Deep
      <3>6. IsNode(sort, At(n.kids[i], p))
        BY <3>4 DEF IsTree
      <3>7. Len(q) <= N + 1
        BY <3>3, <3>5
      <3> QED BY <3>4, <3>5, <3>6, <3>7
    <2> QED BY <2>2, <2>3
  <1>4. Deep(n, N + 1) /\ N + 1 \in Nat
    BY <1>3 DEF Deep
  <1> QED BY <1>3, <1>4 DEF IsTree

(* And so is every element of it.                                            *)
LEMMA TreeAt ==
    ASSUME NEW sort, NEW n, IsTree(sort, n)
    PROVE  \A p \in PathsOf(n) : IsTree(sort, At(n, p))
  <1>0. PICK N \in Nat : Deep(n, N)
    BY DEF IsTree
  <1> DEFINE A == {p \in PathsOf(n) : IsTree(sort, At(n, p))}
  <1>1. ASSUME NEW p \in PathsOf(n), \A i \in DOMAIN At(n, p).kids : Append(p, i) \in A
        PROVE  p \in A
    <2>1. ASSUME NEW i \in DOMAIN At(n, p).kids PROVE IsTree(sort, At(n, p).kids[i])
      <3>1. i \in Nat
        BY <1>0 DEF Deep
      <3>2. At(n, Append(p, i)) = At(n, p).kids[i]
        BY <3>1, AtRest
      <3>3. IsTree(sort, At(n, Append(p, i)))
        BY <1>1
      <3> QED BY <3>2, <3>3
    <2>2. IsNode(sort, At(n, p))
      BY DEF IsTree
    <2>3. IsTree(sort, At(n, p))
      BY <2>1, <2>2, TreeOf
    <2> QED BY <2>3
  <1>2. PathsOf(n) \subseteq A
    <2> HIDE DEF A
    <2> QED BY <1>0, <1>1, Subtrees
  <1> QED BY <1>2

----------------------------------------------------------------------------
(* What a tree comes to: FromLeaves, and with it Holds, GroupOf, ReadGroup, ... *)

(* The operators that come from the leaves up, by name: what an element comes to *)
(* when its children come to v. x is the operator's other argument.          *)
What(op, x, m, v) ==
    CASE op = "paths" -> {<<>>} \cup UNION {{<<i>> \o p : p \in v[i]} : i \in DOMAIN v}
      [] op = "holds" -> (CASE m.kind = "and" -> \A i \in DOMAIN v : v[i]
                            [] m.kind = "or" -> \E i \in DOMAIN v : v[i]
                            [] OTHER -> Comparison(m) \in x) # m.neg
      [] op = "group" ->
            GroupWith(IF m.kind = "or" THEN "OR" ELSE "AND",
                  [i \in DOMAIN GroupKids(m) |->
                      IF IsBlock(GroupKids(m)[i]) THEN v[i] ELSE RowOf(GroupKids(m)[i], x)])
      [] op = "read" -> IF m.kind = "row" THEN <<ReadRow(m)>> ELSE ReadKids(m.type, FlattenSeq(v))
      [] op = "shown" ->
            LET full == {i \in DOMAIN m.kids : Rows(m.kids[i]) # {}}
            IN CASE m.kind = "row" -> ShownComparison(m) \in x
                 [] m.type = "OR" -> \E i \in full : v[i]
                 [] OTHER -> \A i \in full : v[i]
      [] OTHER ->
            [m EXCEPT !.kids =
                FlattenSeq([i \in DOMAIN v |-> IF v[i] = Gap THEN <<>> ELSE <<v[i]>>])]

Come(n, op, x, f) ==
    f = [p \in PathsOf(n) |->
            What(op, x, At(n, p), [i \in DOMAIN At(n, p).kids |-> f[Append(p, i)]])]
Value(n, op, x) == (CHOOSE f : Come(n, op, x, f))[<<>>]

(* What a tree comes to exists at every place.                               *)
LEMMA ComeExists ==
    ASSUME NEW n, NEW N \in Nat, Deep(n, N), NEW op, NEW x
    PROVE  \E f : Come(n, op, x, f)
  <1> DEFINE Low(k) == {p \in PathsOf(n) : Len(p) + k > N}
             To(k, f) == f = [p \in Low(k) |->
                 What(op, x, At(n, p), [i \in DOMAIN At(n, p).kids |-> f[Append(p, i)]])]
             A == {k \in Nat : \E f : To(k, f)}
  <1>0. \A p \in PathsOf(n) : p \in Seq(Nat) /\ Len(p) \in Nat /\ Len(p) <= N
    BY DEF PathsOf, Deep
  <1>1. 0 \in A
    <2>1. Low(0) = {}
      BY <1>0
    <2>2. PICK f : f = [p \in {} |-> p]
      OBVIOUS
    <2>3. To(0, f)
      BY <2>1, <2>2
    <2> QED BY <2>3
  <1>2. ASSUME NEW k \in Nat, k \in A PROVE k + 1 \in A
    <2>1. PICK f : To(k, f)
      BY <1>2
    <2>2. PICK g : g = [p \in Low(k + 1) |->
                What(op, x, At(n, p), [i \in DOMAIN At(n, p).kids |-> f[Append(p, i)]])]
      OBVIOUS
    <2>3. Low(k) \subseteq Low(k + 1)
      <3>1. ASSUME NEW p \in PathsOf(n), Len(p) + k > N PROVE Len(p) + (k + 1) > N
        BY <1>0, <3>1
      <3> QED BY <3>1
    <2>4. ASSUME NEW p \in Low(k) PROVE g[p] = f[p]
      <3>1. p \in Low(k + 1)
        BY <2>3
      <3>2. f[p] = What(op, x, At(n, p), [i \in DOMAIN At(n, p).kids |-> f[Append(p, i)]])
        BY <2>1
      <3> HIDE DEF Low
      <3> QED BY <2>2, <3>1, <3>2
    <2>5. ASSUME NEW p \in Low(k + 1)
          PROVE g[p] = What(op, x, At(n, p), [i \in DOMAIN At(n, p).kids |-> g[Append(p, i)]])
      <3>1. ASSUME NEW i \in DOMAIN At(n, p).kids PROVE g[Append(p, i)] = f[Append(p, i)]
        <4>1. i \in Nat
          BY DEF Deep
        <4>2. Append(p, i) \in PathsOf(n)
          BY <4>1, AtRest
        <4>3. Len(Append(p, i)) = Len(p) + 1
          BY <1>0, <4>1
        <4>4. Len(Append(p, i)) + k > N
          BY <1>0, <4>3
        <4>5. Append(p, i) \in Low(k)
          BY <4>2, <4>4
        <4> HIDE DEF Low
        <4> QED BY <2>4, <4>5
      <3>2. [i \in DOMAIN At(n, p).kids |-> g[Append(p, i)]]
              = [i \in DOMAIN At(n, p).kids |-> f[Append(p, i)]]
        BY <3>1
      <3>3. g[p] = What(op, x, At(n, p), [i \in DOMAIN At(n, p).kids |-> f[Append(p, i)]])
        <4> HIDE DEF Low
        <4> QED BY <2>2
      <3> QED BY <3>2, <3>3
    <2>6. To(k + 1, g)
      <3> HIDE DEF Low
      <3> QED BY <2>2, <2>5
    <2>7. k + 1 \in Nat
      OBVIOUS
    <2> HIDE DEF To
    <2> QED BY <2>6, <2>7
  <1>3. Nat \subseteq A
    <2> HIDE DEF A
    <2> QED BY <1>1, <1>2, NaturalsIn
  <1>4. N + 1 \in Nat
    OBVIOUS
  <1>5. PICK f : To(N + 1, f)
    <2> HIDE DEF To
    <2> QED BY <1>3, <1>4
  <1>6. Low(N + 1) = PathsOf(n)
    <2>1. ASSUME NEW p \in PathsOf(n) PROVE Len(p) + (N + 1) > N
      BY <1>0
    <2> QED BY <2>1
  <1>7. Come(n, op, x, f)
    <2> HIDE DEF Low
    <2> QED BY <1>5, <1>6 DEF Come
  <1> QED BY <1>7

(* What comes of a child, in its own tree and in its parent's.               *)
LEMMA ComeWithin ==
    ASSUME NEW n, NEW N \in Nat, NEW op, NEW x, NEW i \in DOMAIN n.kids, i \in Nat,
           Deep(n.kids[i], N), NEW f, Come(n, op, x, f), NEW g, Come(n.kids[i], op, x, g)
    PROVE  \A q \in PathsOf(n.kids[i]) : f[<<i>> \o q] = g[q]
  <1> DEFINE A == {q \in PathsOf(n.kids[i]) : f[<<i>> \o q] = g[q]}
  <1>1. ASSUME NEW q \in PathsOf(n.kids[i]),
               \A j \in DOMAIN At(n.kids[i], q).kids : Append(q, j) \in A
        PROVE  q \in A
    <2>1. q \in Seq(Nat)
      BY DEF PathsOf
    <2>2. PICK p : p = <<i>> \o q
      OBVIOUS
    <2>3. p \in PathsOf(n) /\ At(n, p) = At(n.kids[i], q)
      BY <2>1, <2>2, PathWithin, AtWithin
    <2>4. ASSUME NEW j \in DOMAIN At(n, p).kids PROVE f[Append(p, j)] = g[Append(q, j)]
      <3>1. j \in Nat
        BY <2>3 DEF Deep
      <3>2. Append(p, j) = <<i>> \o Append(q, j)
        BY <2>1, <2>2, <3>1
      <3>3. Append(q, j) \in A
        BY <1>1, <2>3
      <3> QED BY <3>2, <3>3
    <2>5. [j \in DOMAIN At(n, p).kids |-> f[Append(p, j)]]
            = [j \in DOMAIN At(n, p).kids |-> g[Append(q, j)]]
      BY <2>4
    <2>6. f[p] = What(op, x, At(n, p), [j \in DOMAIN At(n, p).kids |-> f[Append(p, j)]])
      BY <2>3 DEF Come
    <2>7. g[q] = What(op, x, At(n, p), [j \in DOMAIN At(n, p).kids |-> g[Append(q, j)]])
      BY <2>3 DEF Come
    <2> QED BY <2>2, <2>5, <2>6, <2>7
  <1>2. PathsOf(n.kids[i]) \subseteq A
    <2> HIDE DEF A
    <2> QED BY <1>1, Subtrees
  <1> QED BY <1>2

(* So an element comes to what its children do.                              *)
LEMMA ValueIs ==
    ASSUME NEW sort, NEW n, IsTree(sort, n), NEW op, NEW x
    PROVE  Value(n, op, x) = What(op, x, n, [i \in DOMAIN n.kids |-> Value(n.kids[i], op, x)])
  <1>1. PICK f : f = CHOOSE h : Come(n, op, x, h)
    OBVIOUS
  <1>2. Come(n, op, x, f)
    <2>1. PICK N \in Nat : Deep(n, N)
      BY DEF IsTree
    <2> QED BY <1>1, <2>1, ComeExists
  <1>3. <<>> \in PathsOf(n) /\ At(n, <<>>) = n
    BY PathRoot, AtRoot
  <1>4. f[<<>>] = What(op, x, n, [i \in DOMAIN n.kids |-> f[Append(<<>>, i)]])
    BY <1>2, <1>3 DEF Come
  <1>5. ASSUME NEW i \in DOMAIN n.kids PROVE f[Append(<<>>, i)] = Value(n.kids[i], op, x)
    <2>1. i \in Nat /\ IsTree(sort, n.kids[i])
      BY TreeKids
    <2>2. PICK N \in Nat : Deep(n.kids[i], N)
      BY <2>1 DEF IsTree
    <2>3. PICK g : g = CHOOSE h : Come(n.kids[i], op, x, h)
      OBVIOUS
    <2>4. Come(n.kids[i], op, x, g)
      BY <2>2, <2>3, ComeExists
    <2>5. <<>> \in PathsOf(n.kids[i])
      BY PathRoot
    <2>6. \A q \in PathsOf(n.kids[i]) : f[<<i>> \o q] = g[q]
      BY <1>2, <2>1, <2>2, <2>4, ComeWithin, SMTT(40)
    <2>7. <<i>> \o <<>> = Append(<<>>, i)
      BY <2>1
    <2> QED BY <2>3, <2>5, <2>6, <2>7 DEF Value
  <1>6. [i \in DOMAIN n.kids |-> f[Append(<<>>, i)]]
          = [i \in DOMAIN n.kids |-> Value(n.kids[i], op, x)]
    BY <1>5
  <1>7. Value(n, op, x) = f[<<>>]
    BY <1>1 DEF Value
  <1> QED BY <1>4, <1>6, <1>7

(* The operators by their names.                                             *)
LEMMA PathsIs == ASSUME NEW n PROVE Paths(n) = Value(n, "paths", {})
  BY DEF Paths, FromLeaves, Value, Come, What, PathsOf

(* Whether a condition holds is what it comes to,                            *)
LEMMA HoldsIs == ASSUME NEW n, NEW x PROVE Holds(n, x) = Value(n, "holds", x)
  BY DEF Holds, FromLeaves, Value, Come, What, PathsOf

(* the group it is opened as,                                                *)
LEMMA GroupIs == ASSUME NEW n, NEW x PROVE GroupOf(n, x) = Value(n, "group", x)
  BY DEF GroupOf, FromLeaves, Value, Come, What, PathsOf

(* what a group reads as,                                                    *)
LEMMA ReadIs == ASSUME NEW n PROVE ReadGroup(n) = Value(n, "read", {})
  BY DEF ReadGroup, FromLeaves, Value, Come, What, PathsOf

(* whether what it shows holds,                                              *)
LEMMA ShownIs == ASSUME NEW n, NEW x PROVE ShownHolds(n, x) = Value(n, "shown", x)
  BY DEF ShownHolds, FromLeaves, Value, Come, What, PathsOf

(* and a tree without its gaps.                                              *)
LEMMA SweptIs == ASSUME NEW n PROVE Swept(n) = Value(n, "swept", {})
  BY DEF Swept, FromLeaves, Value, Come, What, PathsOf

(* What each operator comes to.                                              *)
LEMMA PathsAre == ASSUME NEW sort, NEW n, IsTree(sort, n) PROVE Paths(n) = PathsOf(n)
  <1>0. PICK N \in Nat : Deep(n, N)
    BY DEF IsTree
  <1> DEFINE A == {p \in PathsOf(n) : Paths(At(n, p)) = PathsOf(At(n, p))}
  <1>1. ASSUME NEW p \in PathsOf(n), \A i \in DOMAIN At(n, p).kids : Append(p, i) \in A
        PROVE  p \in A
    <2> PICK m : m = At(n, p)
      OBVIOUS
    <2>1. IsTree(sort, m)
      BY TreeAt
    <2>2. ASSUME NEW i \in DOMAIN m.kids
          PROVE  /\ i \in Nat
                 /\ Paths(m.kids[i]) = PathsOf(m.kids[i])
                 /\ Value(m.kids[i], "paths", {}) = PathsOf(m.kids[i])
      <3>1. i \in Nat
        BY <1>0 DEF Deep
      <3>2. At(n, Append(p, i)) = m.kids[i]
        BY <3>1, AtRest
      <3>3. Append(p, i) \in A
        BY <1>1
      <3>4. Paths(m.kids[i]) = PathsOf(m.kids[i])
        BY <3>2, <3>3
      <3> QED BY <3>1, <3>4, PathsIs
    <2>3. PICK v : v = [i \in DOMAIN m.kids |-> Value(m.kids[i], "paths", {})]
      OBVIOUS
    <2>4. Paths(m) = {<<>>} \cup UNION {{<<i>> \o q : q \in v[i]} : i \in DOMAIN v}
      <3>1. Value(m, "paths", {}) = What("paths", {}, m, v)
        BY <2>1, <2>3, ValueIs
      <3> QED BY <3>1, PathsIs DEF What
    <2>5. ASSUME NEW r \in Paths(m) PROVE r \in PathsOf(m)
      <3>1. CASE r = <<>>
        BY <3>1, PathRoot
      <3>2. CASE r # <<>>
        <4>1. PICK i \in DOMAIN v : r \in {<<i>> \o q : q \in v[i]}
          BY <2>4, <3>2
        <4>2. PICK q \in v[i] : r = <<i>> \o q
          BY <4>1
        <4>3. i \in Nat /\ i \in DOMAIN m.kids /\ q \in PathsOf(m.kids[i])
          BY <2>2, <2>3
        <4>4. q \in Seq(Nat)
          BY <4>3 DEF PathsOf
        <4> QED BY <4>2, <4>3, <4>4, PathWithin
      <3> QED BY <3>1, <3>2
    <2>6. ASSUME NEW r \in PathsOf(m) PROVE r \in Paths(m)
      <3>0. r \in Seq(Nat)
        BY DEF PathsOf
      <3>1. CASE r = <<>>
        BY <2>4, <3>1
      <3>2. CASE r # <<>>
        <4>1. PICK i : i = r[1]
          OBVIOUS
        <4>2. PICK q : q = SubSeq(r, 2, Len(r))
          OBVIOUS
        <4>3. i \in Nat /\ q \in Seq(Nat) /\ r = <<i>> \o q
          <5>1. Len(r) \in Nat /\ Len(r) # 0
            BY <3>0, <3>2
          <5> QED BY <3>0, <4>1, <4>2, <5>1
        <4>4. i \in DOMAIN m.kids /\ q \in PathsOf(m.kids[i])
          BY <4>3, PathWithin
        <4>5. i \in DOMAIN v /\ q \in v[i]
          BY <2>2, <2>3, <4>4
        <4> QED BY <2>4, <4>3, <4>5
      <3> QED BY <3>1, <3>2
    <2>7. Paths(m) = PathsOf(m)
      BY <2>5, <2>6
    <2> QED BY <2>7
  <1>2. PathsOf(n) \subseteq A
    <2> HIDE DEF A
    <2> QED BY <1>0, <1>1, Subtrees
  <1>3. <<>> \in PathsOf(n) /\ At(n, <<>>) = n
    BY PathRoot, AtRoot
  <1>4. <<>> \in A
    <2> HIDE DEF A
    <2> QED BY <1>2, <1>3
  <1> QED BY <1>3, <1>4

(* A condition holds by what its children do.                                *)
LEMMA HoldsOf ==
    ASSUME NEW sort, NEW c, IsTree(sort, c), NEW x
    PROVE  Holds(c, x) = ((CASE c.kind = "and" -> \A i \in DOMAIN c.kids : Holds(c.kids[i], x)
                              [] c.kind = "or" -> \E i \in DOMAIN c.kids : Holds(c.kids[i], x)
                              [] OTHER -> Comparison(c) \in x) # c.neg)
  <1>1. PICK v : v = [i \in DOMAIN c.kids |-> Value(c.kids[i], "holds", x)]
    OBVIOUS
  <1>2. \A i \in DOMAIN c.kids : v[i] = Holds(c.kids[i], x)
    BY <1>1, HoldsIs
  <1>3. DOMAIN v = DOMAIN c.kids
    BY <1>1
  <1>4. Holds(c, x) = What("holds", x, c, v)
    BY <1>1, ValueIs, HoldsIs
  <1> QED BY <1>2, <1>3, <1>4 DEF What

(* The group of a condition by those of its blocks.                          *)
LEMMA GroupIsOf ==
    ASSUME NEW sort, NEW c, IsTree(sort, c), NEW x
    PROVE  GroupOf(c, x) =
               GroupWith(IF c.kind = "or" THEN "OR" ELSE "AND",
                         [i \in DOMAIN GroupKids(c) |->
                             IF IsBlock(GroupKids(c)[i]) THEN GroupOf(GroupKids(c)[i], x)
                             ELSE RowOf(GroupKids(c)[i], x)])
  <1>1. PICK v : v = [i \in DOMAIN c.kids |-> Value(c.kids[i], "group", x)]
    OBVIOUS
  <1>2. \A i \in DOMAIN c.kids : v[i] = GroupOf(c.kids[i], x)
    BY <1>1, GroupIs
  <1>3. GroupOf(c, x) = What("group", x, c, v)
    BY <1>1, ValueIs, GroupIs
  <1>4. ASSUME NEW i \in DOMAIN GroupKids(c), IsBlock(GroupKids(c)[i])
        PROVE  v[i] = GroupOf(GroupKids(c)[i], x)
    <2>1. CASE GroupKids(c) = c.kids
      BY <1>2, <2>1
    <2>2. CASE GroupKids(c) # c.kids
      <3>1. ~(IsBlock(c) /\ c.kids # <<>>)
        <4>1. SUFFICES ASSUME IsBlock(c) /\ c.kids # <<>> PROVE GroupKids(c) = c.kids
          BY <2>2
        <4>2. c.kind # "attr"
          BY <4>1 DEF IsBlock
        <4> QED BY <4>1, <4>2 DEF GroupKids
      <3>2. (GroupKids(c) = <<c>> /\ ~IsBlock(c)) \/ GroupKids(c) = <<DefaultCondition>>
        <4>1. c.kind = "attr" => ~IsBlock(c)
          BY DEF IsBlock
        <4> QED BY <3>1, <4>1 DEF GroupKids
      <3>3. ~IsBlock(DefaultCondition)
        BY DEF IsBlock, DefaultCondition, Attr
      <3> QED BY <1>4, <3>2, <3>3
    <2> QED BY <2>1, <2>2
  <1>5. [i \in DOMAIN GroupKids(c) |->
             IF IsBlock(GroupKids(c)[i]) THEN v[i] ELSE RowOf(GroupKids(c)[i], x)]
          = [i \in DOMAIN GroupKids(c) |->
             IF IsBlock(GroupKids(c)[i]) THEN GroupOf(GroupKids(c)[i], x)
             ELSE RowOf(GroupKids(c)[i], x)]
    BY <1>4
  <1>6. What("group", x, c, v) =
            GroupWith(IF c.kind = "or" THEN "OR" ELSE "AND",
                [i \in DOMAIN GroupKids(c) |->
                    IF IsBlock(GroupKids(c)[i]) THEN v[i] ELSE RowOf(GroupKids(c)[i], x)])
    BY DEF What
  <1> QED BY <1>3, <1>5, <1>6

(* A row reads as a comparison, a group by what its children read as.        *)
LEMMA ReadOf ==
    ASSUME NEW sort, NEW n, IsTree(sort, n)
    PROVE  ReadGroup(n) = IF n.kind = "row" THEN <<ReadRow(n)>>
                          ELSE ReadKids(n.type, FlattenSeq([i \in DOMAIN n.kids |-> ReadGroup(n.kids[i])]))
  <1>1. PICK v : v = [i \in DOMAIN n.kids |-> Value(n.kids[i], "read", {})]
    OBVIOUS
  <1>2. v = [i \in DOMAIN n.kids |-> ReadGroup(n.kids[i])]
    BY <1>1, ReadIs
  <1>3. ReadGroup(n) = What("read", {}, n, v)
    BY <1>1, ValueIs, ReadIs
  <1> QED BY <1>2, <1>3 DEF What

(* What is shown holds by its rows and by the groups that have any.          *)
LEMMA ShownOf ==
    ASSUME NEW n, IsTree("element", n), NEW x
    PROVE  /\ n.kind = "row" => (ShownHolds(n, x) <=> ShownComparison(n) \in x)
           /\ (n.kind # "row" /\ n.type = "OR") =>
                  (ShownHolds(n, x)
                     <=> \E i \in DOMAIN n.kids : Rows(n.kids[i]) # {} /\ ShownHolds(n.kids[i], x))
           /\ (n.kind # "row" /\ n.type # "OR") =>
                  (ShownHolds(n, x)
                     <=> \A i \in DOMAIN n.kids : Rows(n.kids[i]) # {} => ShownHolds(n.kids[i], x))
  <1>1. PICK v : v = [i \in DOMAIN n.kids |-> Value(n.kids[i], "shown", x)]
    OBVIOUS
  <1>2. \A i \in DOMAIN n.kids : v[i] = ShownHolds(n.kids[i], x)
    BY <1>1, ShownIs
  <1>3. ShownHolds(n, x) = What("shown", x, n, v)
    BY <1>1, ValueIs, ShownIs
  <1>4. PICK full : full = {i \in DOMAIN n.kids : Rows(n.kids[i]) # {}}
    OBVIOUS
  <1>5. ShownHolds(n, x) = (CASE n.kind = "row" -> ShownComparison(n) \in x
                              [] n.type = "OR" -> \E i \in full : v[i]
                              [] OTHER -> \A i \in full : v[i])
    BY <1>3, <1>4 DEF What
  <1>6. ASSUME n.kind = "row" PROVE ShownHolds(n, x) <=> ShownComparison(n) \in x
    <2>1. n.type # "OR"
      BY <1>6, TreeKids DEF IsNode, IsElement
    <2> QED BY <1>5, <1>6, <2>1
  <1>7. ASSUME n.kind # "row", n.type = "OR" PROVE ShownHolds(n, x) <=> \E i \in full : v[i]
    BY <1>5, <1>7
  <1>8. ASSUME n.kind # "row", n.type # "OR" PROVE ShownHolds(n, x) <=> \A i \in full : v[i]
    BY <1>5, <1>8
  <1>9. (\E i \in full : v[i])
           <=> \E i \in DOMAIN n.kids : Rows(n.kids[i]) # {} /\ ShownHolds(n.kids[i], x)
    BY <1>2, <1>4
  <1>10. (\A i \in full : v[i])
           <=> \A i \in DOMAIN n.kids : Rows(n.kids[i]) # {} => ShownHolds(n.kids[i], x)
    BY <1>2, <1>4
  <1> QED BY <1>6, <1>7, <1>8, <1>9, <1>10

(* A tree is swept by sweeping its children.                                 *)
LEMMA SweptOf ==
    ASSUME NEW sort, NEW n, IsTree(sort, n)
    PROVE  Swept(n) = [n EXCEPT !.kids =
                          FlattenSeq([i \in DOMAIN n.kids |->
                              IF Swept(n.kids[i]) = Gap THEN <<>> ELSE <<Swept(n.kids[i])>>])]
  <1>1. PICK v : v = [i \in DOMAIN n.kids |-> Value(n.kids[i], "swept", {})]
    OBVIOUS
  <1>2. v = [i \in DOMAIN n.kids |-> Swept(n.kids[i])]
    BY <1>1, SweptIs
  <1>3. Swept(n) = What("swept", {}, n, v)
    BY <1>1, ValueIs, SweptIs
  <1>4. [i \in DOMAIN v |-> IF v[i] = Gap THEN <<>> ELSE <<v[i]>>]
          = [i \in DOMAIN n.kids |->
                IF Swept(n.kids[i]) = Gap THEN <<>> ELSE <<Swept(n.kids[i])>>]
    BY <1>2
  <1> QED BY <1>3, <1>4 DEF What

(* The rows of an element.                                                   *)
LEMMA RowsOf ==
    ASSUME NEW n, IsTree("element", n)
    PROVE  /\ n.kind = "row" => Rows(n) # {}
           /\ n.kind # "row" => (Rows(n) = {} <=> \A i \in DOMAIN n.kids : Rows(n.kids[i]) = {})
  <1>1. Rows(n) = {m \in {At(n, p) : p \in PathsOf(n)} : m.kind = "row"}
    BY PathsAre DEF Rows
  <1>2. \A i \in DOMAIN n.kids : i \in Nat /\ IsTree("element", n.kids[i])
    BY TreeKids
  <1>3. \A i \in DOMAIN n.kids :
            Rows(n.kids[i]) = {m \in {At(n.kids[i], p) : p \in PathsOf(n.kids[i])} : m.kind = "row"}
    BY <1>2, PathsAre DEF Rows
  <1>4. <<>> \in PathsOf(n) /\ At(n, <<>>) = n
    BY PathRoot, AtRoot
  <1>5. ASSUME n.kind = "row" PROVE Rows(n) # {}
    BY <1>1, <1>4, <1>5
  <1>6. ASSUME n.kind # "row", Rows(n) = {}, NEW i \in DOMAIN n.kids PROVE Rows(n.kids[i]) = {}
    <2>1. SUFFICES ASSUME NEW p \in PathsOf(n.kids[i]), At(n.kids[i], p).kind = "row" PROVE FALSE
      BY <1>3
    <2>2. p \in Seq(Nat) /\ i \in Nat
      BY <1>2 DEF PathsOf
    <2>3. <<i>> \o p \in PathsOf(n) /\ At(n, <<i>> \o p) = At(n.kids[i], p)
      BY <2>2, PathWithin, AtWithin
    <2> QED BY <1>1, <1>6, <2>1, <2>3
  <1>7. ASSUME n.kind # "row", \A i \in DOMAIN n.kids : Rows(n.kids[i]) = {} PROVE Rows(n) = {}
    <2>1. SUFFICES ASSUME NEW q \in PathsOf(n), At(n, q).kind = "row" PROVE FALSE
      BY <1>1
    <2>2. q \in Seq(Nat) /\ q # <<>>
      BY <1>4, <1>7, <2>1 DEF PathsOf
    <2>3. PICK i : i = q[1]
      OBVIOUS
    <2>4. PICK p : p = SubSeq(q, 2, Len(q))
      OBVIOUS
    <2>5. i \in Nat /\ p \in Seq(Nat) /\ q = <<i>> \o p
      <3>1. Len(q) \in Nat /\ Len(q) # 0
        BY <2>2
      <3> QED BY <2>2, <2>3, <2>4, <3>1
    <2>6. i \in DOMAIN n.kids /\ p \in PathsOf(n.kids[i]) /\ At(n, q) = At(n.kids[i], p)
      BY <2>5, PathWithin, AtWithin
    <2> QED BY <1>3, <1>7, <2>1, <2>6
  <1> QED BY <1>5, <1>6, <1>7

----------------------------------------------------------------------------
(* FlattenSeq, of sequences of at most one.                                  *)

(* One list after the other.                                                 *)
Joined(s, f) == f = [i \in 1..Len(s) |-> IF i = 1 THEN s[i] ELSE f[i - 1] \o s[i]]

(* There is always one.                                                      *)
LEMMA JoinedExists ==
    ASSUME NEW s, Len(s) \in Nat
    PROVE  \E f : Joined(s, f)
  <1> PICK top : top = Len(s)
    OBVIOUS
  <1> DEFINE To(k, f) == f = [i \in 1..k |-> IF i = 1 THEN s[i] ELSE f[i - 1] \o s[i]]
             A == {k \in Nat : \E f : To(k, f)}
  <1>1. 0 \in A
    <2>1. PICK f : f = [i \in 1..0 |-> s[i]]
      OBVIOUS
    <2>2. f = [i \in 1..0 |-> IF i = 1 THEN s[i] ELSE f[i - 1] \o s[i]]
      BY <2>1
    <2> QED BY <2>2
  <1>2. ASSUME NEW k \in Nat, k \in A PROVE k + 1 \in A
    <2>1. PICK f : To(k, f)
      BY <1>2
    <2>2. PICK g : g = [i \in 1..(k + 1) |-> IF i <= k THEN f[i]
                                              ELSE IF i = 1 THEN s[i] ELSE f[i - 1] \o s[i]]
      OBVIOUS
    <2>3. ASSUME NEW i \in 1..(k + 1) PROVE g[i] = IF i = 1 THEN s[i] ELSE g[i - 1] \o s[i]
      <3>1. CASE i = 1
        <4>1. CASE i <= k
          <5>1. i \in 1..k
            BY <4>1
          <5>2. f[i] = s[i]
            BY <2>1, <3>1, <5>1
          <5> QED BY <2>2, <3>1, <4>1, <5>2
        <4>2. CASE ~(i <= k)
          BY <2>2, <3>1, <4>2
        <4> QED BY <4>1, <4>2
      <3>2. CASE i # 1
        <4>1. i - 1 \in 1..k /\ i - 1 <= k /\ i - 1 \in 1..(k + 1)
          BY <3>2
        <4>2. g[i - 1] = f[i - 1]
          BY <2>2, <4>1
        <4>3. CASE i <= k
          <5>1. i \in 1..k
            BY <4>3
          <5>2. f[i] = f[i - 1] \o s[i]
            BY <2>1, <3>2, <5>1
          <5> QED BY <2>2, <3>2, <4>2, <4>3, <5>2
        <4>4. CASE ~(i <= k)
          BY <2>2, <3>2, <4>2, <4>4
        <4> QED BY <4>3, <4>4
      <3> QED BY <3>1, <3>2
    <2>4. To(k + 1, g)
      BY <2>2, <2>3
    <2>5. k + 1 \in Nat
      OBVIOUS
    <2> HIDE DEF To
    <2> QED BY <2>4, <2>5
  <1>3. Nat \subseteq A
    <2> HIDE DEF A
    <2> QED BY <1>1, <1>2, NaturalsIn
  <1>4. \E f : To(top, f)
    <2> HIDE DEF To
    <2> QED BY <1>3
  <1> QED BY <1>4 DEF Joined

(* FlattenSeq is its last.                                                   *)
LEMMA FlattenIs ==
    ASSUME NEW s, Len(s) \in Nat \ {0}
    PROVE  \E f : Joined(s, f) /\ FlattenSeq(s) = f[Len(s)]
  <1>1. PICK f : f = CHOOSE g : Joined(s, g)
    OBVIOUS
  <1>2. Joined(s, f)
    <2>1. Len(s) \in Nat
      OBVIOUS
    <2> QED BY <1>1, <2>1, JoinedExists
  <1>3. FlattenSeq(s) = f[Len(s)]
    BY <1>1 DEF FlattenSeq, Joined
  <1> QED BY <1>2, <1>3

(* Of nothing, nothing.                                                      *)
LEMMA NoneFlat == ASSUME NEW s, Len(s) = 0, s = <<>> PROVE FlattenSeq(s) = <<>>
  BY DEF FlattenSeq

(* Of sequences of at most one: what they have, in their order.              *)
LEMMA Flattened ==
    ASSUME NEW Z, NEW s \in Seq(Seq(Z))
    PROVE  /\ FlattenSeq(s) \in Seq(Z)
           /\ \A z : z \in ToSet(FlattenSeq(s)) <=> \E i \in DOMAIN s : z \in ToSet(s[i])
  <1> PICK top : top = Len(s)
    OBVIOUS
  <1>0. top \in Nat /\ DOMAIN s = 1..top /\ \A i \in 1..top : s[i] \in Seq(Z)
    OBVIOUS
  <1>1. CASE top = 0
    <2>1. s = <<>> /\ Len(s) = 0
      BY <1>1, EmptySeq
    <2>2. FlattenSeq(s) = <<>>
      BY <2>1, NoneFlat
    <2>3. <<>> \in Seq(Z) /\ ToSet(<<>>) = {}
      BY DEF ToSet
    <2>4. DOMAIN s = {}
      BY <1>0, <1>1
    <2> QED BY <2>2, <2>3, <2>4
  <1>2. CASE top # 0
    <2>1. PICK f : Joined(s, f) /\ FlattenSeq(s) = f[top]
      BY <1>0, <1>2, FlattenIs
    <2> DEFINE A == {n \in 0..top : n # 0 =>
                       /\ f[n] \in Seq(Z)
                       /\ \A z : z \in ToSet(f[n]) <=> \E i \in 1..n : z \in ToSet(s[i])}
    <2>2. 0 \in A
      BY <1>0
    <2>3. ASSUME NEW n \in 0..(top - 1), n \in A PROVE n + 1 \in A
      <3>1. n + 1 \in 1..top /\ n + 1 \in 0..top /\ (n + 1) - 1 = n
        BY <1>0
      <3>2. CASE n = 0
        <4>1. f[n + 1] = s[n + 1]
          BY <2>1, <3>1, <3>2 DEF Joined
        <4>2. 1..(n + 1) = {n + 1}
          BY <3>2
        <4>3. f[n + 1] \in Seq(Z)
          BY <1>0, <3>1, <4>1
        <4>4. \A z : z \in ToSet(f[n + 1]) <=> \E i \in 1..(n + 1) : z \in ToSet(s[i])
          BY <3>1, <4>1, <4>2
        <4> QED BY <3>1, <4>3, <4>4
      <3>3. CASE n # 0
        <4>1. f[n + 1] = f[n] \o s[n + 1]
          <5>1. n + 1 # 1
            BY <3>3
          <5> QED BY <2>1, <3>1, <5>1 DEF Joined
        <4>2. f[n] \in Seq(Z) /\ s[n + 1] \in Seq(Z)
                /\ \A z : z \in ToSet(f[n]) <=> \E i \in 1..n : z \in ToSet(s[i])
          BY <1>0, <2>3, <3>1, <3>3
        <4>3. f[n + 1] \in Seq(Z)
          BY <4>1, <4>2, ConcatProperties
        <4>4. ToSet(f[n + 1]) = ToSet(f[n]) \union ToSet(s[n + 1])
          <5>1. Range(f[n] \o s[n + 1]) = Range(f[n]) \union Range(s[n + 1])
            BY <4>2, RangeConcatenation
          <5> QED BY <4>1, <5>1 DEF Range, ToSet
        <4>5. \A i : i \in 1..(n + 1) <=> (i \in 1..n \/ i = n + 1)
          BY <3>1
        <4>6. \A z : z \in ToSet(f[n + 1]) <=> \E i \in 1..(n + 1) : z \in ToSet(s[i])
          BY <4>2, <4>4, <4>5
        <4> QED BY <3>1, <4>3, <4>6
      <3> QED BY <3>2, <3>3
    <2>4. 0..top \subseteq A
      <3> HIDE DEF A
      <3> QED BY <1>0, <2>2, <2>3, UpTo
    <2>5. top \in A
      <3>1. top \in 0..top
        BY <1>0
      <3> HIDE DEF A
      <3> QED BY <2>4, <3>1
    <2> QED BY <1>0, <1>2, <2>1, <2>5
  <1> QED BY <1>1, <1>2

(* Lists of one element each: the list of them.                              *)
LEMMA FlattenOnes ==
    ASSUME NEW Z, NEW t \in Seq(Z), NEW s, s = [i \in 1..Len(t) |-> <<t[i]>>]
    PROVE  FlattenSeq(s) = t
  <1> PICK top : top = Len(t)
    OBVIOUS
  <1>0. top \in Nat /\ DOMAIN t = 1..top /\ Len(s) = top /\ \A i \in 1..top : t[i] \in Z
    OBVIOUS
  <1>1. CASE top = 0
    <2>1. s = <<>> /\ Len(s) = 0 /\ t = <<>>
      BY <1>0, <1>1, EmptySeq
    <2> QED BY <2>1, NoneFlat
  <1>2. CASE top # 0
    <2>1. PICK f : Joined(s, f) /\ FlattenSeq(s) = f[top]
      BY <1>0, <1>2, FlattenIs
    <2> DEFINE A == {n \in 0..top : n # 0 => f[n] = SubSeq(t, 1, n)}
    <2>2. 0 \in A
      BY <1>0
    <2>3. ASSUME NEW n \in 0..(top - 1), n \in A PROVE n + 1 \in A
      <3>1. n + 1 \in 1..top /\ n + 1 \in 0..top /\ (n + 1) - 1 = n
        BY <1>0
      <3>2. CASE n = 0
        <4>1. f[n + 1] = s[n + 1]
          BY <1>0, <2>1, <3>1, <3>2 DEF Joined
        <4>2. SubSeq(t, 1, 1) = <<t[1]>>
          <5>1. 1 <= top /\ 1 \in 1..top
            BY <1>0, <3>1
          <5>2. PICK u : u = SubSeq(t, 1, 1)
            OBVIOUS
          <5>3. u \in Seq(Z) /\ Len(u) = 1 /\ u[1] = t[1]
            BY <1>0, <5>1, <5>2
          <5>4. PICK w : w = <<t[1]>>
            OBVIOUS
          <5>5. w \in Seq(Z) /\ Len(w) = 1 /\ w[1] = t[1]
            BY <1>0, <5>1, <5>4
          <5>6. u = w
            <6>1. \A i \in 1..Len(u) : u[i] = w[i]
              BY <5>3, <5>5
            <6> QED BY <5>3, <5>5, <6>1, SeqEqual
          <5> QED BY <5>2, <5>4, <5>6
        <4> QED BY <3>1, <3>2, <4>1, <4>2
      <3>3. CASE n # 0
        <4>1. f[n + 1] = f[n] \o s[n + 1]
          <5>1. n + 1 # 1
            BY <3>3
          <5> QED BY <1>0, <2>1, <3>1, <5>1 DEF Joined
        <4>2. f[n] = SubSeq(t, 1, n) /\ s[n + 1] = <<t[n + 1]>>
          BY <1>0, <2>3, <3>1, <3>3
        <4>3. SubSeq(t, 1, n) \o <<t[n + 1]>> = SubSeq(t, 1, n + 1)
          BY <1>0, <3>1
        <4> QED BY <3>1, <4>1, <4>2, <4>3
      <3> QED BY <3>2, <3>3
    <2>4. 0..top \subseteq A
      <3> HIDE DEF A
      <3> QED BY <1>0, <2>2, <2>3, UpTo
    <2>5. f[top] = SubSeq(t, 1, top)
      <3>1. top \in 0..top
        BY <1>0
      <3>2. top \in A
        <4> HIDE DEF A
        <4> QED BY <2>4, <3>1
      <3> QED BY <1>2, <3>2
    <2>6. SubSeq(t, 1, top) = t
      BY <1>0
    <2> QED BY <2>1, <2>5, <2>6
  <1> QED BY <1>1, <1>2

----------------------------------------------------------------------------
(* Reading.  What the editor writes, from the leaves up.                     *)

(* No children are children.                                                 *)
LEMMA NoKids == IsKids(<<>>)
  <1>1. <<>> \in Seq({})
    OBVIOUS
  <1> QED BY <1>1, AreKids

(* What a part means that is not negated.                                    *)
LEMMA HoldsPlain ==
    ASSUME NEW sort, sort # "element", NEW c, IsTree(sort, c), ~c.neg, NEW x
    PROVE  /\ c.kind = "and" => (Holds(c, x) <=> \A i \in DOMAIN c.kids : Holds(c.kids[i], x))
           /\ c.kind = "or" => (Holds(c, x) <=> \E i \in DOMAIN c.kids : Holds(c.kids[i], x))
           /\ c.kind \notin {"and", "or"} => (Holds(c, x) <=> Comparison(c) \in x)
           /\ Holds(c, x) \in BOOLEAN
  <1>0. c.neg \in BOOLEAN
    BY TreeKids DEF IsNode, IsPart
  <1>1. PICK b \in BOOLEAN : b = c.neg /\ ~b
    BY <1>0
  <1>2. ASSUME c.kind = "and" PROVE Holds(c, x) <=> \A i \in DOMAIN c.kids : Holds(c.kids[i], x)
    <2>1. Holds(c, x) = ((\A i \in DOMAIN c.kids : Holds(c.kids[i], x)) # b)
      BY <1>1, <1>2, HoldsOf
    <2> QED BY <1>1, <2>1
  <1>3. ASSUME c.kind = "or" PROVE Holds(c, x) <=> \E i \in DOMAIN c.kids : Holds(c.kids[i], x)
    <2>1. Holds(c, x) = ((\E i \in DOMAIN c.kids : Holds(c.kids[i], x)) # b)
      BY <1>1, <1>3, HoldsOf
    <2> QED BY <1>1, <2>1
  <1>4. ASSUME c.kind \notin {"and", "or"} PROVE Holds(c, x) <=> Comparison(c) \in x
    <2>1. Holds(c, x) = ((Comparison(c) \in x) # b)
      BY <1>1, <1>4, HoldsOf
    <2>2. ((Comparison(c) \in x) # b) = (Comparison(c) \in x)
      BY <1>1
    <2>3. Holds(c, x) = (Comparison(c) \in x)
      BY <2>1, <2>2
    <2> QED BY <2>3
  <1>5. Holds(c, x) \in BOOLEAN
    BY HoldsOf
  <1> QED BY <1>2, <1>3, <1>4, <1>5

(* What the editor writes is not negated.                                    *)
LEMMA WrittenPlain ==
    ASSUME NEW c, IsTree("written", c)
    PROVE  ~c.neg
  <1>1. IsWritten(c)
    BY TreeKids DEF IsNode
  <1>2. CASE c = Attr(c.attr, c.op, c.val, FALSE)
    <2>1. Attr(c.attr, c.op, c.val, FALSE).neg = FALSE
      BY DEF Attr
    <2> QED BY <1>2, <2>1
  <1>3. CASE c = Block(c.kind, c.kids, FALSE)
    <2>1. Block(c.kind, c.kids, FALSE).neg = FALSE
      BY DEF Block
    <2> QED BY <1>3, <2>1
  <1> QED BY <1>1, <1>2, <1>3 DEF IsWritten

(* A comparison it writes.                                                   *)
LEMMA WrittenAttr ==
    ASSUME NEW a, NEW o, NEW v
    PROVE  /\ IsTree("written", Attr(a, o, v, FALSE))
           /\ \A x : Holds(Attr(a, o, v, FALSE), x) <=> <<a, o, v>> \in x
  <1> PICK c : c = Attr(a, o, v, FALSE)
    OBVIOUS
  <1>1. /\ c.kind = "attr" /\ c.attr = a /\ c.op = o /\ c.val = v /\ c.neg = FALSE
        /\ c.kids = <<>>
    BY DEF Attr
  <1>2. IsNode("written", c)
    BY <1>1, NoKids DEF IsNode, IsPart, IsWritten
  <1>3. IsTree("written", c)
    <2>1. DOMAIN <<>> = {}
      OBVIOUS
    <2>2. \A i \in DOMAIN c.kids : IsTree("written", c.kids[i])
      BY <1>1, <2>1
    <2> QED BY <1>2, <2>2, TreeOf
  <1>4. ~c.neg
    BY <1>3, WrittenPlain
  <1>5. ASSUME NEW x PROVE Holds(c, x) <=> <<a, o, v>> \in x
    <2>1. Holds(c, x) <=> Comparison(c) \in x
      BY <1>1, <1>3, <1>4, HoldsPlain
    <2>2. Comparison(c) = <<a, o, v>>
      BY <1>1 DEF Comparison
    <2> QED BY <2>1, <2>2
  <1> QED BY <1>3, <1>5

(* A block it writes.                                                        *)
LEMMA WrittenBlock ==
    ASSUME NEW k \in {"and", "or"}, NEW s, IsKids(s), s # <<>>,
           ~(Len(s) = 1 /\ s[1].kind = "attr"),
           \A i \in DOMAIN s : IsTree("written", s[i])
    PROVE  /\ IsTree("written", Block(k, s, FALSE))
           /\ \A x : Holds(Block(k, s, FALSE), x)
                       <=> IF k = "and" THEN \A i \in DOMAIN s : Holds(s[i], x)
                           ELSE \E i \in DOMAIN s : Holds(s[i], x)
  <1> PICK c : c = Block(k, s, FALSE)
    OBVIOUS
  <1>1. c.kind = k /\ c.neg = FALSE /\ c.kids = s
    BY DEF Block
  <1>2. IsNode("written", c)
    BY <1>1 DEF IsNode, IsPart, IsWritten, IsBlock
  <1>3. IsTree("written", c)
    BY <1>1, <1>2, TreeOf
  <1>4. ~c.neg
    BY <1>3, WrittenPlain
  <1>5. ASSUME NEW x
        PROVE  Holds(c, x) <=> IF k = "and" THEN \A i \in DOMAIN s : Holds(s[i], x)
                               ELSE \E i \in DOMAIN s : Holds(s[i], x)
    <2>1. k = "and" => (Holds(c, x) <=> \A i \in DOMAIN s : Holds(s[i], x))
      <3>1. c.kind = "and" => (Holds(c, x) <=> \A i \in DOMAIN c.kids : Holds(c.kids[i], x))
        BY <1>3, <1>4, HoldsPlain
      <3> QED BY <1>1, <3>1
    <2>2. k = "or" => (Holds(c, x) <=> \E i \in DOMAIN s : Holds(s[i], x))
      <3>1. c.kind = "or" => (Holds(c, x) <=> \E i \in DOMAIN c.kids : Holds(c.kids[i], x))
        BY <1>3, <1>4, HoldsPlain
      <3> QED BY <1>1, <3>1
    <2> QED BY <2>1, <2>2
  <1> QED BY <1>3, <1>5

(* A group's children, read: a comparison alone stays itself.                *)
LEMMA KidsRead ==
    ASSUME NEW t, NEW s, IsKids(s), s # <<>>, \A i \in DOMAIN s : IsTree("written", s[i])
    PROVE  \E c : /\ ReadKids(t, s) = <<c>> /\ IsTree("written", c)
                  /\ \A x : Holds(c, x) <=> IF t = "OR" THEN \E i \in DOMAIN s : Holds(s[i], x)
                                          ELSE \A i \in DOMAIN s : Holds(s[i], x)
  <1>0. Len(s) \in Nat /\ DOMAIN s = 1..Len(s) /\ s \in Seq({s[i] : i \in DOMAIN s})
    BY KidsAre
  <1>1. CASE Len(s) = 1 /\ s[1].kind = "attr"
    <2>1. ReadKids(t, s) = s /\ s = <<s[1]>>
      BY <1>0, <1>1 DEF ReadKids
    <2>2. DOMAIN s = {1} /\ 1 \in DOMAIN s
      BY <1>0, <1>1
    <2>3. IsTree("written", s[1])
      BY <2>2
    <2>4. \A x : Holds(s[1], x) \in BOOLEAN
      BY <2>3, WrittenPlain, HoldsPlain
    <2>5. \A x : Holds(s[1], x) <=> IF t = "OR" THEN \E i \in DOMAIN s : Holds(s[i], x)
                                  ELSE \A i \in DOMAIN s : Holds(s[i], x)
      BY <2>2, <2>4
    <2> QED BY <2>1, <2>3, <2>5
  <1>2. CASE ~(Len(s) = 1 /\ s[1].kind = "attr")
    <2>1. PICK k : k = IF t = "OR" THEN "or" ELSE "and"
      OBVIOUS
    <2>2. PICK c : c = Block(k, s, FALSE)
      OBVIOUS
    <2>3. ReadKids(t, s) = <<c>>
      BY <1>2, <2>1, <2>2 DEF ReadKids
    <2>4. k \in {"and", "or"} /\ (k = "and" <=> t # "OR")
      BY <2>1
    <2>5. IsTree("written", c)
      BY <1>2, <2>2, <2>4, WrittenBlock
    <2>6. \A x : Holds(c, x) <=> IF k = "and" THEN \A i \in DOMAIN s : Holds(s[i], x)
                               ELSE \E i \in DOMAIN s : Holds(s[i], x)
      BY <1>2, <2>2, <2>4, WrittenBlock
    <2> QED BY <2>3, <2>4, <2>5, <2>6
  <1> QED BY <1>1, <1>2

(* What an element reads as: nothing when it holds no row, else one condition that *)
(* means what the element shows.                                             *)
ReadsAs(n, c) ==
    /\ ReadGroup(n) = <<c>>
    /\ IsTree("written", c)
    /\ \A x : Holds(c, x) <=> ShownHolds(n, x)
Reads(n) ==
    \/ Rows(n) = {} /\ ReadGroup(n) = <<>>
    \/ Rows(n) # {} /\ \E c : ReadsAs(n, c)

(* A row reads as its comparison.                                            *)
LEMMA RowReads ==
    ASSUME NEW n, IsTree("element", n), n.kind = "row"
    PROVE  Reads(n)
  <1>1. Rows(n) # {}
    BY RowsOf
  <1>2. ReadGroup(n) = <<ReadRow(n)>>
    BY ReadOf
  <1>3. PICK c : c = ReadRow(n)
    OBVIOUS
  <1>4. PICK v : v = NormalizeGroup(n.attr, n.val)
    OBVIOUS
  <1>5. c = Attr(n.attr, n.op, v, FALSE)
    BY <1>3, <1>4 DEF ReadRow
  <1>6. IsTree("written", c) /\ \A x : Holds(c, x) <=> <<n.attr, n.op, v>> \in x
    BY <1>5, WrittenAttr
  <1>7. ASSUME NEW x PROVE ShownHolds(n, x) <=> <<n.attr, n.op, v>> \in x
    <2>1. ShownHolds(n, x) <=> ShownComparison(n) \in x
      BY ShownOf
    <2>2. ShownComparison(n) = <<n.attr, n.op, v>>
      BY <1>4 DEF ShownComparison
    <2> QED BY <2>1, <2>2
  <1>8. ReadsAs(n, c)
    BY <1>2, <1>3, <1>6, <1>7 DEF ReadsAs
  <1> QED BY <1>1, <1>8 DEF Reads

(* What the children of a group read as, one after the other.                *)
LEMMA KidsFlat ==
    ASSUME NEW n, IsTree("element", n), \A i \in DOMAIN n.kids : Reads(n.kids[i])
    PROVE  \E s : /\ s = FlattenSeq([i \in DOMAIN n.kids |-> ReadGroup(n.kids[i])])
                  /\ IsKids(s)
                  /\ \A j \in DOMAIN s : \E i \in DOMAIN n.kids :
                         Rows(n.kids[i]) # {} /\ ReadsAs(n.kids[i], s[j])
                  /\ \A i \in DOMAIN n.kids : Rows(n.kids[i]) # {} =>
                         \E j \in DOMAIN s : ReadsAs(n.kids[i], s[j])
  <1> PICK v : v = [i \in DOMAIN n.kids |-> ReadGroup(n.kids[i])]
    OBVIOUS
  <1>1. IsKids(n.kids)
    BY TreeKids DEF IsNode
  <1>2. Len(n.kids) \in Nat /\ DOMAIN n.kids = 1..Len(n.kids)
    BY <1>1, KidsAre
  <1>3. PICK Z : Z = {ReadGroup(n.kids[i])[1] : i \in DOMAIN n.kids}
    OBVIOUS
  <1>4. ASSUME NEW i \in DOMAIN n.kids
        PROVE  v[i] \in Seq(Z)
    <2>0. v[i] = ReadGroup(n.kids[i])
      OBVIOUS
    <2>1. CASE ReadGroup(n.kids[i]) = <<>>
      <3>1. <<>> \in Seq(Z)
        BY EmptySeq
      <3> QED BY <2>0, <2>1, <3>1
    <2>2. CASE ReadGroup(n.kids[i]) # <<>>
      <3>1. PICK c : ReadsAs(n.kids[i], c)
        BY <2>2 DEF Reads
      <3>2. ReadGroup(n.kids[i]) = <<c>>
        BY <3>1 DEF ReadsAs
      <3>3. c \in Z
        <4>1. ReadGroup(n.kids[i])[1] = c
          BY <3>2
        <4> QED BY <1>3, <4>1
      <3>4. <<c>> \in Seq(Z)
        BY <3>3
      <3> QED BY <2>0, <3>2, <3>4
    <2> QED BY <2>1, <2>2
  <1>5. v \in Seq(Seq(Z))
    <2>1. v \in [1..Len(n.kids) -> Seq(Z)]
      BY <1>2, <1>4
    <2> QED BY <1>2, <2>1
  <1>6. PICK s : s = FlattenSeq(v)
    OBVIOUS
  <1>7. s \in Seq(Z) /\ \A z : z \in ToSet(s) <=> \E i \in DOMAIN v : z \in ToSet(v[i])
    BY <1>5, <1>6, Flattened
  <1>8. IsKids(s) /\ DOMAIN s = 1..Len(s)
    BY <1>7, AreKids
  <1>9. \A z : ToSet(<<z>>) = {z}
    BY DEF ToSet
  <1>10. ToSet(<<>>) = {}
    <2>1. DOMAIN <<>> = {}
      OBVIOUS
    <2> QED BY <2>1 DEF ToSet
  <1>11. ASSUME NEW j \in DOMAIN s
         PROVE  \E i \in DOMAIN n.kids : Rows(n.kids[i]) # {} /\ ReadsAs(n.kids[i], s[j])
    <2>1. s[j] \in ToSet(s)
      BY DEF ToSet
    <2>2. PICK i \in DOMAIN n.kids : s[j] \in ToSet(v[i])
      BY <1>7, <2>1
    <2>3. ReadGroup(n.kids[i]) # <<>>
      BY <1>10, <2>2
    <2>4. PICK c : Rows(n.kids[i]) # {} /\ ReadsAs(n.kids[i], c)
      BY <2>3 DEF Reads
    <2>5. s[j] = c
      BY <1>9, <2>2, <2>4 DEF ReadsAs
    <2> QED BY <2>4, <2>5
  <1>12. ASSUME NEW i \in DOMAIN n.kids, Rows(n.kids[i]) # {}
         PROVE  \E j \in DOMAIN s : ReadsAs(n.kids[i], s[j])
    <2>1. PICK c : ReadsAs(n.kids[i], c)
      BY <1>12 DEF Reads
    <2>2. v[i] = <<c>>
      BY <2>1 DEF ReadsAs
    <2>3. c \in ToSet(v[i])
      BY <1>9, <2>2
    <2>4. c \in ToSet(s)
      BY <1>7, <2>3
    <2>5. PICK j \in DOMAIN s : s[j] = c
      BY <2>4 DEF ToSet
    <2> QED BY <2>1, <2>5
  <1> QED BY <1>6, <1>8, <1>11, <1>12

(* A group reads as the block of what its children read as.                  *)
LEMMA GroupReads ==
    ASSUME NEW n, IsTree("element", n), n.kind # "row", \A i \in DOMAIN n.kids : Reads(n.kids[i])
    PROVE  Reads(n)
  <1>1. PICK s : /\ s = FlattenSeq([i \in DOMAIN n.kids |-> ReadGroup(n.kids[i])])
                 /\ IsKids(s)
                 /\ \A j \in DOMAIN s : \E i \in DOMAIN n.kids :
                        Rows(n.kids[i]) # {} /\ ReadsAs(n.kids[i], s[j])
                 /\ \A i \in DOMAIN n.kids : Rows(n.kids[i]) # {} =>
                        \E j \in DOMAIN s : ReadsAs(n.kids[i], s[j])
    BY KidsFlat
  <1>2. ReadGroup(n) = ReadKids(n.type, s)
    BY <1>1, ReadOf
  <1>3. Rows(n) = {} <=> \A i \in DOMAIN n.kids : Rows(n.kids[i]) = {}
    BY RowsOf
  <1>4. Len(s) \in Nat /\ DOMAIN s = 1..Len(s) /\ s \in Seq({s[i] : i \in DOMAIN s})
    BY <1>1, KidsAre
  <1>5. CASE s = <<>>
    <2>1. DOMAIN s = {}
      <3>1. DOMAIN <<>> = {}
        OBVIOUS
      <3> QED BY <1>5, <3>1
    <2>2. Rows(n) = {}
      BY <1>1, <1>3, <2>1
    <2>3. ReadKids(n.type, s) = <<>>
      BY <1>5 DEF ReadKids
    <2> QED BY <1>2, <2>2, <2>3 DEF Reads
  <1>6. CASE s # <<>>
    <2>1. 1 \in DOMAIN s
      <3>1. Len(s) # 0
        BY <1>4, <1>6, EmptySeq
      <3> QED BY <1>4, <3>1
    <2>2. Rows(n) # {}
      BY <1>1, <1>3, <2>1
    <2>3. \A j \in DOMAIN s : IsTree("written", s[j])
      BY <1>1 DEF ReadsAs
    <2>4. PICK c : /\ ReadKids(n.type, s) = <<c>> /\ IsTree("written", c)
                   /\ \A x : Holds(c, x) <=> IF n.type = "OR" THEN \E i \in DOMAIN s : Holds(s[i], x)
                                             ELSE \A i \in DOMAIN s : Holds(s[i], x)
      BY <1>1, <1>6, <2>3, KidsRead
    <2>5. ASSUME NEW x PROVE Holds(c, x) <=> ShownHolds(n, x)
      <3>1. \A j \in DOMAIN s : \E i \in DOMAIN n.kids :
                Rows(n.kids[i]) # {} /\ (Holds(s[j], x) <=> ShownHolds(n.kids[i], x))
        BY <1>1 DEF ReadsAs
      <3>2. \A i \in DOMAIN n.kids : Rows(n.kids[i]) # {} =>
                \E j \in DOMAIN s : Holds(s[j], x) <=> ShownHolds(n.kids[i], x)
        BY <1>1 DEF ReadsAs
      <3>3. CASE n.type = "OR"
        <4>1. Holds(c, x) <=> \E j \in DOMAIN s : Holds(s[j], x)
          BY <2>4, <3>3
        <4>2. ShownHolds(n, x) <=>
                  \E i \in DOMAIN n.kids : Rows(n.kids[i]) # {} /\ ShownHolds(n.kids[i], x)
          BY <3>3, ShownOf
        <4>3. (\E j \in DOMAIN s : Holds(s[j], x))
                  <=> \E i \in DOMAIN n.kids : Rows(n.kids[i]) # {} /\ ShownHolds(n.kids[i], x)
          BY <3>1, <3>2
        <4> QED BY <4>1, <4>2, <4>3
      <3>4. CASE n.type # "OR"
        <4>1. Holds(c, x) <=> \A j \in DOMAIN s : Holds(s[j], x)
          BY <2>4, <3>4
        <4>2. ShownHolds(n, x) <=>
                  \A i \in DOMAIN n.kids : Rows(n.kids[i]) # {} => ShownHolds(n.kids[i], x)
          BY <3>4, ShownOf
        <4>3. (\A j \in DOMAIN s : Holds(s[j], x))
                  <=> \A i \in DOMAIN n.kids : Rows(n.kids[i]) # {} => ShownHolds(n.kids[i], x)
          BY <3>1, <3>2
        <4> QED BY <4>1, <4>2, <4>3
      <3> QED BY <3>3, <3>4
    <2>6. ReadsAs(n, c)
      BY <1>2, <2>4, <2>5 DEF ReadsAs
    <2> QED BY <2>2, <2>6 DEF Reads
  <1> QED BY <1>5, <1>6

(* So every tree of the editor reads as what it shows.                       *)
LEMMA TreeReads ==
    ASSUME NEW n, IsTree("element", n)
    PROVE  Reads(n)
  <1>0. PICK N \in Nat : Deep(n, N)
    BY DEF IsTree
  <1> DEFINE A == {p \in PathsOf(n) : Reads(At(n, p))}
  <1>1. ASSUME NEW p \in PathsOf(n), \A i \in DOMAIN At(n, p).kids : Append(p, i) \in A
        PROVE  p \in A
    <2>1. IsTree("element", At(n, p))
      BY TreeAt
    <2>2. ASSUME NEW i \in DOMAIN At(n, p).kids PROVE Reads(At(n, p).kids[i])
      <3>1. i \in Nat
        BY <1>0 DEF Deep
      <3>2. At(n, Append(p, i)) = At(n, p).kids[i]
        BY <3>1, AtRest
      <3>3. Append(p, i) \in A
        BY <1>1
      <3> QED BY <3>2, <3>3
    <2>3. Reads(At(n, p))
      BY <2>1, <2>2, RowReads, GroupReads
    <2> QED BY <2>3
  <1>2. PathsOf(n) \subseteq A
    <2> HIDE DEF A
    <2> QED BY <1>0, <1>1, Subtrees
  <1>3. <<>> \in PathsOf(n) /\ At(n, <<>>) = n
    BY PathRoot, AtRoot
  <1>4. <<>> \in A
    <2> HIDE DEF A
    <2> QED BY <1>2, <1>3
  <1> QED BY <1>3, <1>4

----------------------------------------------------------------------------
(* Opening: rows and groups for a condition.                                 *)

(* A row of the editor, whatever is in it.                                   *)
LEMMA RowTree ==
    ASSUME NEW a, NEW o, NEW w
    PROVE  IsTree("element", RowWith(a, o, w)) /\ RowWith(a, o, w).kind = "row"
  <1>9. PICK e : e = ""
    OBVIOUS
  <1>0. e # "OR"
    BY <1>9
  <1> PICK r : r = RowWith(a, o, w)
    OBVIOUS
  <1>1. r = [kind |-> "row", attr |-> a, op |-> o, val |-> w.val, widget |-> w.widget,
             type |-> e, kids |-> <<>>]
    BY <1>9 DEF RowWith
  <1>2. r.kind = "row" /\ r.kids = <<>> /\ r.type = e
    BY <1>1
  <1>3. r = [kind |-> r.kind, attr |-> r.attr, op |-> r.op, val |-> r.val,
             widget |-> r.widget, type |-> r.type, kids |-> r.kids]
    BY <1>1
  <1>4. IsNode("element", r)
    BY <1>0, <1>2, <1>3, NoKids DEF IsNode, IsElement
  <1>5. \A i \in DOMAIN r.kids : IsTree("element", r.kids[i])
    <2>1. DOMAIN <<>> = {}
      OBVIOUS
    <2> QED BY <1>2, <2>1
  <1> QED BY <1>2, <1>4, <1>5, TreeOf

(* The row of a comparison.                                                  *)
LEMMA RowOfTree ==
    ASSUME NEW c, NEW x
    PROVE  IsTree("element", RowOf(c, x)) /\ RowOf(c, x).kind = "row"
  <1>1. \E a, o, w : RowOf(c, x) = RowWith(a, o, w)
    BY DEF RowOf
  <1> QED BY <1>1, RowTree

(* A group of elements.                                                      *)
LEMMA GroupWithTree ==
    ASSUME NEW t, NEW s, IsKids(s), \A i \in DOMAIN s : IsTree("element", s[i])
    PROVE  /\ IsTree("element", GroupWith(t, s)) /\ GroupWith(t, s).kind = "group"
           /\ GroupWith(t, s).kids = s /\ GroupWith(t, s).type = t
  <1>9. PICK e : e = ""
    OBVIOUS
  <1> PICK g : g = GroupWith(t, s)
    OBVIOUS
  <1>1. g = [kind |-> "group", attr |-> "None", op |-> e, val |-> e, widget |-> e,
             type |-> t, kids |-> s]
    BY <1>9 DEF GroupWith
  <1>2. g.kind = "group" /\ g.kids = s /\ g.type = t
    BY <1>1
  <1>3. g = [kind |-> g.kind, attr |-> g.attr, op |-> g.op, val |-> g.val,
             widget |-> g.widget, type |-> g.type, kids |-> g.kids]
    BY <1>1
  <1>4. IsNode("element", g)
    BY <1>2, <1>3 DEF IsNode, IsElement
  <1> QED BY <1>2, <1>4, TreeOf

(* The element of a condition.                                               *)
ElementOf(c, x) == IF IsBlock(c) THEN GroupOf(c, x) ELSE RowOf(c, x)

(* What a condition's group has: its children, or itself, or the default row. *)
LEMMA GroupKidsAre ==
    ASSUME NEW sort, NEW c, IsTree(sort, c)
    PROVE  /\ IsKids(GroupKids(c))
           /\ \/ GroupKids(c) = c.kids
              \/ \A i \in DOMAIN GroupKids(c) : ~IsBlock(GroupKids(c)[i])
  <1>1. IsKids(c.kids)
    BY TreeKids DEF IsNode
  <1>2. CASE IsBlock(c) /\ c.kids # <<>>
    <2>1. c.kind # "attr"
      BY <1>2 DEF IsBlock
    <2>2. GroupKids(c) = c.kids
      BY <1>2, <2>1 DEF GroupKids
    <2> QED BY <1>1, <2>2
  <1>3. CASE ~(IsBlock(c) /\ c.kids # <<>>)
    <2>1. PICK d : d = IF c.kind = "attr" THEN c ELSE DefaultCondition
      OBVIOUS
    <2>2. GroupKids(c) = <<d>>
      BY <1>3, <2>1 DEF GroupKids
    <2>3. ~IsBlock(d)
      BY <2>1 DEF IsBlock, DefaultCondition, Attr
    <2>4. <<d>> \in Seq({d})
      OBVIOUS
    <2>5. DOMAIN <<d>> = {1} /\ <<d>>[1] = d
      OBVIOUS
    <2>6. IsKids(<<d>>)
      BY <2>4, AreKids
    <2>7. \A i \in DOMAIN <<d>> : ~IsBlock(<<d>>[i])
      BY <2>3, <2>5
    <2> QED BY <2>2, <2>6, <2>7
  <1> QED BY <1>2, <1>3

(* A group made of the elements of a condition's children.                   *)
LEMMA GroupOfParts ==
    ASSUME NEW sort, NEW c, IsTree(sort, c), NEW x,
           \A i \in DOMAIN c.kids : IsTree("element", GroupOf(c.kids[i], x))
    PROVE  /\ IsTree("element", GroupOf(c, x)) /\ GroupOf(c, x).kind = "group"
           /\ GroupOf(c, x).type = IF c.kind = "or" THEN "OR" ELSE "AND"
           /\ GroupOf(c, x).kids = [i \in DOMAIN GroupKids(c) |-> ElementOf(GroupKids(c)[i], x)]
  <1>1. PICK s : s = [i \in DOMAIN GroupKids(c) |-> ElementOf(GroupKids(c)[i], x)]
    OBVIOUS
  <1>2. PICK t : t = IF c.kind = "or" THEN "OR" ELSE "AND"
    OBVIOUS
  <1>3. GroupOf(c, x) = GroupWith(t, s)
    BY <1>1, <1>2, GroupIsOf DEF ElementOf
  <1>4. ASSUME NEW i \in DOMAIN GroupKids(c) PROVE IsTree("element", s[i])
    <2>1. s[i] = ElementOf(GroupKids(c)[i], x)
      BY <1>1
    <2>2. CASE IsBlock(GroupKids(c)[i])
      <3>1. GroupKids(c) = c.kids
        BY <2>2, GroupKidsAre
      <3> QED BY <2>1, <2>2, <3>1 DEF ElementOf
    <2>3. CASE ~IsBlock(GroupKids(c)[i])
      BY <2>1, <2>3, RowOfTree DEF ElementOf
    <2> QED BY <2>2, <2>3
  <1>5. DOMAIN s = DOMAIN GroupKids(c) /\ IsKids(s)
    <2>1. Len(GroupKids(c)) \in Nat /\ DOMAIN GroupKids(c) = 1..Len(GroupKids(c))
      BY GroupKidsAre, KidsAre
    <2>2. PICK k \in Nat : k = Len(GroupKids(c))
      BY <2>1
    <2>3. PICK Z : Z = {ElementOf(GroupKids(c)[i], x) : i \in DOMAIN GroupKids(c)}
      OBVIOUS
    <2>4. s \in [1..k -> Z]
      BY <1>1, <2>1, <2>2, <2>3
    <2>5. s \in Seq(Z)
      BY <2>4
    <2> QED BY <1>1, <2>5, AreKids
  <1> QED BY <1>1, <1>2, <1>3, <1>4, <1>5, GroupWithTree

(* A condition opens as a tree of the editor.                                *)
LEMMA GroupOfTree ==
    ASSUME NEW sort, NEW c, IsTree(sort, c), NEW x
    PROVE  IsTree("element", GroupOf(c, x))
  <1>0. PICK N \in Nat : Deep(c, N)
    BY DEF IsTree
  <1> DEFINE A == {p \in PathsOf(c) : IsTree("element", GroupOf(At(c, p), x))}
  <1>1. ASSUME NEW p \in PathsOf(c), \A i \in DOMAIN At(c, p).kids : Append(p, i) \in A
        PROVE  p \in A
    <2>1. IsTree(sort, At(c, p))
      BY TreeAt
    <2>2. ASSUME NEW i \in DOMAIN At(c, p).kids
          PROVE  IsTree("element", GroupOf(At(c, p).kids[i], x))
      <3>1. i \in Nat
        BY <1>0 DEF Deep
      <3>2. At(c, Append(p, i)) = At(c, p).kids[i]
        BY <3>1, AtRest
      <3>3. Append(p, i) \in A
        BY <1>1
      <3> QED BY <3>2, <3>3
    <2>3. IsTree("element", GroupOf(At(c, p), x))
      BY <2>1, <2>2, GroupOfParts
    <2> QED BY <2>3
  <1>2. PathsOf(c) \subseteq A
    <2> HIDE DEF A
    <2> QED BY <1>0, <1>1, Subtrees
  <1>3. <<>> \in PathsOf(c) /\ At(c, <<>>) = c
    BY PathRoot, AtRoot
  <1>4. <<>> \in A
    <2> HIDE DEF A
    <2> QED BY <1>2, <1>3
  <1> QED BY <1>3, <1>4

(* Its root, and its children.                                               *)
LEMMA GroupOfIs ==
    ASSUME NEW sort, NEW c, IsTree(sort, c), NEW x
    PROVE  /\ IsTree("element", GroupOf(c, x)) /\ GroupOf(c, x).kind = "group"
           /\ GroupOf(c, x).type = IF c.kind = "or" THEN "OR" ELSE "AND"
           /\ GroupOf(c, x).kids = [i \in DOMAIN GroupKids(c) |-> ElementOf(GroupKids(c)[i], x)]
  <1>1. \A i \in DOMAIN c.kids : IsTree("element", GroupOf(c.kids[i], x))
    BY TreeKids, GroupOfTree
  <1> QED BY <1>1, GroupOfParts

(* What Supported says of a condition, at every place of it.                 *)
LEMMA Showable ==
    ASSUME NEW sort, sort # "element", NEW c, IsTree(sort, c), Supported(c)
    PROVE  IsTree("showable", c)
  <1>1. \A p \in PathsOf(c) : IsShowable(At(c, p))
    BY PathsAre DEF Supported, IsShowable
  <1>2. \A p \in PathsOf(c) : IsNode("showable", At(c, p))
    BY <1>1 DEF IsTree, IsNode
  <1> QED BY <1>2 DEF IsTree

(* What a condition is opened as reads as one that means the same, and as itself *)
(* when the editor has written it.                                           *)
OpensAs(c, x, d) ==
    /\ ReadGroup(ElementOf(c, x)) = <<d>>
    /\ IsTree("written", d)
    /\ \A true : Holds(d, true) <=> Holds(c, true)
    /\ IsTree("written", c) => d = c

(* A comparison opens as a row that reads as it.                             *)
LEMMA RowOpens ==
    ASSUME NEW c, IsTree("showable", c), ~IsBlock(c), NEW x
    PROVE  \E d : OpensAs(c, x, d)
  <1>1. IsShowable(c)
    BY TreeKids DEF IsNode
  <1>2. /\ ~c.neg /\ c.kind = "attr" /\ c.attr \in Editable /\ c.op \in ListedOps
        /\ c.attr = "Group" => c.val = "listed"
    BY <1>1 DEF IsShowable
  <1>3. PICK w : w = Widget(c.attr, c.val, x)
    OBVIOUS
  <1>4. w.val = c.val
    <2>1. CASE c.attr \notin x
      BY <1>3, <2>1 DEF Widget
    <2>2. CASE c.attr \in x /\ c.attr # "Group"
      BY <1>3, <2>2 DEF Widget
    <2>3. CASE c.attr \in x /\ c.attr = "Group"
      <3>1. PICK e : e = IF c.val = "listed" THEN c.val ELSE ""
        OBVIOUS
      <3>2. w = [widget |-> "list", val |-> e]
        BY <1>3, <2>3, <3>1 DEF Widget
      <3>3. e = c.val
        BY <1>2, <2>3, <3>1
      <3> QED BY <3>2, <3>3
    <2> QED BY <2>1, <2>2, <2>3
  <1>5. PICK r : r = RowOf(c, x)
    OBVIOUS
  <1>6. r = RowWith(c.attr, c.op, w)
    <2>1. ShownAttr(c.attr) = c.attr
      BY <1>2 DEF ShownAttr, Editable
    <2>2. (IF c.op \in ListedOps THEN c.op ELSE "equals") = c.op
      BY <1>2
    <2>3. RowOf(c, x) = RowWith(ShownAttr(c.attr), IF c.op \in ListedOps THEN c.op ELSE "equals",
                                Widget(c.attr, c.val, x))
      BY <1>2 DEF RowOf
    <2> QED BY <1>3, <1>5, <2>1, <2>2, <2>3
  <1>7. r.attr = c.attr /\ r.op = c.op /\ r.val = c.val
    BY <1>4, <1>6 DEF RowWith
  <1>8. NormalizeGroup(c.attr, c.val) = c.val
    BY <1>2 DEF NormalizeGroup
  <1>9. PICK d : d = Attr(c.attr, c.op, c.val, FALSE)
    OBVIOUS
  <1>10. ReadRow(r) = d
    BY <1>7, <1>8, <1>9 DEF ReadRow
  <1>11. ReadGroup(ElementOf(c, x)) = <<d>>
    <2>1. ElementOf(c, x) = r /\ IsTree("element", r) /\ r.kind = "row"
      BY <1>5, RowOfTree DEF ElementOf
    <2> QED BY <1>10, <2>1, ReadOf
  <1>12. IsTree("written", d) /\ \A true : Holds(d, true) <=> <<c.attr, c.op, c.val>> \in true
    BY <1>9, WrittenAttr
  <1>13. ASSUME NEW true PROVE Holds(c, true) <=> <<c.attr, c.op, c.val>> \in true
    <2>1. Holds(c, true) <=> Comparison(c) \in true
      BY <1>2, HoldsPlain
    <2>2. Comparison(c) = <<c.attr, c.op, c.val>>
      BY DEF Comparison
    <2> QED BY <2>1, <2>2
  <1>14. ASSUME IsTree("written", c) PROVE d = c
    <2>1. IsWritten(c)
      BY <1>14, TreeKids DEF IsNode
    <2>2. c = Attr(c.attr, c.op, c.val, FALSE)
      BY <2>1 DEF IsWritten
    <2> QED BY <1>9, <2>2
  <1> QED BY <1>11, <1>12, <1>13, <1>14 DEF OpensAs

(* A block opens as the group of what its children open as.                  *)
LEMMA BlockOpens ==
    ASSUME NEW c, IsTree("showable", c), IsBlock(c), NEW x,
           \A i \in DOMAIN c.kids : \E d : OpensAs(c.kids[i], x, d)
    PROVE  \E d : OpensAs(c, x, d)
  <1>1. ~c.neg /\ c.kids # <<>> /\ IsKids(c.kids) /\ c.kind \in {"and", "or"}
    BY TreeKids DEF IsNode, IsShowable, IsBlock
  <1>2. Len(c.kids) \in Nat /\ DOMAIN c.kids = 1..Len(c.kids)
    BY <1>1, KidsAre
  <1>3. GroupKids(c) = c.kids
    <2>1. c.kind # "attr"
      BY <1>1
    <2> QED BY <1>1, <2>1 DEF GroupKids
  <1>4. PICK g : g = GroupOf(c, x)
    OBVIOUS
  <1>5. /\ IsTree("element", g) /\ g.kind = "group"
        /\ g.type = IF c.kind = "or" THEN "OR" ELSE "AND"
        /\ g.kids = [i \in DOMAIN c.kids |-> ElementOf(c.kids[i], x)]
    BY <1>3, <1>4, GroupOfIs
  <1>6. PICK t : t = [i \in DOMAIN c.kids |-> CHOOSE d : OpensAs(c.kids[i], x, d)]
    OBVIOUS
  <1>7. \A i \in DOMAIN c.kids : OpensAs(c.kids[i], x, t[i])
    BY <1>6
  <1>8. DOMAIN t = 1..Len(c.kids) /\ IsKids(t) /\ Len(t) = Len(c.kids)
        /\ t \in Seq({t[i] : i \in DOMAIN t})
    <2>1. PICK Z : Z = {t[i] : i \in DOMAIN c.kids}
      OBVIOUS
    <2>2. PICK k \in Nat : k = Len(c.kids)
      BY <1>2
    <2>3. t \in [1..k -> Z]
      BY <1>2, <1>6, <2>1, <2>2
    <2>4. t \in Seq(Z) /\ Len(t) = k
      BY <2>3
    <2>5. DOMAIN t = DOMAIN c.kids
      BY <1>6
    <2> QED BY <1>2, <2>1, <2>2, <2>4, <2>5, AreKids
  <1>9. [i \in DOMAIN g.kids |-> ReadGroup(g.kids[i])] = [i \in 1..Len(t) |-> <<t[i]>>]
    <2>1. DOMAIN g.kids = 1..Len(t)
      BY <1>2, <1>5, <1>8
    <2>2. ASSUME NEW i \in 1..Len(t) PROVE ReadGroup(g.kids[i]) = <<t[i]>>
      <3>1. i \in DOMAIN c.kids /\ g.kids[i] = ElementOf(c.kids[i], x)
        BY <1>2, <1>5, <1>8
      <3> QED BY <1>7, <3>1 DEF OpensAs
    <2> QED BY <2>1, <2>2
  <1>10. FlattenSeq([i \in DOMAIN g.kids |-> ReadGroup(g.kids[i])]) = t
    BY <1>8, <1>9, FlattenOnes
  <1>11. ReadGroup(g) = ReadKids(g.type, t)
    <2>1. g.kind # "row"
      BY <1>5
    <2> QED BY <1>5, <1>10, <2>1, ReadOf
  <1>12. t # <<>>
    <2>1. DOMAIN t # {}
      <3>1. Len(c.kids) # 0
        BY <1>1, EmptySeq DEF IsKids
      <3> QED BY <1>2, <1>8, <3>1
    <2>2. DOMAIN <<>> = {}
      OBVIOUS
    <2> QED BY <2>1, <2>2
  <1>13. \A i \in DOMAIN t : IsTree("written", t[i])
    BY <1>2, <1>7, <1>8 DEF OpensAs
  <1>14. PICK d : /\ ReadKids(g.type, t) = <<d>> /\ IsTree("written", d)
                  /\ \A true : Holds(d, true) <=> IF g.type = "OR" THEN \E i \in DOMAIN t : Holds(t[i], true)
                                                  ELSE \A i \in DOMAIN t : Holds(t[i], true)
    BY <1>8, <1>12, <1>13, KidsRead
  <1>15. ASSUME NEW true PROVE Holds(d, true) <=> Holds(c, true)
    <2>1. \A i \in DOMAIN c.kids : Holds(t[i], true) <=> Holds(c.kids[i], true)
      BY <1>7 DEF OpensAs
    <2>2. CASE c.kind = "or"
      <3>1. g.type = "OR"
        BY <1>5, <2>2
      <3>2. Holds(d, true) <=> \E i \in DOMAIN t : Holds(t[i], true)
        BY <1>14, <3>1
      <3>3. Holds(c, true) <=> \E i \in DOMAIN c.kids : Holds(c.kids[i], true)
        BY <1>1, <2>2, HoldsPlain
      <3> QED BY <1>2, <1>8, <2>1, <3>2, <3>3
    <2>3. CASE c.kind = "and"
      <3>1. g.type # "OR"
        BY <1>5, <2>3
      <3>2. Holds(d, true) <=> \A i \in DOMAIN t : Holds(t[i], true)
        BY <1>14, <3>1
      <3>3. Holds(c, true) <=> \A i \in DOMAIN c.kids : Holds(c.kids[i], true)
        BY <1>1, <2>3, HoldsPlain
      <3> QED BY <1>2, <1>8, <2>1, <3>2, <3>3
    <2> QED BY <1>1, <2>2, <2>3
  <1>16. ASSUME IsTree("written", c) PROVE d = c
    <2>1. /\ IsWritten(c) /\ \A i \in DOMAIN c.kids : IsTree("written", c.kids[i])
      BY <1>16, TreeKids DEF IsNode
    <2>2. \A i \in DOMAIN c.kids : t[i] = c.kids[i]
      BY <1>7, <2>1 DEF OpensAs
    <2>3. t = c.kids
      <3>1. t = [i \in DOMAIN c.kids |-> t[i]]
        BY <1>6
      <3>2. c.kids = [i \in DOMAIN c.kids |-> c.kids[i]]
        BY <1>1 DEF IsKids
      <3> QED BY <2>2, <3>1, <3>2
    <2>4. c.kind # "attr"
      BY <1>1
    <2>5. c = Block(c.kind, c.kids, FALSE) /\ ~(Len(c.kids) = 1 /\ c.kids[1].kind = "attr")
      BY <2>1, <2>4 DEF IsWritten
    <2>6. PICK k : k = IF g.type = "OR" THEN "or" ELSE "and"
      OBVIOUS
    <2>7. k = c.kind
      BY <1>1, <1>5, <2>6
    <2>8. ReadKids(g.type, t) = <<Block(k, c.kids, FALSE)>>
      BY <1>1, <2>3, <2>5, <2>6 DEF ReadKids
    <2>9. <<d>> = <<c>>
      BY <1>14, <2>5, <2>7, <2>8
    <2> QED BY <2>9
  <1>17. ReadGroup(ElementOf(c, x)) = <<d>>
    BY <1>4, <1>11, <1>14 DEF ElementOf
  <1> QED BY <1>14, <1>15, <1>16, <1>17 DEF OpensAs

(* So every condition the editor has widgets for opens as itself.            *)
LEMMA TreeOpens ==
    ASSUME NEW c, IsTree("showable", c), NEW x
    PROVE  \E d : OpensAs(c, x, d)
  <1>0. PICK N \in Nat : Deep(c, N)
    BY DEF IsTree
  <1> DEFINE A == {p \in PathsOf(c) : \E d : OpensAs(At(c, p), x, d)}
  <1>1. ASSUME NEW p \in PathsOf(c), \A i \in DOMAIN At(c, p).kids : Append(p, i) \in A
        PROVE  p \in A
    <2>1. IsTree("showable", At(c, p))
      BY TreeAt
    <2>2. ASSUME NEW i \in DOMAIN At(c, p).kids PROVE \E d : OpensAs(At(c, p).kids[i], x, d)
      <3>1. i \in Nat
        BY <1>0 DEF Deep
      <3>2. At(c, Append(p, i)) = At(c, p).kids[i]
        BY <3>1, AtRest
      <3>3. Append(p, i) \in A
        BY <1>1
      <3> QED BY <3>2, <3>3
    <2>3. \E d : OpensAs(At(c, p), x, d)
      BY <2>1, <2>2, RowOpens, BlockOpens
    <2> QED BY <2>3
  <1>2. PathsOf(c) \subseteq A
    <2> HIDE DEF A
    <2> QED BY <1>0, <1>1, Subtrees
  <1>3. <<>> \in PathsOf(c) /\ At(c, <<>>) = c
    BY PathRoot, AtRoot
  <1>4. <<>> \in A
    <2> HIDE DEF A
    <2> QED BY <1>2, <1>3
  <1> QED BY <1>3, <1>4

(* The editor of a rule opens a group: of the comparison, if it is one.      *)
LEMMA GroupOpens ==
    ASSUME NEW c, IsTree("showable", c), NEW x
    PROVE  \E d : /\ ReadGroup(GroupOf(c, x)) = <<d>>
                  /\ \A true : Holds(d, true) <=> Holds(c, true)
                  /\ IsTree("written", c) => d = c
  <1>1. PICK d : OpensAs(c, x, d)
    BY TreeOpens
  <1>2. CASE IsBlock(c)
    BY <1>1, <1>2 DEF OpensAs, ElementOf
  <1>3. CASE ~IsBlock(c)
    <2>1. c.kind = "attr"
      BY <1>3, TreeKids DEF IsNode, IsShowable
    <2>2. GroupKids(c) = <<c>>
      BY <1>3, <2>1 DEF GroupKids
    <2>3. PICK g : g = GroupOf(c, x)
      OBVIOUS
    <2>4. DOMAIN <<c>> = {1} /\ <<c>>[1] = c
      OBVIOUS
    <2>5. IsTree("element", g) /\ g.kind = "group" /\ g.kids = [i \in {1} |-> ElementOf(c, x)]
      BY <2>2, <2>3, <2>4, GroupOfIs
    <2>6. PICK s : s = <<d>>
      OBVIOUS
    <2>7. [i \in DOMAIN g.kids |-> ReadGroup(g.kids[i])] = [i \in 1..Len(s) |-> <<s[i]>>]
      <3>1. 1..Len(s) = {1} /\ s[1] = d
        BY <2>6
      <3>2. DOMAIN g.kids = {1} /\ g.kids[1] = ElementOf(c, x)
        BY <2>5
      <3>3. ReadGroup(g.kids[1]) = <<s[1]>>
        BY <1>1, <3>1, <3>2 DEF OpensAs
      <3> QED BY <3>1, <3>2, <3>3
    <2>8. s \in Seq({d})
      BY <2>6
    <2>9. FlattenSeq([i \in DOMAIN g.kids |-> ReadGroup(g.kids[i])]) = s
      BY <2>7, <2>8, FlattenOnes
    <2>10. ReadGroup(g) = ReadKids(g.type, s)
      <3>1. g.kind # "row"
        BY <2>5
      <3> QED BY <2>5, <2>9, <3>1, ReadOf
    <2>11. d.kind = "attr"
      <3>1. ReadGroup(RowOf(c, x)) = <<ReadRow(RowOf(c, x))>>
        BY RowOfTree, ReadOf
      <3>2. <<d>> = <<ReadRow(RowOf(c, x))>>
        BY <1>1, <1>3, <3>1 DEF OpensAs, ElementOf
      <3>3. d = ReadRow(RowOf(c, x))
        BY <3>2
      <3> QED BY <3>3 DEF ReadRow, Attr
    <2>12. ReadKids(g.type, s) = s
      <3>1. Len(s) = 1 /\ s[1] = d
        BY <2>6
      <3> QED BY <2>11, <3>1 DEF ReadKids
    <2> QED BY <1>1, <2>3, <2>6, <2>10, <2>12 DEF OpensAs
  <1> QED BY <1>2, <1>3

----------------------------------------------------------------------------
(* Editing: an element put at a place, gaps swept, an element moved.         *)

(* The elements on the way up from one that is put at p.                     *)
Puts(n, p, new, f) ==
    f = [k \in 0..Len(p) |->
            IF k = Len(p) THEN new
            ELSE [At(n, SubSeq(p, 1, k)) EXCEPT !.kids[p[k + 1]] = f[k + 1]]]

(* There is always one.                                                      *)
LEMMA PutsExists ==
    ASSUME NEW n, NEW p, Len(p) \in Nat, NEW new
    PROVE  \E f : Puts(n, p, new, f)
  <1> PICK top : top = Len(p)
    OBVIOUS
  <1> DEFINE Above(k, up) == [At(n, SubSeq(p, 1, k)) EXCEPT !.kids[p[k + 1]] = up]
             To(j, f) == f = [k \in (top - j)..top |-> IF k = top THEN new ELSE Above(k, f[k + 1])]
             A == {j \in 0..top : \E f : To(j, f)}
  <1>0. top \in Nat
    OBVIOUS
  <1>1. 0 \in A
    <2>1. PICK f : f = [k \in (top - 0)..top |-> new]
      OBVIOUS
    <2>2. \A k \in (top - 0)..top : k = top
      BY <1>0
    <2>3. To(0, f)
      <3> HIDE DEF Above
      <3> QED BY <2>1, <2>2
    <2>4. 0 \in 0..top
      BY <1>0
    <2> HIDE DEF To
    <2> QED BY <2>3, <2>4
  <1>2. ASSUME NEW j \in 0..(top - 1), j \in A PROVE j + 1 \in A
    <2>1. PICK f : To(j, f)
      BY <1>2
    <2>2. PICK g : g = [k \in (top - (j + 1))..top |->
                           IF k \in (top - j)..top THEN f[k] ELSE Above(k, f[k + 1])]
      OBVIOUS
    <2>3. ASSUME NEW k \in (top - (j + 1))..top
          PROVE  g[k] = IF k = top THEN new ELSE Above(k, g[k + 1])
      <3>1. CASE k \in (top - j)..top
        <4>1. g[k] = f[k]
          BY <2>2, <3>1
        <4>2. CASE k = top
          <5>1. f[k] = new
            <6> HIDE DEF Above
            <6> QED BY <2>1, <3>1, <4>2
          <5> QED BY <4>1, <4>2, <5>1
        <4>3. CASE k # top
          <5>1. k + 1 \in (top - j)..top /\ k + 1 \in (top - (j + 1))..top
            BY <1>0, <3>1, <4>3
          <5>2. g[k + 1] = f[k + 1]
            BY <2>2, <5>1
          <5>3. f[k] = Above(k, f[k + 1])
            <6> HIDE DEF Above
            <6> QED BY <2>1, <3>1, <4>3
          <5> HIDE DEF Above
          <5> QED BY <4>1, <4>3, <5>2, <5>3
        <4> QED BY <4>2, <4>3
      <3>2. CASE k \notin (top - j)..top
        <4>1. k # top /\ k + 1 \in (top - j)..top /\ k + 1 \in (top - (j + 1))..top
          BY <1>0, <3>2
        <4>2. g[k + 1] = f[k + 1]
          BY <2>2, <4>1
        <4>3. g[k] = Above(k, f[k + 1])
          <5> HIDE DEF Above
          <5> QED BY <2>2, <3>2
        <4> HIDE DEF Above
        <4> QED BY <4>1, <4>2, <4>3
      <3> QED BY <3>1, <3>2
    <2>4. To(j + 1, g)
      <3> HIDE DEF Above
      <3> QED BY <2>2, <2>3
    <2>5. j + 1 \in 0..top
      BY <1>0
    <2> HIDE DEF To
    <2> QED BY <2>4, <2>5
  <1>3. 0..top \subseteq A
    <2> HIDE DEF A
    <2> QED BY <1>0, <1>1, <1>2, UpTo
  <1>4. PICK f : To(top, f)
    <2>1. top \in 0..top
      BY <1>0
    <2> HIDE DEF To
    <2> QED BY <1>3, <2>1
  <1>5. top - top = 0
    BY <1>0
  <1>6. Puts(n, p, new, f)
    BY <1>4, <1>5 DEF Puts
  <1> QED BY <1>6

IsPut(n, p, new, f) == Puts(n, p, new, f) /\ Put(n, p, new) = f[0]

(* Put is its first.                                                         *)
LEMMA PutsAre ==
    ASSUME NEW n, NEW p, Len(p) \in Nat, NEW new
    PROVE  \E f : IsPut(n, p, new, f)
  <1>1. PICK f : f = CHOOSE g : Puts(n, p, new, g)
    OBVIOUS
  <1>2. Puts(n, p, new, f)
    BY <1>1, PutsExists
  <1>3. Put(n, p, new) = f[0]
    BY <1>1 DEF Put, Puts
  <1> QED BY <1>2, <1>3 DEF IsPut

(* At the root, the new element replaces all.                                *)
LEMMA PutRoot == ASSUME NEW n, NEW new PROVE Put(n, <<>>, new) = new
  <1>1. Len(<<>>) = 0 /\ Len(<<>>) \in Nat
    OBVIOUS
  <1>2. PICK f : IsPut(n, <<>>, new, f)
    BY <1>1, PutsAre
  <1>3. 0 \in 0..Len(<<>>) /\ 0 = Len(<<>>)
    BY <1>1
  <1>4. f[0] = new
    BY <1>2, <1>3 DEF Puts, IsPut
  <1> QED BY <1>2, <1>4 DEF IsPut

(* An element with another child.                                            *)
Within(n, i, e) == [n EXCEPT !.kids[i] = e]

(* Beneath it, the child on the way is replaced.                             *)
LEMMA PutWithin ==
    ASSUME NEW n, NEW p \in Seq(Nat), NEW i \in Nat, NEW new
    PROVE  Put(n, Cons(i, p), new) = Within(n, i, Put(n.kids[i], p, new))
  <1> PICK q : q = <<i>> \o p
    OBVIOUS
  <1>1. /\ Len(p) \in Nat /\ Len(q) \in Nat /\ Len(q) = Len(p) + 1 /\ q[1] = i
        /\ \A k \in 1..Len(p) : q[k + 1] = p[k]
    OBVIOUS
  <1>2. PICK f : IsPut(n, q, new, f)
    BY <1>1, PutsAre
  <1>3. PICK g : IsPut(n.kids[i], p, new, g)
    BY <1>1, PutsAre
  <1> PICK top : top = Len(p)
    OBVIOUS
  <1> DEFINE A == {j \in 0..top : f[(top - j) + 1] = g[top - j]}
  <1>4. 0 \in A
    <2>1. /\ (top - 0) + 1 = Len(q) /\ top - 0 = Len(p) /\ 0 \in 0..top
          /\ Len(p) \in 0..Len(p) /\ Len(q) \in 0..Len(q)
      BY <1>1
    <2>2. f[Len(q)] = new
      BY <1>2, <2>1 DEF Puts, IsPut
    <2>3. g[Len(p)] = new
      BY <1>3, <2>1 DEF Puts, IsPut
    <2> QED BY <2>1, <2>2, <2>3
  <1>5. ASSUME NEW j \in 0..(top - 1), j \in A PROVE j + 1 \in A
    <2>1. PICK k : k = top - (j + 1)
      OBVIOUS
    <2>2. /\ k \in 0..Len(p) /\ k # Len(p) /\ k + 1 = top - j /\ k + 1 \in 0..Len(q)
          /\ k + 1 # Len(q) /\ (k + 1) + 1 = (top - j) + 1 /\ j + 1 \in 0..top
          /\ k + 1 \in 1..Len(p)
      BY <1>1, <2>1
    <2>3. f[(k + 1) + 1] = g[k + 1]
      BY <1>5, <2>2
    <2>4. At(n, SubSeq(q, 1, k + 1)) = At(n.kids[i], SubSeq(p, 1, k))
      <3>0. PICK h : h = k + 1
        OBVIOUS
      <3>1. h \in 1..Len(p) /\ k = h - 1
        BY <1>1, <2>2, <3>0
      <3>2. SubSeq(q, 1, h) = <<i>> \o SubSeq(p, 1, h - 1) /\ SubSeq(p, 1, h - 1) \in Seq(Nat)
        BY <3>1
      <3>3. At(n, SubSeq(q, 1, h)) = At(n.kids[i], SubSeq(p, 1, h - 1))
        BY <3>2, AtWithin
      <3> QED BY <3>0, <3>1, <3>3
    <2>5. q[(k + 1) + 1] = p[k + 1]
      BY <1>1, <2>2
    <2>6. f[k + 1] = [At(n, SubSeq(q, 1, k + 1)) EXCEPT !.kids[q[(k + 1) + 1]] = f[(k + 1) + 1]]
      BY <1>2, <2>2 DEF Puts, IsPut
    <2>7. g[k] = [At(n.kids[i], SubSeq(p, 1, k)) EXCEPT !.kids[p[k + 1]] = g[k + 1]]
      BY <1>3, <2>2 DEF Puts, IsPut
    <2>8. f[k + 1] = g[k]
      BY <2>3, <2>4, <2>5, <2>6, <2>7
    <2> QED BY <2>1, <2>2, <2>8
  <1>6. 0..top \subseteq A
    <2> HIDE DEF A
    <2> QED BY <1>1, <1>4, <1>5, UpTo
  <1>7. f[0 + 1] = g[0]
    <2>1. top \in 0..top /\ top - top = 0
      BY <1>1
    <2>2. top \in A
      <3> HIDE DEF A
      <3> QED BY <1>6, <2>1
    <2> QED BY <2>1, <2>2
  <1>8. f[0] = [At(n, SubSeq(q, 1, 0)) EXCEPT !.kids[q[0 + 1]] = f[0 + 1]]
    <2>1. 0 \in 0..Len(q) /\ 0 # Len(q)
      BY <1>1
    <2> QED BY <1>2, <2>1 DEF Puts, IsPut
  <1>9. At(n, SubSeq(q, 1, 0)) = n /\ q[0 + 1] = i
    <2>1. SubSeq(q, 1, 0) = <<>>
      BY <1>1
    <2>2. At(n, SubSeq(q, 1, 0)) = n
      BY <2>1, AtRoot
    <2> QED BY <1>1, <2>2
  <1> QED BY <1>2, <1>3, <1>7, <1>8, <1>9 DEF IsPut, Within, Cons

(* An element with other children.                                           *)
LEMMA Regrouped ==
    ASSUME NEW m, IsTree("element", m), NEW s, IsKids(s), m.kind # "row" \/ s = <<>>,
           \A i \in DOMAIN s : IsTree("element", s[i])
    PROVE  /\ IsTree("element", [m EXCEPT !.kids = s])
           /\ [m EXCEPT !.kids = s].kind = m.kind /\ [m EXCEPT !.kids = s].kids = s
  <1>1. IsElement(m)
    BY TreeKids DEF IsNode
  <1> PICK g : g = [m EXCEPT !.kids = s]
    OBVIOUS
  <1>2. g = [kind |-> m.kind, attr |-> m.attr, op |-> m.op, val |-> m.val,
             widget |-> m.widget, type |-> m.type, kids |-> s]
    BY <1>1 DEF IsElement
  <1>3. g.kind = m.kind /\ g.type = m.type /\ g.kids = s
    BY <1>2
  <1>4. g = [kind |-> g.kind, attr |-> g.attr, op |-> g.op, val |-> g.val,
             widget |-> g.widget, type |-> g.type, kids |-> g.kids]
    BY <1>2
  <1>5. g.kind \in {"row", "group"} /\ (g.kind = "row" => g.kids = <<>> /\ g.type # "OR")
    BY <1>1, <1>3 DEF IsElement
  <1>6. IsNode("element", g)
    BY <1>3, <1>4, <1>5 DEF IsNode, IsElement
  <1>7. IsTree("element", g)
    BY <1>3, <1>6, TreeOf
  <1> QED BY <1>3, <1>7

(* An element with another child is one.                                     *)
LEMMA ChildPut ==
    ASSUME NEW m, IsTree("element", m), NEW i \in DOMAIN m.kids, NEW e, IsTree("element", e)
    PROVE  /\ IsTree("element", Within(m, i, e))
           /\ Within(m, i, e).kind = m.kind
           /\ Within(m, i, e).kids = [m.kids EXCEPT ![i] = e]
  <1>1. IsKids(m.kids) /\ IsElement(m)
    BY TreeKids DEF IsNode
  <1>2. PICK s : s = [m.kids EXCEPT ![i] = e]
    OBVIOUS
  <1>3. Len(m.kids) \in Nat /\ DOMAIN m.kids = 1..Len(m.kids)
    BY <1>1, KidsAre
  <1>4. IsKids(s)
    <2>1. PICK Z : Z = {m.kids[j] : j \in DOMAIN m.kids} \union {e}
      OBVIOUS
    <2>2. PICK k \in Nat : k = Len(m.kids)
      BY <1>3
    <2>3. m.kids \in Seq({m.kids[j] : j \in DOMAIN m.kids})
      BY <1>1 DEF IsKids
    <2>4. s \in [1..k -> Z]
      BY <1>2, <1>3, <2>1, <2>2, <2>3
    <2>5. s \in Seq(Z)
      BY <2>4
    <2> QED BY <2>5, AreKids
  <1>5. ASSUME NEW j \in DOMAIN s PROVE IsTree("element", s[j])
    <2>1. j \in DOMAIN m.kids
      BY <1>2
    <2>2. CASE j = i
      BY <1>2, <2>1, <2>2
    <2>3. CASE j # i
      BY <1>2, <2>1, <2>3, TreeKids
    <2> QED BY <2>2, <2>3
  <1>6. m.kind # "row"
    <2>1. DOMAIN <<>> = {}
      OBVIOUS
    <2> QED BY <1>1, <2>1 DEF IsElement
  <1>7. Within(m, i, e) = [m EXCEPT !.kids = s]
    BY <1>2 DEF Within
  <1> QED BY <1>2, <1>4, <1>5, <1>6, <1>7, Regrouped

(* A path, from the first step.                                              *)
LEMMA PathFirst ==
    ASSUME NEW n, NEW q \in PathsOf(n), q # <<>>
    PROVE  \E i \in DOMAIN n.kids : \E p \in PathsOf(n.kids[i]) :
               i \in Nat /\ p \in Seq(Nat) /\ q = Cons(i, p)
  <1>1. q \in Seq(Nat)
    BY DEF PathsOf
  <1>2. PICK i : i = q[1]
    OBVIOUS
  <1>3. PICK p : p = SubSeq(q, 2, Len(q))
    OBVIOUS
  <1>4. i \in Nat /\ p \in Seq(Nat) /\ q = <<i>> \o p
    <2>1. Len(q) \in Nat /\ Len(q) # 0
      BY <1>1
    <2> QED BY <1>1, <1>2, <1>3, <2>1
  <1>5. i \in DOMAIN n.kids /\ p \in PathsOf(n.kids[i])
    BY <1>4, PathWithin
  <1> QED BY <1>4, <1>5 DEF Cons

(* An element put into a tree makes a tree.                                  *)
LEMMA PutTree ==
    ASSUME NEW n, IsTree("element", n), NEW new, IsTree("element", new), NEW p \in PathsOf(n)
    PROVE  IsTree("element", Put(n, p, new))
  <1>0. PICK N \in Nat : Deep(n, N)
    BY DEF IsTree
  <1> DEFINE A == {r \in PathsOf(n) :
                      \A q \in PathsOf(At(n, r)) : IsTree("element", Put(At(n, r), q, new))}
  <1>1. ASSUME NEW r \in PathsOf(n), \A i \in DOMAIN At(n, r).kids : Append(r, i) \in A
        PROVE  r \in A
    <2>1. PICK m : m = At(n, r)
      OBVIOUS
    <2>2. IsTree("element", m)
      BY <2>1, TreeAt
    <2>3. ASSUME NEW q \in PathsOf(m) PROVE IsTree("element", Put(m, q, new))
      <3>1. CASE q = <<>>
        BY <3>1, PutRoot
      <3>2. CASE q # <<>>
        <4>0. PICK i \in DOMAIN m.kids : \E s \in PathsOf(m.kids[i]) :
                  i \in Nat /\ s \in Seq(Nat) /\ q = Cons(i, s)
          BY <3>2, PathFirst
        <4>1. PICK s \in PathsOf(m.kids[i]) : i \in Nat /\ s \in Seq(Nat) /\ q = Cons(i, s)
          BY <4>0
        <4>2. At(n, Append(r, i)) = m.kids[i]
          BY <2>1, <4>1, AtRest
        <4>3. Append(r, i) \in A
          BY <1>1, <2>1
        <4>4. IsTree("element", Put(m.kids[i], s, new))
          BY <4>2, <4>3
        <4>5. Put(m, q, new) = Within(m, i, Put(m.kids[i], s, new))
          BY <4>1, PutWithin
        <4>6. PICK e : e = Put(m.kids[i], s, new)
          OBVIOUS
        <4>7. IsTree("element", Within(m, i, e))
          BY <2>2, <4>4, <4>6, ChildPut
        <4> QED BY <4>5, <4>6, <4>7
      <3> QED BY <3>1, <3>2
    <2> QED BY <2>1, <2>3
  <1>2. PathsOf(n) \subseteq A
    <2> HIDE DEF A
    <2> QED BY <1>0, <1>1, Subtrees
  <1>3. <<>> \in PathsOf(n) /\ At(n, <<>>) = n
    BY PathRoot, AtRoot
  <1>4. <<>> \in A
    <2> HIDE DEF A
    <2> QED BY <1>2, <1>3
  <1> QED BY <1>3, <1>4

(* Sweeping keeps the elements.                                              *)
LEMMA SweptParts ==
    ASSUME NEW n, IsTree("element", n), \A i \in DOMAIN n.kids : IsTree("element", Swept(n.kids[i]))
    PROVE  IsTree("element", Swept(n))
  <1>1. IsElement(n) /\ IsKids(n.kids)
    BY TreeKids DEF IsNode
  <1>2. PICK v : v = [i \in DOMAIN n.kids |->
                         IF Swept(n.kids[i]) = Gap THEN <<>> ELSE <<Swept(n.kids[i])>>]
    OBVIOUS
  <1>3. PICK k \in Nat : k = Len(n.kids) /\ DOMAIN n.kids = 1..k
    BY <1>1, KidsAre
  <1>4. PICK Z : Z = {Swept(n.kids[i]) : i \in DOMAIN n.kids}
    OBVIOUS
  <1>5. \A i \in DOMAIN n.kids : v[i] = <<>> \/ (v[i] = <<Swept(n.kids[i])>> /\ Swept(n.kids[i]) \in Z)
    BY <1>2, <1>4
  <1>6. \A i \in DOMAIN n.kids : v[i] \in Seq(Z)
    <2> HIDE <1>2, <1>4
    <2>1. <<>> \in Seq(Z)
      OBVIOUS
    <2>2. \A z \in Z : <<z>> \in Seq(Z)
      OBVIOUS
    <2> QED BY <1>5, <2>1, <2>2
  <1>7. v \in Seq(Seq(Z)) /\ DOMAIN v = DOMAIN n.kids
    <2>1. PICK Y : Y = Seq(Z)
      OBVIOUS
    <2>2. v \in [1..k -> Y]
      BY <1>2, <1>3, <1>6, <2>1
    <2>3. v \in Seq(Y)
      BY <2>2
    <2> QED BY <1>2, <2>1, <2>3
  <1>8. PICK s : s = FlattenSeq(v)
    OBVIOUS
  <1>9. s \in Seq(Z)
    BY <1>7, <1>8, Flattened
  <1>10. IsKids(s)
    BY <1>9, AreKids
  <1>11. ASSUME NEW j \in DOMAIN s PROVE IsTree("element", s[j])
    <2>1. s[j] \in Z
      BY <1>9
    <2> QED BY <1>4, <2>1
  <1>12. n.kind # "row" \/ s = <<>>
    <2>1. SUFFICES ASSUME n.kind = "row" PROVE s = <<>>
      OBVIOUS
    <2>2. n.kids = <<>>
      BY <1>1, <2>1 DEF IsElement
    <2>3. DOMAIN <<>> = {}
      OBVIOUS
    <2>4. v = <<>> /\ Len(v) = 0
      BY <1>7, <2>2, <2>3
    <2> QED BY <1>8, <2>4, NoneFlat
  <1>13. Swept(n) = [n EXCEPT !.kids = s]
    BY <1>2, <1>8, SweptOf
  <1> QED BY <1>10, <1>11, <1>12, <1>13, Regrouped

(* A tree without its gaps is a tree.                                        *)
LEMMA SweptTree ==
    ASSUME NEW n, IsTree("element", n)
    PROVE  IsTree("element", Swept(n))
  <1>0. PICK N \in Nat : Deep(n, N)
    BY DEF IsTree
  <1> DEFINE A == {p \in PathsOf(n) : IsTree("element", Swept(At(n, p)))}
  <1>1. ASSUME NEW p \in PathsOf(n), \A i \in DOMAIN At(n, p).kids : Append(p, i) \in A
        PROVE  p \in A
    <2>1. IsTree("element", At(n, p))
      BY TreeAt
    <2>2. ASSUME NEW i \in DOMAIN At(n, p).kids
          PROVE  IsTree("element", Swept(At(n, p).kids[i]))
      <3>1. i \in Nat
        BY <1>0 DEF Deep
      <3>2. At(n, Append(p, i)) = At(n, p).kids[i]
        BY <3>1, AtRest
      <3>3. Append(p, i) \in A
        BY <1>1
      <3> QED BY <3>2, <3>3
    <2>3. IsTree("element", Swept(At(n, p)))
      BY <2>1, <2>2, SweptParts
    <2> QED BY <2>3
  <1>2. PathsOf(n) \subseteq A
    <2> HIDE DEF A
    <2> QED BY <1>0, <1>1, Subtrees
  <1>3. <<>> \in PathsOf(n) /\ At(n, <<>>) = n
    BY PathRoot, AtRoot
  <1>4. <<>> \in A
    <2> HIDE DEF A
    <2> QED BY <1>2, <1>3
  <1> QED BY <1>3, <1>4

(* A gap is one.                                                             *)
LEMMA GapTree == IsTree("element", Gap)
  <1>1. DOMAIN <<>> = {}
    OBVIOUS
  <1>2. \A i \in DOMAIN <<>> : IsTree("element", <<>>[i])
    BY <1>1
  <1>3. IsTree("element", GroupWith("gap", <<>>))
    BY <1>2, NoKids, GroupWithTree
  <1> QED BY <1>3 DEF Gap

(* An element removed leaves a tree.                                         *)
LEMMA RemovedTree ==
    ASSUME NEW n, IsTree("element", n), NEW p \in PathsOf(n)
    PROVE  IsTree("element", Removed(n, p))
  <1>1. IsTree("element", Put(n, p, Gap))
    BY GapTree, PutTree
  <1> QED BY <1>1, SweptTree DEF Removed

(* + Row, + Group.                                                           *)
LEMMA AppendedTree ==
    ASSUME NEW n, IsTree("element", n), NEW p \in PathsOf(n), At(n, p).kind = "group",
           NEW e, IsTree("element", e)
    PROVE  IsTree("element", Appended(n, p, e))
  <1>1. PICK m : m = At(n, p)
    OBVIOUS
  <1>2. IsTree("element", m) /\ m.kind # "row"
    BY <1>1, TreeAt
  <1>3. IsKids(m.kids)
    BY <1>2, TreeKids DEF IsNode
  <1>4. PICK Z : Z = {m.kids[i] : i \in DOMAIN m.kids} \union {e}
    OBVIOUS
  <1>5. \A z \in Z : IsTree("element", z)
    BY <1>2, <1>4, TreeKids
  <1>6. m.kids \in Seq(Z) /\ e \in Z
    <2>1. m.kids \in Seq({m.kids[i] : i \in DOMAIN m.kids})
      BY <1>3 DEF IsKids
    <2>2. \A i \in DOMAIN m.kids : m.kids[i] \in Z
      BY <1>4
    <2>3. PICK k \in Nat : m.kids \in [1..k -> {m.kids[i] : i \in DOMAIN m.kids}]
      BY <2>1
    <2>4. m.kids \in [1..k -> Z]
      BY <2>2, <2>3
    <2> QED BY <1>4, <2>4
  <1>7. PICK s : s = Append(m.kids, e)
    OBVIOUS
  <1>8. s \in Seq(Z)
    <2> HIDE <1>4
    <2> QED BY <1>6, <1>7, AppendProperties
  <1>9. IsKids(s)
    BY <1>8, AreKids
  <1>10. \A i \in DOMAIN s : IsTree("element", s[i])
    <2>1. \A i \in DOMAIN s : s[i] \in Z
      BY <1>8
    <2> QED BY <1>5, <2>1
  <1>11. IsTree("element", [m EXCEPT !.kids = s])
    BY <1>2, <1>9, <1>10, Regrouped
  <1>12. [At(n, p) EXCEPT !.kids = Append(@, e)] = [m EXCEPT !.kids = s]
    BY <1>1, <1>2, <1>7, TreeKids DEF IsNode, IsElement
  <1>13. PICK g : g = [m EXCEPT !.kids = s]
    OBVIOUS
  <1>14. Appended(n, p, e) = Put(n, p, g)
    BY <1>12, <1>13 DEF Appended
  <1> QED BY <1>11, <1>13, <1>14, PutTree

(* AND and OR; a value, an operator.                                         *)
LEMMA FieldTree ==
    ASSUME NEW m, IsTree("element", m), NEW v
    PROVE  /\ m.kind = "group" => IsTree("element", [m EXCEPT !.type = v])
           /\ IsTree("element", [m EXCEPT !.val = v])
           /\ IsTree("element", [m EXCEPT !.op = v])
  <1>1. IsElement(m) /\ IsKids(m.kids) /\ \A i \in DOMAIN m.kids : IsTree("element", m.kids[i])
    BY TreeKids DEF IsNode
  <1>2. m = [kind |-> m.kind, attr |-> m.attr, op |-> m.op, val |-> m.val,
             widget |-> m.widget, type |-> m.type, kids |-> m.kids]
    BY <1>1 DEF IsElement
  <1>3. ASSUME m.kind = "group" PROVE IsTree("element", [m EXCEPT !.type = v])
    <2>1. PICK g : g = [m EXCEPT !.type = v]
      OBVIOUS
    <2>2. g = [kind |-> m.kind, attr |-> m.attr, op |-> m.op, val |-> m.val,
               widget |-> m.widget, type |-> v, kids |-> m.kids]
      BY <1>2, <2>1
    <2>3. g.kind = "group" /\ g.kids = m.kids /\ g.type = v
      BY <1>3, <2>2
    <2>4. g = [kind |-> g.kind, attr |-> g.attr, op |-> g.op, val |-> g.val,
               widget |-> g.widget, type |-> g.type, kids |-> g.kids]
      BY <2>2
    <2>5. IsNode("element", g)
      BY <1>1, <2>3, <2>4 DEF IsNode, IsElement
    <2> QED BY <1>1, <2>1, <2>3, <2>5, TreeOf
  <1>4. IsTree("element", [m EXCEPT !.val = v])
    <2>1. PICK g : g = [m EXCEPT !.val = v]
      OBVIOUS
    <2>2. g = [kind |-> m.kind, attr |-> m.attr, op |-> m.op, val |-> v,
               widget |-> m.widget, type |-> m.type, kids |-> m.kids]
      BY <1>2, <2>1
    <2>3. g.kind = m.kind /\ g.kids = m.kids /\ g.type = m.type
      BY <2>2
    <2>4. g = [kind |-> g.kind, attr |-> g.attr, op |-> g.op, val |-> g.val,
               widget |-> g.widget, type |-> g.type, kids |-> g.kids]
      BY <2>2
    <2>5. IsNode("element", g)
      BY <1>1, <2>3, <2>4 DEF IsNode, IsElement
    <2> QED BY <1>1, <2>1, <2>3, <2>5, TreeOf
  <1>5. IsTree("element", [m EXCEPT !.op = v])
    <2>1. PICK g : g = [m EXCEPT !.op = v]
      OBVIOUS
    <2>2. g = [kind |-> m.kind, attr |-> m.attr, op |-> v, val |-> m.val,
               widget |-> m.widget, type |-> m.type, kids |-> m.kids]
      BY <1>2, <2>1
    <2>3. g.kind = m.kind /\ g.kids = m.kids /\ g.type = m.type
      BY <2>2
    <2>4. g = [kind |-> g.kind, attr |-> g.attr, op |-> g.op, val |-> g.val,
               widget |-> g.widget, type |-> g.type, kids |-> g.kids]
      BY <2>2
    <2>5. IsNode("element", g)
      BY <1>1, <2>3, <2>4 DEF IsNode, IsElement
    <2> QED BY <1>1, <2>1, <2>3, <2>5, TreeOf
  <1> QED BY <1>3, <1>4, <1>5

(* What is not at or beneath the element that is put keeps its kind and the number *)
(* of its children.                                                          *)
Alike(n, m, r) ==
    /\ r \in PathsOf(m)
    /\ At(m, r).kind = At(n, r).kind
    /\ DOMAIN At(m, r).kids = DOMAIN At(n, r).kids

(* A path that passes another's first step goes on as the rest does.         *)
LEMMA PrefixCons ==
    ASSUME NEW i \in Nat, NEW p \in Seq(Nat), NEW r \in Seq(Nat)
    PROVE  /\ IsPrefix(<<>>, r)
           /\ IsPrefix(p, r) => IsPrefix(Cons(i, p), Cons(i, r))
  <1>1. IsPrefix(<<>>, r)
    <2>1. SubSeq(<<>>, 1, 0) = <<>> /\ SubSeq(r, 1, 0) = <<>> /\ Len(<<>>) = 0 /\ 0 <= Len(r)
      OBVIOUS
    <2> QED BY <2>1 DEF IsPrefix
  <1>2. ASSUME IsPrefix(p, r) PROVE IsPrefix(Cons(i, p), Cons(i, r))
    <2>1. PICK x : x = <<i>> \o p
      OBVIOUS
    <2>2. PICK y : y = <<i>> \o r
      OBVIOUS
    <2>3. /\ x \in Seq(Nat) /\ Len(x) = Len(p) + 1 /\ Len(p) \in Nat /\ x[1] = i
          /\ \A k \in 2..(Len(p) + 1) : x[k] = p[k - 1]
      BY <2>1
    <2>4. /\ y \in Seq(Nat) /\ Len(y) = Len(r) + 1 /\ Len(r) \in Nat /\ y[1] = i
          /\ \A k \in 2..(Len(r) + 1) : y[k] = r[k - 1]
      BY <2>2
    <2>5. Len(p) <= Len(r) /\ SubSeq(p, 1, Len(p)) = SubSeq(r, 1, Len(p))
      BY <1>2 DEF IsPrefix
    <2>6. ASSUME NEW k \in 1..Len(p) PROVE p[k] = r[k]
      <3>1. SubSeq(p, 1, Len(p))[k] = p[k] /\ SubSeq(r, 1, Len(p))[k] = r[k]
        BY <2>3, <2>4, <2>5
      <3> QED BY <2>5, <3>1
    <2>7. ASSUME NEW k \in 1..Len(x) PROVE x[k] = y[k]
      <3>1. CASE k = 1
        BY <2>3, <2>4, <3>1
      <3>2. CASE k # 1
        <4>1. k \in 2..(Len(p) + 1) /\ k \in 2..(Len(r) + 1) /\ k - 1 \in 1..Len(p)
          BY <2>3, <2>4, <2>5, <3>2
        <4> QED BY <2>3, <2>4, <2>6, <4>1
      <3> QED BY <3>1, <3>2
    <2>8. SubSeq(x, 1, Len(x)) = SubSeq(y, 1, Len(x))
      BY <2>3, <2>4, <2>5, <2>7
    <2>9. Len(x) <= Len(y)
      BY <2>3, <2>4, <2>5
    <2> QED BY <2>1, <2>2, <2>8, <2>9 DEF IsPrefix, Cons
  <1> QED BY <1>1, <1>2

(* The element at a path is found in the child its first step names.         *)
LEMMA AtCons ==
    ASSUME NEW n, NEW i \in Nat, NEW p \in Seq(Nat)
    PROVE  /\ At(n, Cons(i, p)) = At(n.kids[i], p)
           /\ Cons(i, p) \in PathsOf(n) <=> i \in DOMAIN n.kids /\ p \in PathsOf(n.kids[i])
  BY AtWithin, PathWithin DEF Cons

(* An element put anywhere leaves a place it is not above as it was.         *)
LEMMA PutAlike ==
    ASSUME NEW n, IsTree("element", n), NEW p \in PathsOf(n), NEW r \in PathsOf(n),
           ~IsPrefix(p, r), NEW new, IsTree("element", new)
    PROVE  Alike(n, Put(n, p, new), r)
  <1>0. PICK N \in Nat : Deep(n, N)
    BY DEF IsTree
  <1> DEFINE A == {s \in PathsOf(n) :
                      \A x \in PathsOf(At(n, s)), y \in PathsOf(At(n, s)) :
                          ~IsPrefix(x, y) => Alike(At(n, s), Put(At(n, s), x, new), y)}
  <1>1. ASSUME NEW s \in PathsOf(n), \A i \in DOMAIN At(n, s).kids : Append(s, i) \in A
        PROVE  s \in A
    <2>1. PICK m : m = At(n, s)
      OBVIOUS
    <2>2. IsTree("element", m)
      BY <2>1, TreeAt
    <2>3. ASSUME NEW x \in PathsOf(m), NEW y \in PathsOf(m), ~IsPrefix(x, y)
          PROVE  Alike(m, Put(m, x, new), y)
      <3>0. x \in Seq(Nat) /\ y \in Seq(Nat)
        BY DEF PathsOf
      <3>1. x # <<>>
        BY <2>3, <3>0, PrefixCons
      <3>2. PICK i \in DOMAIN m.kids : \E u \in PathsOf(m.kids[i]) :
                i \in Nat /\ u \in Seq(Nat) /\ x = Cons(i, u)
        BY <3>1, PathFirst
      <3>3. PICK u \in PathsOf(m.kids[i]) : i \in Nat /\ u \in Seq(Nat) /\ x = Cons(i, u)
        BY <3>2
      <3>4. PICK e : e = Put(m.kids[i], u, new)
        OBVIOUS
      <3>5. IsTree("element", e)
        BY <2>2, <3>3, <3>4, TreeKids, PutTree
      <3>6. PICK g : g = Within(m, i, e)
        OBVIOUS
      <3>7. Put(m, x, new) = g
        BY <3>3, <3>4, <3>6, PutWithin
      <3>8. g.kind = m.kind /\ g.kids = [m.kids EXCEPT ![i] = e]
        BY <2>2, <3>5, <3>6, ChildPut
      <3>9. DOMAIN g.kids = DOMAIN m.kids /\ g.kids[i] = e
            /\ \A j \in DOMAIN m.kids : j # i => g.kids[j] = m.kids[j]
        BY <3>8
      <3>10. CASE y = <<>>
        <4>1. At(g, y) = g /\ At(m, y) = m /\ y \in PathsOf(g)
          BY <3>10, AtRoot, PathRoot
        <4> QED BY <3>7, <3>8, <3>9, <4>1 DEF Alike
      <3>11. CASE y # <<>>
        <4>1. PICK j \in DOMAIN m.kids : \E w \in PathsOf(m.kids[j]) :
                  j \in Nat /\ w \in Seq(Nat) /\ y = Cons(j, w)
          BY <3>11, PathFirst
        <4>2. PICK w \in PathsOf(m.kids[j]) : j \in Nat /\ w \in Seq(Nat) /\ y = Cons(j, w)
          BY <4>1
        <4>3. At(m, y) = At(m.kids[j], w) /\ At(g, y) = At(g.kids[j], w)
              /\ (y \in PathsOf(g) <=> j \in DOMAIN g.kids /\ w \in PathsOf(g.kids[j]))
          BY <4>2, AtCons
        <4>4. CASE j # i
          <5>1. g.kids[j] = m.kids[j]
            BY <3>9, <4>4
          <5> QED BY <3>7, <3>9, <4>2, <4>3, <5>1 DEF Alike
        <4>5. CASE j = i
          <5>1. ~IsPrefix(u, w)
            BY <2>3, <3>3, <4>2, <4>5, PrefixCons
          <5>2. At(n, Append(s, i)) = m.kids[i] /\ Append(s, i) \in A
            BY <1>1, <2>1, <3>3, AtRest
          <5>3. Alike(m.kids[i], e, w)
            BY <3>3, <3>4, <4>2, <4>5, <5>1, <5>2
          <5>4. g.kids[j] = e /\ j \in DOMAIN g.kids
            BY <3>9, <4>5
          <5> QED BY <3>7, <4>3, <4>5, <5>3, <5>4 DEF Alike
        <4> QED BY <4>4, <4>5
      <3> QED BY <3>10, <3>11
    <2> QED BY <2>1, <2>3
  <1>2. PathsOf(n) \subseteq A
    <2> HIDE DEF A
    <2> QED BY <1>0, <1>1, Subtrees
  <1>3. <<>> \in PathsOf(n) /\ At(n, <<>>) = n
    BY PathRoot, AtRoot
  <1>4. <<>> \in A
    <2> HIDE DEF A
    <2> QED BY <1>2, <1>3
  <1> QED BY <1>3, <1>4

(* An element more among the children.                                       *)
LEMMA InsertTree ==
    ASSUME NEW m, IsTree("element", m), m.kind # "row", NEW e, IsTree("element", e),
           NEW k \in 1..(Len(m.kids) + 1)
    PROVE  IsTree("element", [m EXCEPT !.kids = InsertAt(m.kids, k, e)])
  <1>1. IsKids(m.kids)
    BY TreeKids DEF IsNode
  <1>2. PICK t : t = m.kids
    OBVIOUS
  <1>3. Len(t) \in Nat /\ t \in Seq({t[i] : i \in DOMAIN t})
    BY <1>1, <1>2, KidsAre
  <1>4. PICK Z : Z = {t[i] : i \in DOMAIN t} \union {e}
    OBVIOUS
  <1>5. \A z \in Z : IsTree("element", z)
    BY <1>2, <1>4, TreeKids
  <1>6. t \in Seq(Z) /\ e \in Z
    <2>2. \A i \in DOMAIN t : t[i] \in Z
      BY <1>4
    <2>3. PICK j \in Nat : t \in [1..j -> {t[i] : i \in DOMAIN t}]
      BY <1>3
    <2>4. t \in [1..j -> Z]
      BY <2>2, <2>3
    <2> QED BY <1>4, <2>4
  <1>7. PICK s : s = InsertAt(t, k, e)
    OBVIOUS
  <1>8. s \in Seq(Z)
    <2>1. PICK a : a = SubSeq(t, 1, k - 1)
      OBVIOUS
    <2>2. PICK b : b = SubSeq(t, k, Len(t))
      OBVIOUS
    <2>3. a \in Seq(Z) /\ b \in Seq(Z)
      BY <1>2, <1>3, <1>6, <2>1, <2>2
    <2>4. PICK c : c = <<e>>
      OBVIOUS
    <2>5. c \in Seq(Z)
      BY <1>6, <2>4
    <2>6. a \o c \in Seq(Z)
      BY <2>3, <2>5, ConcatProperties
    <2>7. a \o c \o b \in Seq(Z)
      BY <2>3, <2>6, ConcatProperties
    <2> QED BY <1>7, <2>1, <2>2, <2>4, <2>7 DEF InsertAt
  <1>9. IsKids(s)
    BY <1>8, AreKids
  <1>10. \A i \in DOMAIN s : IsTree("element", s[i])
    <2>1. \A i \in DOMAIN s : s[i] \in Z
      BY <1>8
    <2> QED BY <1>5, <2>1
  <1> QED BY <1>2, <1>7, <1>9, <1>10, Regrouped

(* Drag and drop.                                                            *)
LEMMA MovedTree ==
    ASSUME NEW n, IsTree("element", n), NEW p \in PathsOf(n), NEW q \in PathsOf(n), MayDrop(p, q),
           NEW before
    PROVE  IsTree("element", Moved(n, p, q, before))
  <1>0. p # <<>> /\ q # <<>> /\ ~IsPrefix(p, q)
    BY DEF MayDrop
  <1>1. PICK r \in PathsOf(n), i \in Nat : q = Append(r, i) /\ i \in DOMAIN At(n, r).kids
    BY <1>0, PathParent
  <1>2. p \in Seq(Nat) /\ r \in Seq(Nat)
    BY DEF PathsOf
  <1>3. Front(q) = r /\ Last(q) = i
    BY <1>1, <1>2 DEF Front, Last
  <1>4. ~IsPrefix(p, r)
    <2>1. SUFFICES ASSUME IsPrefix(p, r) PROVE IsPrefix(p, q)
      BY <1>0
    <2>2. Len(p) <= Len(r) /\ SubSeq(p, 1, Len(p)) = SubSeq(r, 1, Len(p))
      BY <2>1 DEF IsPrefix
    <2>3. Len(p) \in Nat /\ Len(r) \in Nat /\ Len(q) = Len(r) + 1 /\ q \in Seq(Nat)
          /\ \A k \in 1..Len(r) : q[k] = r[k]
      BY <1>1, <1>2
    <2>4. SubSeq(r, 1, Len(p)) = SubSeq(q, 1, Len(p))
      BY <1>2, <2>2, <2>3
    <2>5. Len(p) <= Len(q)
      BY <2>2, <2>3
    <2> QED BY <2>2, <2>4, <2>5 DEF IsPrefix
  <1>5. PICK hole : hole = Put(n, p, Gap)
    OBVIOUS
  <1>6. IsTree("element", hole)
    BY <1>5, GapTree, PutTree
  <1>7. Alike(n, hole, r)
    BY <1>4, <1>5, GapTree, PutAlike
  <1>8. PICK h : h = At(hole, r)
    OBVIOUS
  <1>9. IsTree("element", h) /\ r \in PathsOf(hole) /\ i \in DOMAIN h.kids
    BY <1>1, <1>6, <1>7, <1>8, TreeAt DEF Alike
  <1>10. h.kind # "row" /\ IsKids(h.kids) /\ IsElement(h)
    <2>1. IsElement(h) /\ IsKids(h.kids)
      BY <1>9, TreeKids DEF IsNode
    <2>2. DOMAIN <<>> = {}
      OBVIOUS
    <2> QED BY <1>9, <2>1, <2>2 DEF IsElement
  <1>11. PICK k : k = IF before THEN i ELSE i + 1
    OBVIOUS
  <1>12. k \in 1..(Len(h.kids) + 1)
    <2>1. Len(h.kids) \in Nat /\ DOMAIN h.kids = 1..Len(h.kids)
      BY <1>10, KidsAre
    <2>2. i \in 1..Len(h.kids) /\ i + 1 \in 1..(Len(h.kids) + 1) /\ i \in 1..(Len(h.kids) + 1)
      BY <1>9, <2>1
    <2> QED BY <1>11, <2>2
  <1>13. PICK e : e = At(n, p)
    OBVIOUS
  <1>14. IsTree("element", e)
    BY <1>13, TreeAt
  <1>15. PICK g : g = [h EXCEPT !.kids = InsertAt(h.kids, k, e)]
    OBVIOUS
  <1>16. IsTree("element", g)
    BY <1>9, <1>10, <1>12, <1>14, <1>15, InsertTree
  <1>17. IsTree("element", Swept(Put(hole, r, g)))
    BY <1>6, <1>9, <1>16, PutTree, SweptTree
  <1>18. g = [At(hole, r) EXCEPT !.kids = InsertAt(@, k, At(n, p))]
    BY <1>8, <1>10, <1>13, <1>15 DEF IsElement
  <1>19. Moved(n, p, q, before) = Swept(Put(hole, r, g))
    BY <1>3, <1>5, <1>11, <1>18 DEF Moved
  <1> QED BY <1>17, <1>19

----------------------------------------------------------------------------
(* The conditions of ISE are trees, and an edited tree is one.               *)

(* The conditions of ISE are trees.                                          *)
Levels(n, f) == f = [k \in 0..n |-> Nodes(IF k = 0 THEN {<<>>} ELSE Seq(f[k - 1]))]

(* The levels of conditions exist.                                           *)
LEMMA LevelsExist ==
    ASSUME NEW n \in Nat
    PROVE  \E f : Levels(n, f)
  <1> DEFINE Kids(k, f) == IF k = 0 THEN {<<>>} ELSE Seq(f[k - 1])
             A == {k \in Nat : \E f : f = [j \in 0..k |-> Nodes(Kids(j, f))]}
  <1>1. 0 \in A
    <2>1. PICK f : f = [j \in 0..0 |-> Nodes({<<>>})]
      OBVIOUS
    <2>2. \A j \in 0..0 : Kids(j, f) = {<<>>}
      OBVIOUS
    <2>3. f = [j \in 0..0 |-> Nodes(Kids(j, f))]
      <3> HIDE DEF Kids
      <3> QED BY <2>1, <2>2
    <2> QED BY <2>3
  <1>2. ASSUME NEW k \in Nat, k \in A PROVE k + 1 \in A
    <2>1. PICK f : f = [j \in 0..k |-> Nodes(Kids(j, f))]
      BY <1>2
    <2>2. PICK g : g = [j \in 0..(k + 1) |-> IF j <= k THEN f[j] ELSE Nodes(Kids(j, f))]
      OBVIOUS
    <2>3. ASSUME NEW j \in 0..(k + 1) PROVE g[j] = Nodes(Kids(j, g))
      <3>1. Kids(j, g) = Kids(j, f)
        <4>1. CASE j = 0
          BY <4>1
        <4>2. CASE j # 0
          <5>1. j - 1 \in 0..(k + 1) /\ j - 1 <= k
            BY <4>2
          <5>2. g[j - 1] = f[j - 1]
            <6> HIDE DEF Kids
            <6> QED BY <2>2, <5>1
          <5> QED BY <5>2
        <4> QED BY <4>1, <4>2
      <3>2. CASE j <= k
        <4>1. j \in 0..k
          BY <3>2
        <4>2. g[j] = f[j] /\ f[j] = Nodes(Kids(j, f))
          <5> HIDE DEF Kids
          <5> QED BY <2>1, <2>2, <3>2, <4>1
        <4> HIDE DEF Kids
        <4> QED BY <3>1, <4>2
      <3>3. CASE ~(j <= k)
        <4> HIDE DEF Kids
        <4> QED BY <2>2, <3>1, <3>3
      <3> QED BY <3>2, <3>3
    <2>4. g = [j \in 0..(k + 1) |-> Nodes(Kids(j, g))]
      <3> HIDE DEF Kids
      <3> QED BY <2>2, <2>3
    <2>5. k + 1 \in Nat
      OBVIOUS
    <2> HIDE DEF Kids
    <2> QED BY <2>4, <2>5
  <1>3. Nat \subseteq A
    <2> HIDE DEF A
    <2> QED BY <1>1, <1>2, NaturalsIn
  <1>4. \E f : f = [j \in 0..n |-> Nodes(Kids(j, f))]
    <2> HIDE DEF Kids
    <2> QED BY <1>3
  <1> QED BY <1>4 DEF Levels

(* A condition of any depth is a tree.                                       *)
LEMMA ConditionTree ==
    ASSUME NEW n \in Nat, NEW c \in Condition(n)
    PROVE  IsTree("condition", c)
  <1>1. PICK f : f = CHOOSE g : Levels(n, g)
    OBVIOUS
  <1>2. Levels(n, f)
    BY <1>1, LevelsExist
  <1>3. Condition(n) = f[n]
    BY <1>1 DEF Condition, Levels
  <1>4. ASSUME NEW kids, \A s \in kids : IsKids(s) /\ \A i \in DOMAIN s : IsTree("condition", s[i]),
               NEW d \in Nodes(kids)
        PROVE  IsTree("condition", d)
    <2>1. d.kids \in kids /\ d.kind \in {"attr", "ref", "and", "or"} /\ d.neg \in BOOLEAN
      BY DEF Nodes
    <2>2. IsNode("condition", d)
      BY <1>4, <2>1 DEF IsNode, IsPart
    <2> QED BY <1>4, <2>1, <2>2, TreeOf
  <1> DEFINE A == {k \in 0..n : \A d \in f[k] : IsTree("condition", d)}
  <1>5. 0 \in A
    <2>1. f[0] = Nodes({<<>>}) /\ 0 \in 0..n
      BY <1>2 DEF Levels
    <2>2. DOMAIN <<>> = {}
      OBVIOUS
    <2>3. \A s \in {<<>>} : IsKids(s) /\ \A i \in DOMAIN s : IsTree("condition", s[i])
      BY <2>2, NoKids
    <2>4. \A d \in Nodes({<<>>}) : IsTree("condition", d)
      BY <1>4, <2>3
    <2> QED BY <2>1, <2>4
  <1>6. ASSUME NEW k \in 0..(n - 1), k \in A PROVE k + 1 \in A
    <2>1. k + 1 \in 0..n /\ k + 1 # 0 /\ (k + 1) - 1 = k
      OBVIOUS
    <2>2. f[k + 1] = Nodes(Seq(f[k]))
      BY <1>2, <2>1 DEF Levels
    <2>3. ASSUME NEW s \in Seq(f[k])
          PROVE  IsKids(s) /\ \A i \in DOMAIN s : IsTree("condition", s[i])
      <3>1. \A i \in DOMAIN s : s[i] \in f[k]
        OBVIOUS
      <3> QED BY <1>6, <3>1, AreKids
    <2>4. \A d \in Nodes(Seq(f[k])) : IsTree("condition", d)
      BY <1>4, <2>3
    <2> QED BY <2>1, <2>2, <2>4
  <1>7. 0..n \subseteq A
    <2> HIDE DEF A
    <2> QED BY <1>5, <1>6, UpTo
  <1>8. n \in A
    <2>1. n \in 0..n
      OBVIOUS
    <2> HIDE DEF A
    <2> QED BY <1>7, <2>1
  <1> QED BY <1>3, <1>8

(* So is what the editor reads.                                              *)
LEMMA WrittenTree ==
    ASSUME NEW c, IsTree("written", c)
    PROVE  IsTree("condition", c)
  BY DEF IsTree, IsNode

(* So is the reference a condition without any stands for.                   *)
LEMMA ReferenceTree == IsTree("condition", Reference)
  <1> PICK c : c = Reference
    OBVIOUS
  <1>1. c.kind = "ref" /\ c.neg = FALSE /\ c.kids = <<>>
    BY DEF Reference, Block
  <1>2. IsNode("condition", c)
    BY <1>1, NoKids DEF IsNode, IsPart
  <1>3. DOMAIN <<>> = {}
    OBVIOUS
  <1>4. \A i \in DOMAIN c.kids : IsTree("condition", c.kids[i])
    BY <1>1, <1>3
  <1> QED BY <1>2, <1>4, TreeOf

(* Whatever is edited, it stays a tree.                                      *)
LEMMA EditedTree ==
    ASSUME NEW g, panel.tree = <<g>>, IsTree("element", g), EditCondition
    PROVE  \E t : IsTree("element", t) /\ panel' = [panel EXCEPT !.tree = <<t>>, !.touched = TRUE]
  <1>0. panel.tree[1] = g
    OBVIOUS
  <1>1. Paths(g) = PathsOf(g)
    BY PathsAre
  <1>2. ASSUME NEW p \in GroupPaths(g)
        PROVE  p \in PathsOf(g) /\ At(g, p).kind = "group" /\ IsTree("element", At(g, p))
    BY <1>1, TreeAt DEF GroupPaths
  <1>3. ASSUME NEW t, IsTree("element", t), Edited(t)
        PROVE  \E x : IsTree("element", x) /\ panel' = [panel EXCEPT !.tree = <<x>>, !.touched = TRUE]
    BY <1>3 DEF Edited
  <1>4. IsTree("element", NewRow(lists)) /\ IsTree("element", NewGroup(lists))
    BY RowOfTree, ReferenceTree, GroupOfTree DEF NewRow, NewGroup
  <1>5. CASE \E p \in GroupPaths(g) :
               \/ Edited(Appended(g, p, NewRow(lists)))
               \/ Edited(Appended(g, p, NewGroup(lists)))
               \/ \E t \in {"AND", "OR"} : Edited(Put(g, p, [At(g, p) EXCEPT !.type = t]))
    <2>1. PICK p \in GroupPaths(g) :
               \/ Edited(Appended(g, p, NewRow(lists)))
               \/ Edited(Appended(g, p, NewGroup(lists)))
               \/ \E t \in {"AND", "OR"} : Edited(Put(g, p, [At(g, p) EXCEPT !.type = t]))
      BY <1>5
    <2>2. p \in PathsOf(g) /\ At(g, p).kind = "group" /\ IsTree("element", At(g, p))
      BY <1>2
    <2>3. CASE Edited(Appended(g, p, NewRow(lists)))
      BY <1>3, <1>4, <2>2, <2>3, AppendedTree
    <2>4. CASE Edited(Appended(g, p, NewGroup(lists)))
      BY <1>3, <1>4, <2>2, <2>4, AppendedTree
    <2>5. CASE \E t \in {"AND", "OR"} : Edited(Put(g, p, [At(g, p) EXCEPT !.type = t]))
      <3>1. PICK t \in {"AND", "OR"} : Edited(Put(g, p, [At(g, p) EXCEPT !.type = t]))
        BY <2>5
      <3>2. PICK e : e = [At(g, p) EXCEPT !.type = t]
        OBVIOUS
      <3>3. IsTree("element", e)
        BY <2>2, <3>2, FieldTree
      <3>4. IsTree("element", Put(g, p, e))
        BY <2>2, <3>3, PutTree
      <3> QED BY <1>3, <3>1, <3>2, <3>4
    <2> QED BY <2>1, <2>3, <2>4, <2>5
  <1>6. CASE \E p \in Paths(g) \ {<<>>} :
               \/ Edited(Removed(g, p))
               \/ \E q \in Paths(g), b \in BOOLEAN : MayDrop(p, q) /\ Edited(Moved(g, p, q, b))
    <2>1. PICK p \in PathsOf(g) :
               \/ Edited(Removed(g, p))
               \/ \E q \in Paths(g), b \in BOOLEAN : MayDrop(p, q) /\ Edited(Moved(g, p, q, b))
      BY <1>1, <1>6
    <2>2. CASE Edited(Removed(g, p))
      BY <1>3, <2>2, RemovedTree
    <2>3. CASE \E q \in Paths(g), b \in BOOLEAN : MayDrop(p, q) /\ Edited(Moved(g, p, q, b))
      <3>1. PICK q \in PathsOf(g), b \in BOOLEAN : MayDrop(p, q) /\ Edited(Moved(g, p, q, b))
        BY <1>1, <2>3
      <3>2. IsTree("element", Moved(g, p, q, b))
        BY <3>1, MovedTree
      <3> QED BY <1>3, <3>1, <3>2
    <2> QED BY <2>1, <2>2, <2>3
  <1>7. CASE \E p \in RowPaths(g) :
               LET row == At(g, p)
               IN \/ \E v \in Offered(row) : Edited(Put(g, p, ValueChosen(row, v)))
                  \/ \E a \in Editable \ {row.attr} : Edited(Put(g, p, AttrChosen(row, a, lists)))
                  \/ \E o \in ListedOps : Edited(Put(g, p, [row EXCEPT !.op = o]))
    <2>1. PICK p \in PathsOf(g) : \E e : IsTree("element", e) /\ Edited(Put(g, p, e))
      <3>1. PICK p \in RowPaths(g) :
                 \/ \E v \in Offered(At(g, p)) : Edited(Put(g, p, ValueChosen(At(g, p), v)))
                 \/ \E a \in Editable \ {At(g, p).attr} : Edited(Put(g, p, AttrChosen(At(g, p), a, lists)))
                 \/ \E o \in ListedOps : Edited(Put(g, p, [At(g, p) EXCEPT !.op = o]))
        BY <1>7
      <3>2. p \in PathsOf(g)
        BY <1>1 DEF RowPaths
      <3>3. PICK row : row = At(g, p)
        OBVIOUS
      <3>4. IsTree("element", row)
        BY <3>2, <3>3, TreeAt
      <3>5. \A v : IsTree("element", ValueChosen(row, v))
        BY <3>4, FieldTree DEF ValueChosen
      <3>6. \A a : IsTree("element", AttrChosen(row, a, lists))
        BY RowTree DEF AttrChosen
      <3>7. \A o : IsTree("element", [row EXCEPT !.op = o])
        BY <3>4, FieldTree
      <3> QED BY <3>1, <3>2, <3>3, <3>5, <3>6, <3>7
    <2>2. PICK e : IsTree("element", e) /\ Edited(Put(g, p, e))
      BY <2>1
    <2>3. IsTree("element", Put(g, p, e))
      BY <2>2, PutTree
    <2> QED BY <1>3, <2>2, <2>3
  <1> QED BY <1>0, <1>5, <1>6, <1>7 DEF EditCondition

----------------------------------------------------------------------------
(* The policy page: every rule is of the set it is found under.              *)
CallFields == {"n", "kind", "set", "rule", "here"}
PolicyCallOK(c) ==
    /\ DOMAIN c = CallFields
    /\ c.set \in Sets
    /\ c.kind \in Writes => Home(c.rule) = c.set

PanelOK(p) ==
    /\ DOMAIN p = DOMAIN NoPanel
    /\ p.set \subseteq Sets
    /\ p.kind = "detail" \/ ~IsNew(p) => \A s \in p.set : Home(p.rule) = s

CardsOK(c) ==
    /\ DOMAIN c = DOMAIN NoCards
    /\ c.set \subseteq Sets
    /\ \A s \in c.set, r \in c.rules : Home(r) = s

RulesOK(f) == DOMAIN f = Sets /\ \A s \in Sets : \A r \in f[s] : Home(r) = s

PolicyOK ==
    /\ RulesOK(rules)
    /\ sel \subseteq Sets
    /\ CardsOK(cards)
    /\ PanelOK(panel)
    /\ \A c \in out : PolicyCallOK(c)

(* An empty panel and an empty list.                                         *)
LEMMA NothingShown == PanelOK(NoPanel) /\ CardsOK(NoCards)
  BY DEF PanelOK, CardsOK, NoPanel, NoCards, IsNew

(* The policy page opens with neither.                                       *)
LEMMA PolicyStarts == PolicyInit /\ out = {} => PolicyOK
  <1> SUFFICES ASSUME PolicyInit, out = {} PROVE PolicyOK
    OBVIOUS
  <1>1. RulesOK(rules)
    BY DEF PolicyInit, RulesOK, Rule, Home
  <1> QED BY <1>1, NothingShown DEF PolicyInit, PolicyOK

(* A call that starts is for the set it is given, and its rule of that set.  *)
LEMMA CallStarts ==
    ASSUME NEW k, NEW s \in Sets, NEW r, k \in Writes => Home(r) = s
    PROVE  PolicyCallOK(Call(k, s, r)) /\ PolicyCallOK([Call(k, s, r) EXCEPT !.here = FALSE])
  BY DEF PolicyCallOK, Call, CallFields

(* The calls of a panel that is left.                                        *)
LEMMA LeftCalls ==
    ASSUME NEW C, \A c \in C : PolicyCallOK(c)
    PROVE  \A c \in Gone(C) : PolicyCallOK(c)
  BY DEF Gone, PolicyCallOK, CallFields

(* Another panel is shown, and nothing else is changed.                      *)
LEMMA ShownOK ==
    ASSUME NEW p, PanelOK(p), NEW r, NEW C, \A c \in C : PolicyCallOK(c), Show(p, r, C)
    PROVE  PanelOK(panel') /\ \A c \in out' : PolicyCallOK(c)
  BY LeftCalls DEF Show

(* The panel is cleared.                                                     *)
LEMMA ClearedOK ==
    ASSUME NEW C, \A c \in C : PolicyCallOK(c), ClearDetail(C)
    PROVE  PanelOK(panel') /\ \A c \in out' : PolicyCallOK(c)
  BY NothingShown, ShownOK DEF ClearDetail

(* A rule's detail is shown.                                                 *)
LEMMA DetailShown ==
    ASSUME NEW s \in Sets, NEW r, Home(r) = s, NEW C, \A c \in C : PolicyCallOK(c),
           ShowDetail(r, s, C)
    PROVE  PanelOK(panel') /\ \A c \in out' : PolicyCallOK(c)
  <1>1. PanelOK(DetailOf(r, s))
    BY DEF PanelOK, DetailOf, NoPanel
  <1> QED BY <1>1, ShownOK DEF ShowDetail

(* Its editor is.                                                            *)
LEMMA EditorShown ==
    ASSUME NEW s \in Sets, NEW r, r = NoRule \/ Home(r) = s, NEW i,
           NEW C, \A c \in C : PolicyCallOK(c), Show(EditorOf(r, s), i, C)
    PROVE  PanelOK(panel') /\ \A c \in out' : PolicyCallOK(c)
  <1>1. PanelOK(EditorOf(r, s))
    <2> DEFINE t == IF IsDefault(r) THEN <<>>
                    ELSE <<GroupOf(IF r.cond = <<>> THEN Reference ELSE r.cond[1], lists)>>
    <2>1. EditorOf(r, s) = [kind |-> "editor", set |-> {s}, rule |-> r, tree |-> t,
                            profs |-> r.profs, busy |-> FALSE, touched |-> FALSE]
      BY DEF EditorOf
    <2> HIDE DEF t
    <2> QED BY <2>1 DEF PanelOK, NoPanel, IsNew
  <1> QED BY <1>1, ShownOK

(* What ISE has after a write.                                               *)
LEMMA DoneOK ==
    ASSUME RulesOK(rules), NEW c, PolicyCallOK(c), c.kind \in Writes
    PROVE  RulesOK(Done(c))
  <1>1. \A s \in Sets : \A i : \A r \in Without(s, i) : r \in rules[s]
    BY DEF Without
  <1>2. \A s \in Sets : \A r \in Done(c)[s] : r \in rules[s] \/ (s = c.set /\ r = c.rule)
    BY <1>1 DEF Done, RulesOK, PolicyCallOK, Without
  <1>3. DOMAIN Done(c) = Sets
    BY DEF Done, RulesOK
  <1> QED BY <1>2, <1>3 DEF RulesOK, PolicyCallOK

(* A panel whose rule and set stay.                                          *)
LEMMA SamePanel ==
    ASSUME PanelOK(panel),
           \/ panel' = [panel EXCEPT !.busy = TRUE]
           \/ panel' = [panel EXCEPT !.busy = FALSE]
           \/ \E t : panel' = [panel EXCEPT !.tree = t, !.touched = TRUE]
           \/ \E x : panel' = [panel EXCEPT !.profs = x]
    PROVE  PanelOK(panel')
  <1>1. /\ DOMAIN panel' = DOMAIN panel
        /\ panel'.kind = panel.kind /\ panel'.set = panel.set /\ panel'.rule = panel.rule
    BY DEF PanelOK, NoPanel
  <1> QED BY <1>1 DEF PanelOK, IsNew

(* Every step of the policy page keeps this.                                 *)
LEMMA PolicyStep == ASSUME PolicyOK, PolicyNext PROVE PolicyOK'
  <1> USE DEF PolicyOK
  <1>1. ASSUME NEW s \in Sets, SelectSet(s) PROVE PolicyOK'
    <2>1. PolicyCallOK(Call("list", s, NoRule))
      BY CallStarts DEF Writes
    <2>2. PanelOK(panel') /\ \A c \in out' : PolicyCallOK(c)
      BY <1>1, <2>1, ClearedOK DEF SelectSet
    <2> QED BY <1>1, <2>2, NothingShown DEF SelectSet
  <1>2. ASSUME NEW c \in out, RulesAnswer(c) PROVE PolicyOK'
    <2>1. c.set \in Sets /\ \A r \in rules[c.set] : Home(r) = c.set
      BY DEF PolicyCallOK, RulesOK
    <2>2. CardsOK(cards')
      BY <1>2, <2>1 DEF RulesAnswer, CardsOK, NoCards
    <2>3. \A d \in out \ {c} : PolicyCallOK(d)
      OBVIOUS
    <2>4. PanelOK(panel') /\ \A d \in out' : PolicyCallOK(d)
      <3>1. CASE \E r \in rules[c.set] : ShowDetail(r, c.set, out \ {c})
        BY <3>1, <2>1, <2>3, DetailShown
      <3>2. CASE ClearDetail(out \ {c})
        BY <3>2, <2>3, ClearedOK
      <3>3. CASE out' = out \ {c} /\ UNCHANGED panel
        BY <3>3, <2>3
      <3> QED BY <1>2, <3>1, <3>2, <3>3 DEF RulesAnswer
    <2> QED BY <1>2, <2>2, <2>4 DEF RulesAnswer
  <1>3. ASSUME NEW c \in out, RulesFailed(c) PROVE PolicyOK'
    BY <1>3, NothingShown DEF RulesFailed
  <1>4. ASSUME NEW c \in out, WriteAnswer(c) PROVE PolicyOK'
    <2>1. PolicyCallOK(c) /\ c.kind \in Writes
      BY <1>4 DEF WriteAnswer
    <2>2. RulesOK(rules')
      BY <1>4, <2>1, DoneOK DEF WriteAnswer
    <2>3. PolicyCallOK(Reload(c))
      BY <2>1 DEF Reload, PolicyCallOK, CallFields, Writes
    <2>4. PanelOK(panel') /\ \A d \in out' : PolicyCallOK(d)
      <3> DEFINE next == (out \ {c}) \cup {Reload(c)}
      <3>1. \A d \in next : PolicyCallOK(d)
        BY <2>3
      <3>2. CASE ClearDetail(next)
        <4> HIDE DEF next
        <4> QED BY <3>1, <3>2, ClearedOK
      <3>3. CASE out' = next /\ UNCHANGED panel
        BY <3>1, <3>3
      <3> QED BY <1>4, <3>2, <3>3 DEF WriteAnswer
    <2> QED BY <1>4, <2>2, <2>4, NothingShown DEF WriteAnswer
  <1>5. ASSUME NEW c \in out, WriteFailed(c) PROVE PolicyOK'
    <2>1. PolicyCallOK(c) /\ c.kind \in Writes
      BY <1>5 DEF WriteFailed
    <2>2. rules' = rules \/ rules' = Done(c)
      BY <1>5 DEF WriteFailed
    <2>3. RulesOK(rules')
      BY <2>1, <2>2, DoneOK
    <2>4. PanelOK(panel')
      BY <1>5, SamePanel DEF WriteFailed
    <2> QED BY <1>5, <2>3, <2>4 DEF WriteFailed
  <1>6. ASSUME NEW r \in cards.rules, CardClick(r) PROVE PolicyOK'
    <2>1. PanelOK(panel') /\ \A d \in out' : PolicyCallOK(d)
      <3>1. CASE \E s \in cards.set : ShowDetail(r, s, out)
        BY <3>1, DetailShown DEF CardsOK
      <3>2. CASE ClearDetail(out)
        BY <3>2, ClearedOK
      <3>3. CASE UNCHANGED <<panel, rid, out>>
        BY <3>3
      <3> QED BY <1>6, <3>1, <3>2, <3>3 DEF CardClick
    <2>2. CardsOK(cards')
      BY <1>6 DEF CardClick, CardsOK, NoCards
    <2> QED BY <1>6, <2>1, <2>2 DEF CardClick
  <1>7. ASSUME NEW r \in cards.rules, NEW q \in cards.rules, CardDrop(r, q) PROVE PolicyOK'
    <2>1. PICK s \in cards.set : out' = out \cup {[Call("put", s, r) EXCEPT !.here = FALSE]}
      BY <1>7 DEF CardDrop
    <2>2. PolicyCallOK([Call("put", s, r) EXCEPT !.here = FALSE])
      BY CallStarts DEF CardsOK
    <2> QED BY <1>7, <2>1, <2>2 DEF CardDrop
  <1>8. CASE Edit
    <2>1. PICK s \in panel.set : Show(EditorOf(panel.rule, s), {panel.rule.id}, out)
      BY <1>8 DEF Edit
    <2>2. PanelOK(panel') /\ \A d \in out' : PolicyCallOK(d)
      BY <1>8, <2>1, EditorShown DEF Edit, PanelOK
    <2> QED BY <1>8, <2>2 DEF Edit
  <1>9. CASE NewRule
    <2>1. PICK s \in sel : Show(EditorOf(NoRule, s), rid, out)
      BY <1>9 DEF NewRule
    <2>2. PanelOK(panel') /\ \A d \in out' : PolicyCallOK(d)
      BY <2>1, EditorShown
    <2> QED BY <1>9, <2>2 DEF NewRule
  <1>10. CASE Cancel
    <2>1. PanelOK(panel') /\ \A d \in out' : PolicyCallOK(d)
      <3>1. CASE ClearDetail(out)
        BY <3>1, ClearedOK
      <3>2. ASSUME ~IsNew(panel), NEW s \in panel.set, ShowDetail(panel.rule, s, out)
            PROVE  PanelOK(panel') /\ \A d \in out' : PolicyCallOK(d)
        BY <3>2, DetailShown DEF PanelOK
      <3> QED BY <1>10, <3>1, <3>2 DEF Cancel
    <2> QED BY <1>10, <2>1 DEF Cancel
  <1>11. CASE Delete
    <2>1. PICK s \in panel.set : out' = out \cup {Call("del", s, panel.rule)}
      BY <1>11 DEF Delete
    <2>2. PolicyCallOK(Call("del", s, panel.rule))
      BY <1>11, CallStarts DEF Delete, PanelOK
    <2> QED BY <1>11, <2>1, <2>2 DEF Delete
  <1>12. CASE Save
    <2>1. PICK s \in panel.set : \E k \in Writes : \E i :
            /\ i = IF IsNew(panel) THEN <<s, "new">> ELSE panel.rule.id
            /\ out' = out \cup {Call(k, s, [id |-> i, cond |-> ReadCondition, profs |-> panel.profs])}
      BY <1>12 DEF Save, Writes
    <2>2. PICK k \in Writes : \E i :
            /\ i = IF IsNew(panel) THEN <<s, "new">> ELSE panel.rule.id
            /\ out' = out \cup {Call(k, s, [id |-> i, cond |-> ReadCondition, profs |-> panel.profs])}
      BY <2>1
    <2>3. PICK i :
            /\ i = IF IsNew(panel) THEN <<s, "new">> ELSE panel.rule.id
            /\ out' = out \cup {Call(k, s, [id |-> i, cond |-> ReadCondition, profs |-> panel.profs])}
      BY <2>2
    <2>4. i[1] = s
      BY <2>3 DEF PanelOK, Home
    <2>5. PICK r : r = [id |-> i, cond |-> ReadCondition, profs |-> panel.profs]
      OBVIOUS
    <2>6. Home(r) = s
      BY <2>4, <2>5 DEF Home
    <2>7. PolicyCallOK(Call(k, s, r))
      BY <2>6, CallStarts DEF PanelOK
    <2>8. PanelOK(panel')
      BY <1>12, SamePanel DEF Save
    <2> QED BY <1>12, <2>3, <2>5, <2>7, <2>8 DEF Save
  <1>13. CASE ListsArrive
    BY <1>13 DEF ListsArrive
  <1>14. CASE EditCondition
    <2>1. UNCHANGED <<rules, sel, rid, cards, lists, out>>
      BY <1>14 DEF EditCondition
    <2>2. \E t : panel' = [panel EXCEPT !.tree = t, !.touched = TRUE]
      BY <1>14 DEF EditCondition, Edited
    <2>3. PanelOK(panel')
      BY <2>2, SamePanel
    <2> QED BY <2>1, <2>3
  <1>15. CASE EditProfiles
    <2>1. PanelOK(panel')
      BY <1>15, SamePanel DEF EditProfiles
    <2> QED BY <1>15, <2>1 DEF EditProfiles
  <1> QED
    BY <1>1, <1>2, <1>3, <1>4, <1>5, <1>6, <1>7, <1>8, <1>9, <1>10, <1>11, <1>12, <1>13, <1>14, <1>15
       DEF PolicyNext

(* The conditions that are about are trees: of a rule, and of an editor.     *)
RuleCond(r) == r.cond = <<>> \/ (~IsDefault(r) /\ \E c : r.cond = <<c>> /\ IsTree("condition", c))

(* What an editor was opened on.                                             *)
Opened(r) == IF r.cond = <<>> THEN Reference ELSE r.cond[1]
EditorCond(p) ==
    \E g : /\ p.tree = <<g>>
           /\ IsTree("element", g)
           /\ ~p.touched => \E x : g = GroupOf(Opened(p.rule), x)
PanelCond(p) ==
    /\ RuleCond(p.rule)
    /\ IF p.kind = "editor" /\ ~IsDefault(p.rule) THEN EditorCond(p) ELSE p.tree = <<>>

CondsOK ==
    /\ \A s \in Sets : \A r \in rules[s] : RuleCond(r)
    /\ \A r \in cards.rules : RuleCond(r)
    /\ PanelCond(panel)
    /\ \A c \in out : RuleCond(c.rule)

(* The rule of an editor for a new one has no condition.                     *)
LEMMA NoRuleCond == RuleCond(NoRule) /\ NoRule.cond = <<>>
  BY DEF RuleCond, NoRule, Rule

(* Nor has an empty panel.                                                   *)
LEMMA NothingCond == PanelCond(NoPanel) /\ NoCards.rules = {}
  BY NoRuleCond DEF PanelCond, NoPanel, NoCards

(* What an editor is opened on is a tree.                                    *)
LEMMA OpenedTree ==
    ASSUME NEW r, RuleCond(r)
    PROVE  IsTree("condition", Opened(r))
  <1>1. CASE r.cond = <<>>
    BY <1>1, ReferenceTree DEF Opened
  <1>2. ASSUME NEW c, r.cond = <<c>>, IsTree("condition", c) PROVE IsTree("condition", Opened(r))
    <2>1. r.cond # <<>> /\ r.cond[1] = c
      BY <1>2
    <2> QED BY <1>2, <2>1 DEF Opened
  <1> QED BY <1>1, <1>2 DEF RuleCond

(* The conditions of ISE are trees.                                          *)
LEMMA CondsStart == PolicyInit /\ out = {} => CondsOK
  <1> SUFFICES ASSUME PolicyInit, out = {} PROVE CondsOK
    OBVIOUS
  <1>1. PICK c \in Conds :
          rules = [s \in Sets |->
                      {Rule(s, "rule", <<c>>, Profiles), Rule(s, "other", <<c>>, Profiles),
                       Rule(s, "default", <<>>, Profiles)}]
    BY DEF PolicyInit
  <1>2. IsTree("condition", c)
    BY PolicyAssumption, ConditionTree
  <1>3. ASSUME NEW s \in Sets, NEW n, n # "default" PROVE RuleCond(Rule(s, n, <<c>>, Profiles))
    BY <1>2, <1>3 DEF RuleCond, Rule, IsDefault
  <1>4. \A s \in Sets : RuleCond(Rule(s, "default", <<>>, Profiles))
    BY DEF RuleCond, Rule
  <1>5. \A s \in Sets : \A r \in rules[s] : RuleCond(r)
    BY <1>1, <1>3, <1>4
  <1> QED BY <1>5, NothingCond DEF PolicyInit, CondsOK

(* The calls of a panel that is left keep their rules.                       *)
LEMMA LeftConds ==
    ASSUME NEW C, \A c \in C : PolicyCallOK(c) /\ RuleCond(c.rule)
    PROVE  \A c \in Gone(C) : RuleCond(c.rule)
  BY DEF Gone, PolicyCallOK, CallFields

(* Another panel is shown.                                                   *)
LEMMA ShownCond ==
    ASSUME NEW p, PanelCond(p), NEW r, NEW C, \A c \in C : PolicyCallOK(c) /\ RuleCond(c.rule),
           Show(p, r, C)
    PROVE  PanelCond(panel') /\ \A c \in out' : RuleCond(c.rule)
  BY LeftConds DEF Show

(* The panel is cleared.                                                     *)
LEMMA ClearedCond ==
    ASSUME NEW C, \A c \in C : PolicyCallOK(c) /\ RuleCond(c.rule), ClearDetail(C)
    PROVE  PanelCond(panel') /\ \A c \in out' : RuleCond(c.rule)
  BY NothingCond, ShownCond DEF ClearDetail

(* A rule's detail is shown.                                                 *)
LEMMA DetailCond ==
    ASSUME NEW s, NEW r, RuleCond(r), NEW C, \A c \in C : PolicyCallOK(c) /\ RuleCond(c.rule),
           ShowDetail(r, s, C)
    PROVE  PanelCond(panel') /\ \A c \in out' : RuleCond(c.rule)
  <1>1. PanelCond(DetailOf(r, s))
    BY DEF PanelCond, DetailOf, NoPanel
  <1> QED BY <1>1, ShownCond DEF ShowDetail

(* A rule's editor opens on a tree.                                          *)
LEMMA EditorShows ==
    ASSUME NEW s, NEW r, RuleCond(r), NEW i, NEW C,
           \A c \in C : PolicyCallOK(c) /\ RuleCond(c.rule), Show(EditorOf(r, s), i, C)
    PROVE  PanelCond(panel') /\ \A c \in out' : RuleCond(c.rule)
  <1>1. PICK g : g = GroupOf(Opened(r), lists)
    OBVIOUS
  <1>2. IsTree("element", g)
    BY <1>1, OpenedTree, GroupOfIs
  <1>3. PICK t : t = IF IsDefault(r) THEN <<>> ELSE <<g>>
    OBVIOUS
  <1>4. EditorOf(r, s) = [kind |-> "editor", set |-> {s}, rule |-> r, tree |-> t,
                          profs |-> r.profs, busy |-> FALSE, touched |-> FALSE]
    BY <1>1, <1>3 DEF EditorOf, Opened
  <1>5. PICK p : p = EditorOf(r, s)
    OBVIOUS
  <1>6. p.kind = "editor" /\ p.rule = r /\ p.tree = t
    BY <1>4, <1>5
  <1>7. PanelCond(p)
    BY <1>1, <1>2, <1>3, <1>6 DEF PanelCond, EditorCond
  <1> QED BY <1>5, <1>7, ShownCond

(* What ISE has after a write is from a call or was there.                   *)
LEMMA DoneCond ==
    ASSUME \A s \in Sets : \A r \in rules[s] : RuleCond(r), RulesOK(rules),
           NEW c, PolicyCallOK(c), RuleCond(c.rule)
    PROVE  \A s \in Sets : \A r \in Done(c)[s] : RuleCond(r)
  <1>1. \A s \in Sets : \A i : \A r \in Without(s, i) : r \in rules[s]
    BY DEF Without
  <1>2. \A s \in Sets : \A r \in Done(c)[s] : r \in rules[s] \/ r = c.rule
    BY <1>1 DEF Done, RulesOK, PolicyCallOK, Without
  <1> QED BY <1>2

(* A panel whose rule and tree stay.                                         *)
LEMMA SamePanelCond ==
    ASSUME PanelOK(panel), PanelCond(panel),
           \/ panel' = [panel EXCEPT !.busy = TRUE]
           \/ panel' = [panel EXCEPT !.busy = FALSE]
           \/ \E x : panel' = [panel EXCEPT !.profs = x]
    PROVE  PanelCond(panel')
  <1>1. /\ panel'.kind = panel.kind /\ panel'.rule = panel.rule /\ panel'.tree = panel.tree
        /\ panel'.touched = panel.touched
    BY DEF PanelOK, NoPanel
  <1> QED BY <1>1 DEF PanelCond, EditorCond

(* What the editor of a panel reads as.                                      *)
LEMMA CondRead ==
    ASSUME PanelCond(panel), ReadCondition # <<>>
    PROVE  \E g, c : panel.tree = <<g>> /\ ReadCondition = <<c>> /\ ReadsAs(g, c)
  <1>1. EditorCond(panel)
    BY DEF PanelCond, ReadCondition
  <1>2. PICK g : panel.tree = <<g>> /\ IsTree("element", g)
    BY <1>1 DEF EditorCond
  <1>3. panel.tree # <<>> /\ panel.tree[1] = g
    BY <1>2
  <1>4. ReadCondition = ReadGroup(g)
    BY <1>3 DEF ReadCondition
  <1>5. PICK c : ReadsAs(g, c)
    BY <1>2, <1>4, TreeReads DEF Reads
  <1> QED BY <1>2, <1>4, <1>5 DEF ReadsAs

(* A call that starts has the rule it is given.                              *)
LEMMA CallConds ==
    ASSUME NEW k, NEW s, NEW r, RuleCond(r)
    PROVE  RuleCond(Call(k, s, r).rule) /\ RuleCond([Call(k, s, r) EXCEPT !.here = FALSE].rule)
  BY DEF Call

(* Every step keeps the conditions trees, and an untouched editor as it was opened. *)
LEMMA CondsStep == ASSUME PolicyOK, CondsOK, PolicyNext PROVE CondsOK'
  <1> USE DEF CondsOK
  <1>a. \A c \in out : PolicyCallOK(c)
    BY DEF PolicyOK
  <1>1. ASSUME NEW s \in Sets, SelectSet(s) PROVE CondsOK'
    <2>1. PolicyCallOK(Call("list", s, NoRule)) /\ RuleCond(Call("list", s, NoRule).rule)
      BY CallStarts, CallConds, NoRuleCond DEF Writes
    <2>2. PanelCond(panel') /\ \A c \in out' : RuleCond(c.rule)
      BY <1>1, <1>a, <2>1, ClearedCond DEF SelectSet
    <2> QED BY <1>1, <2>2, NothingCond DEF SelectSet
  <1>2. ASSUME NEW c \in out, RulesAnswer(c) PROVE CondsOK'
    <2>1. \A r \in rules[c.set] : RuleCond(r)
      BY <1>a DEF PolicyCallOK
    <2>2. cards'.rules = rules[c.set]
      BY <1>2 DEF RulesAnswer
    <2>3. \A d \in out \ {c} : PolicyCallOK(d) /\ RuleCond(d.rule)
      BY <1>a
    <2>4. PanelCond(panel') /\ \A d \in out' : RuleCond(d.rule)
      <3>1. CASE \E r \in rules[c.set] : ShowDetail(r, c.set, out \ {c})
        BY <3>1, <2>1, <2>3, DetailCond
      <3>2. CASE ClearDetail(out \ {c})
        BY <3>2, <2>3, ClearedCond
      <3>3. CASE out' = out \ {c} /\ UNCHANGED panel
        BY <3>3, <2>3
      <3> QED BY <1>2, <3>1, <3>2, <3>3 DEF RulesAnswer
    <2> QED BY <1>2, <2>1, <2>2, <2>4 DEF RulesAnswer
  <1>3. ASSUME NEW c \in out, RulesFailed(c) PROVE CondsOK'
    BY <1>3, NothingCond DEF RulesFailed
  <1>4. ASSUME NEW c \in out, WriteAnswer(c) PROVE CondsOK'
    <2>1. PolicyCallOK(c) /\ RuleCond(c.rule)
      BY <1>a
    <2>2. \A s \in Sets : \A r \in rules'[s] : RuleCond(r)
      BY <1>4, <2>1, DoneCond DEF WriteAnswer, PolicyOK
    <2>3. PolicyCallOK(Reload(c)) /\ RuleCond(Reload(c).rule)
      BY <2>1, NoRuleCond DEF Reload, PolicyCallOK, CallFields, Writes
    <2>4. PanelCond(panel') /\ \A d \in out' : RuleCond(d.rule)
      <3> DEFINE next == (out \ {c}) \cup {Reload(c)}
      <3>1. \A d \in next : PolicyCallOK(d) /\ RuleCond(d.rule)
        BY <2>3, <1>a
      <3>2. CASE ClearDetail(next)
        <4> HIDE DEF next
        <4> QED BY <3>1, <3>2, ClearedCond
      <3>3. CASE out' = next /\ UNCHANGED panel
        BY <3>1, <3>3
      <3> QED BY <1>4, <3>2, <3>3 DEF WriteAnswer
    <2> QED BY <1>4, <2>2, <2>4, NothingCond DEF WriteAnswer
  <1>5. ASSUME NEW c \in out, WriteFailed(c) PROVE CondsOK'
    <2>1. PolicyCallOK(c) /\ RuleCond(c.rule)
      BY <1>a
    <2>2. rules' = rules \/ rules' = Done(c)
      BY <1>5 DEF WriteFailed
    <2>3. \A s \in Sets : \A r \in rules'[s] : RuleCond(r)
      BY <2>1, <2>2, DoneCond DEF PolicyOK
    <2>4. PanelCond(panel')
      BY <1>5, SamePanelCond DEF WriteFailed, PolicyOK
    <2> QED BY <1>5, <2>3, <2>4 DEF WriteFailed
  <1>6. ASSUME NEW r \in cards.rules, CardClick(r) PROVE CondsOK'
    <2>1. PanelCond(panel') /\ \A d \in out' : RuleCond(d.rule)
      <3>1. CASE \E s \in cards.set : ShowDetail(r, s, out)
        BY <3>1, <1>a, DetailCond
      <3>2. CASE ClearDetail(out)
        BY <3>2, <1>a, ClearedCond
      <3>3. CASE UNCHANGED <<panel, rid, out>>
        BY <3>3
      <3> QED BY <1>6, <3>1, <3>2, <3>3 DEF CardClick
    <2>2. cards'.rules = cards.rules
      BY <1>6 DEF CardClick, PolicyOK, CardsOK, NoCards
    <2> QED BY <1>6, <2>1, <2>2 DEF CardClick
  <1>7. ASSUME NEW r \in cards.rules, NEW q \in cards.rules, CardDrop(r, q) PROVE CondsOK'
    <2>1. PICK s \in cards.set : out' = out \cup {[Call("put", s, r) EXCEPT !.here = FALSE]}
      BY <1>7 DEF CardDrop
    <2>2. RuleCond([Call("put", s, r) EXCEPT !.here = FALSE].rule)
      BY CallConds
    <2> QED BY <1>7, <2>1, <2>2 DEF CardDrop
  <1>b. RuleCond(panel.rule)
    BY DEF PanelCond
  <1>8. CASE Edit
    <2>1. PICK s \in panel.set : Show(EditorOf(panel.rule, s), {panel.rule.id}, out)
      BY <1>8 DEF Edit
    <2>2. PanelCond(panel') /\ \A d \in out' : RuleCond(d.rule)
      BY <1>a, <1>b, <2>1, EditorShows
    <2> QED BY <1>8, <2>2 DEF Edit
  <1>9. CASE NewRule
    <2>1. PICK s \in sel : Show(EditorOf(NoRule, s), rid, out)
      BY <1>9 DEF NewRule
    <2>2. PanelCond(panel') /\ \A d \in out' : RuleCond(d.rule)
      BY <1>a, <2>1, NoRuleCond, EditorShows
    <2> QED BY <1>9, <2>2 DEF NewRule
  <1>10. CASE Cancel
    <2>1. PanelCond(panel') /\ \A d \in out' : RuleCond(d.rule)
      <3>1. CASE ClearDetail(out)
        BY <3>1, <1>a, ClearedCond
      <3>2. ASSUME NEW s \in panel.set, ShowDetail(panel.rule, s, out)
            PROVE  PanelCond(panel') /\ \A d \in out' : RuleCond(d.rule)
        BY <3>2, <1>a, <1>b, DetailCond
      <3> QED BY <1>10, <3>1, <3>2 DEF Cancel
    <2> QED BY <1>10, <2>1 DEF Cancel
  <1>11. CASE Delete
    <2>1. PICK s \in panel.set : out' = out \cup {Call("del", s, panel.rule)}
      BY <1>11 DEF Delete
    <2>2. RuleCond(Call("del", s, panel.rule).rule)
      BY <1>b, CallConds
    <2> QED BY <1>11, <2>1, <2>2 DEF Delete
  <1>12. CASE Save
    <2>1. PICK s \in panel.set : \E k \in Writes : \E i :
            /\ i = IF IsNew(panel) THEN <<s, "new">> ELSE panel.rule.id
            /\ out' = out \cup {Call(k, s, [id |-> i, cond |-> ReadCondition, profs |-> panel.profs])}
      BY <1>12 DEF Save, Writes
    <2>2. PICK k \in Writes : \E i :
            /\ i = IF IsNew(panel) THEN <<s, "new">> ELSE panel.rule.id
            /\ out' = out \cup {Call(k, s, [id |-> i, cond |-> ReadCondition, profs |-> panel.profs])}
      BY <2>1
    <2>3. PICK i :
            /\ i = IF IsNew(panel) THEN <<s, "new">> ELSE panel.rule.id
            /\ out' = out \cup {Call(k, s, [id |-> i, cond |-> ReadCondition, profs |-> panel.profs])}
      BY <2>2
    <2>4. PICK r : r = [id |-> i, cond |-> ReadCondition, profs |-> panel.profs]
      OBVIOUS
    <2>5. RuleCond(r)
      <3>1. SUFFICES ASSUME ReadCondition # <<>> PROVE RuleCond(r)
        BY <2>4 DEF RuleCond
      <3>2. PICK g, c : panel.tree = <<g>> /\ ReadCondition = <<c>> /\ ReadsAs(g, c)
        BY <3>1, CondRead
      <3>3. IsTree("condition", c)
        BY <3>2, WrittenTree DEF ReadsAs
      <3>4. ~IsDefault(panel.rule)
        BY <3>2 DEF PanelCond
      <3>5. <<s, "new">>[2] # "default"
        OBVIOUS
      <3>6. ~IsDefault(r)
        BY <2>3, <2>4, <3>4, <3>5 DEF IsDefault
      <3> QED BY <2>4, <3>2, <3>3, <3>6 DEF RuleCond
    <2>6. RuleCond(Call(k, s, r).rule)
      BY <2>5, CallConds
    <2>7. PanelCond(panel')
      BY <1>12, SamePanelCond DEF Save, PolicyOK
    <2> QED BY <1>12, <2>3, <2>4, <2>6, <2>7 DEF Save
  <1>13. CASE ListsArrive
    BY <1>13 DEF ListsArrive
  <1>14. CASE EditCondition
    <2>1. UNCHANGED <<rules, sel, rid, cards, lists, out>> /\ panel.kind = "editor"
          /\ panel.tree # <<>>
      BY <1>14 DEF EditCondition
    <2>2. EditorCond(panel) /\ ~IsDefault(panel.rule)
      BY <2>1 DEF PanelCond
    <2>3. PICK g : panel.tree = <<g>> /\ IsTree("element", g)
      BY <2>2 DEF EditorCond
    <2>4. PICK t : IsTree("element", t) /\ panel' = [panel EXCEPT !.tree = <<t>>, !.touched = TRUE]
      BY <1>14, <2>3, EditedTree
    <2>5. /\ panel'.kind = panel.kind /\ panel'.rule = panel.rule /\ panel'.tree = <<t>>
          /\ panel'.touched
      BY <2>4 DEF PolicyOK, PanelOK, NoPanel
    <2>6. PanelCond(panel')
      BY <1>b, <2>1, <2>2, <2>4, <2>5 DEF PanelCond, EditorCond
    <2> QED BY <2>1, <2>6
  <1>15. CASE EditProfiles
    <2>1. PanelCond(panel')
      BY <1>15, SamePanelCond DEF EditProfiles, PolicyOK
    <2> QED BY <1>15, <2>1 DEF EditProfiles
  <1> QED
    BY <1>1, <1>2, <1>3, <1>4, <1>5, <1>6, <1>7, <1>8, <1>9, <1>10, <1>11, <1>12, <1>13, <1>14, <1>15
       DEF PolicyNext

(* What such an editor saves means what it shows, and what it was opened on. *)
LEMMA CondsKept == PanelCond(panel) => SavedMeansShown /\ OpenedKeepsMeaning
  <1> SUFFICES ASSUME PanelCond(panel) PROVE SavedMeansShown /\ OpenedKeepsMeaning
    OBVIOUS
  <1>1. SavedMeansShown
    <2>1. ASSUME ReadCondition # <<>>, NEW x
          PROVE  Holds(ReadCondition[1], x) <=> ShownHolds(panel.tree[1], x)
      <3>1. PICK g, c : panel.tree = <<g>> /\ ReadCondition = <<c>> /\ ReadsAs(g, c)
        BY <2>1, CondRead
      <3>2. panel.tree[1] = g /\ ReadCondition[1] = c
        BY <3>1
      <3> QED BY <3>1, <3>2 DEF ReadsAs
    <2> QED BY <2>1 DEF SavedMeansShown
  <1>2. ASSUME ReadCondition # <<>>, Supported(ReadCondition[1])
        PROVE  ReadGroup(GroupOf(ReadCondition[1], lists)) = ReadCondition
    <2>1. PICK g, c : panel.tree = <<g>> /\ ReadCondition = <<c>> /\ ReadsAs(g, c)
      BY <1>2, CondRead
    <2>2. ReadCondition[1] = c
      BY <2>1
    <2>3. IsTree("written", c)
      BY <2>1 DEF ReadsAs
    <2>4. IsTree("showable", c)
      <3>1. PICK k : k = "written"
        OBVIOUS
      <3>2. k # "element" /\ IsTree(k, c)
        BY <2>3, <3>1
      <3> QED BY <1>2, <2>2, <3>2, Showable
    <2>5. ReadGroup(GroupOf(c, lists)) = <<c>>
      BY <2>3, <2>4, GroupOpens
    <2> QED BY <2>1, <2>2, <2>5
  <1>3. ASSUME panel.kind = "editor", ~panel.touched, NEW i \in DOMAIN panel.rule.cond,
               Supported(panel.rule.cond[i])
        PROVE  ReadCondition # <<>> /\ Equivalent(ReadCondition[1], panel.rule.cond[i])
    <2>0. DOMAIN <<>> = {}
      OBVIOUS
    <2>1. PICK c : panel.rule.cond = <<c>> /\ IsTree("condition", c) /\ ~IsDefault(panel.rule)
      BY <1>3, <2>0 DEF PanelCond, RuleCond
    <2>2. panel.rule.cond # <<>> /\ panel.rule.cond[1] = c /\ DOMAIN panel.rule.cond = {1}
      BY <2>1
    <2>3. i = 1 /\ Opened(panel.rule) = c
      BY <1>3, <2>2 DEF Opened
    <2>4. EditorCond(panel)
      BY <1>3, <2>1 DEF PanelCond
    <2>5. PICK g : panel.tree = <<g>> /\ \E x : g = GroupOf(c, x)
      BY <1>3, <2>3, <2>4 DEF EditorCond
    <2>6. PICK x : g = GroupOf(c, x)
      BY <2>5
    <2>7. panel.tree # <<>> /\ panel.tree[1] = g
      BY <2>5
    <2>8. IsTree("showable", c)
      <3>1. PICK k : k = "condition"
        OBVIOUS
      <3>2. k # "element" /\ IsTree(k, c)
        BY <2>1, <3>1
      <3> QED BY <1>3, <2>2, <2>3, <3>2, Showable
    <2>9. PICK d : ReadGroup(GroupOf(c, x)) = <<d>> /\ \A true : Holds(d, true) <=> Holds(c, true)
      BY <2>8, GroupOpens
    <2>10. ReadCondition = <<d>>
      BY <2>6, <2>7, <2>9 DEF ReadCondition
    <2>11. ReadCondition # <<>> /\ ReadCondition[1] = d
      BY <2>10
    <2> QED BY <2>2, <2>3, <2>9, <2>11 DEF Equivalent
  <1>4. OpenedKeepsMeaning
    BY <1>2, <1>3 DEF OpenedKeepsMeaning
  <1> QED BY <1>1, <1>4

----------------------------------------------------------------------------
(* All pages: the invariant of the one that is open.                         *)
IInv ==
    /\ page = "policy" => PolicyOK /\ CondsOK
    /\ page = "settings" => SettingsOK
    /\ page = "update" => UpdateOK
    /\ page = "dacls" => DaclsOK
    /\ page = "templates" => TemplatesOK

(* The administrator's part starts with its invariant.                       *)
LEMMA Starts == Init => IInv
  <1>1. FormsInit /\ page = "policy" => out = {}
    BY DEF FormsInit
  <1> QED
    BY <1>1, PolicyStarts, CondsStart, SettingsStarts, UpdateStarts, DaclsStart, TemplatesStart
       DEF Init, FormsInit, IInv

(* Every step keeps it.                                                      *)
LEMMA Steps == IInv /\ [Next]_vars => IInv'
  <1> SUFFICES ASSUME IInv, [Next]_vars PROVE IInv'
    OBVIOUS
  <1>1. CASE page = "settings" /\ S!SettingsNext /\ page' = page
    BY <1>1, SettingsStep DEF IInv
  <1>2. CASE page = "update" /\ U!UpdateNext /\ page' = page
    BY <1>2, UpdateStep DEF IInv
  <1>3. CASE page = "dacls" /\ D!DaclsNext /\ page' = page
    BY <1>3, DaclsStep DEF IInv
  <1>4. CASE page = "templates" /\ T!TemplatesNext /\ page' = page
    BY <1>4, TemplatesStep DEF IInv
  <1>5. CASE page = "policy" /\ PolicyNext /\ page' = page
    BY <1>5, PolicyStep, CondsStep DEF IInv
  <1>6. CASE UNCHANGED vars
    <2> USE <1>6 DEF vars, policyVars, formVars, settings, update, acls, templates
    <2>1. SettingsOK => SettingsOK'
      BY DEF SettingsOK, S!SavedStays, S!MayUndo, Agrees
    <2>2. UpdateOK => UpdateOK'
      BY DEF UpdateOK, Busy, U!AppliesFit, U!PullAlone
    <2>3. DaclsOK => DaclsOK'
      BY DEF DaclsOK, D!JustSaved, D!DaclAsShown
    <2>4. TemplatesOK => TemplatesOK'
      BY DEF TemplatesOK
    <2>5. PolicyOK => PolicyOK'
      BY DEF PolicyOK
    <2>6. CondsOK => CondsOK'
      BY DEF CondsOK
    <2> QED BY <2>1, <2>2, <2>3, <2>4, <2>5, <2>6 DEF IInv
  <1> QED BY <1>1, <1>2, <1>3, <1>4, <1>5, <1>6 DEF Next, FormsNext

(* So it always holds.                                                       *)
LEMMA Invariant == Spec => []IInv
  BY Starts, Steps, PTL DEF Spec

(* On the policy page, a rule is saved, moved and deleted in the set it      *)
(* belongs to (policy.js:246-517), for any sets, rules and conditions and    *)
(* any number of calls under way, whichever answers come late.               *)
THEOREM RulesStayInTheirSet == Spec => []RulesOwnSet
  <1>1. IInv => RulesOwnSet
    BY DEF IInv, PolicyOK, PolicyCallOK, RulesOwnSet, RuleOwnSet
  <1> QED BY <1>1, Invariant, PTL

(* The condition editor keeps what a rule means: what it saves means what    *)
(* its groups and rows say, a condition it has widgets for is saved,         *)
(* untouched, with the meaning it had, and what it wrote once it opens and   *)
(* reads as the same (policy-condition-builder.js:241 and 472-509), for      *)
(* conditions of any breadth and depth and any sequence of edits.            *)
THEOREM ConditionsAreKept == Spec => []ConditionsKept
  <1>1. IInv => ConditionsKept
    BY CondsKept DEF IInv, CondsOK, ConditionsKept
  <1> QED BY <1>1, Invariant, PTL

(* What was saved of a section of the settings is what the server has, until *)
(* the section is saved again, the ISE connection or the cache is, which     *)
(* reset it (section-backend.js:105, section-cache.js:248), or a save is     *)
(* stored that read the settings before (section-update.js:304-324 and       *)
(* 587-624): nothing else loses it, for any number of saves under way.       *)
THEOREM SavesAreKept == Spec => []SavedStays
  <1>1. IInv => SavedStays
    BY DEF IInv, SettingsOK, SavedStays
  <1> QED BY <1>1, Invariant, PTL

(* No package is applied that the server refused, and no pull meets another  *)
(* or a check (section-update.js:46-147 and 380-446), for any packages.      *)
THEOREM UpdatesAreFit == Spec => []UpdatesFit
  <1>1. IInv => UpdatesFit
    BY DEF IInv, UpdateOK, UpdatesFit
  <1> QED BY <1>1, Invariant, PTL

(* The editor of ACLs saves to, and deletes, the one it shows or, while the  *)
(* list is fetched after a save, the one that was saved (dacls.js:205-252),  *)
(* and no other; the form of templates is all of the one template it is      *)
(* saved to (section-templates.js:86-122 and 219-250): for any number of     *)
(* them, and whatever is opened, typed or refreshed meanwhile.               *)
THEOREM EditorsSaveTheirOwn == Spec => []EditorsOwn
  <1>1. IInv => EditorsOwn
    BY OwnIsOne DEF IInv, DaclsOK, EditorsOwn
  <1> QED BY <1>1, Invariant, PTL
=============================================================================
