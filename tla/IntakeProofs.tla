--------------------------- MODULE IntakeProofs ---------------------------
\* The offline queue implements RegistrationLedger, for any number of devices,
\* registrations, flushes and losses: the refinement that LedgerKept states.
\* Then the import: a text in quotes is read back, character by character, so
\* that an import of what was exported changes nothing (RoundTrip).
EXTENDS Intake, SequenceTheorems, FiniteSetTheorems, WellFoundedInduction, TLAPS

Forms == {Form, LeftForm}

\* A request is of a registration; one that was answered with a success has
\* made its endpoint; the form's is not yet queued or refused.
CallOK(c) ==
    /\ c \in Call
    /\ c.st = "ok" => c.reg \in made
    /\ c.by \in Forms => c.reg \in (1..regs) \ (queue \union refused)

QInv ==
    /\ regs \in 0..MaxRegs
    /\ queue \subseteq 1..regs /\ refused \subseteq 1..regs
    /\ todo \in [Flushers -> SUBSET Regs]
    /\ \A c \in calls : CallOK(c)
    /\ \A c, d \in calls : c.by \in Forms /\ d.by \in Forms => c = d

\* A step of the ledger, or none that it sees.
LedgerVars == <<queue \ made, made, refused \ made>>
LedgerStep == [Ledger!Next]_LedgerVars

----------------------------------------------------------------------------
\* The first of a flush's items is one of them.
LEMMA FirstIsIn ==
    ASSUME NEW S \in SUBSET Nat, S # {}
    PROVE  First(S) \in S
<1>. DEFINE R == OpToRel(<, Nat)
<1>1. R = {ss \in Nat \X Nat : ss[1] < ss[2]}
  BY DEF OpToRel
<1>2. PICK x \in S : \A y \in S : <<y, x>> \notin R
  <2>1. IsWellFoundedOn(R, Nat)
    BY NatLessThanWellFounded
  <2>. HIDE DEF R
  <2>. QED
    BY <2>1, WFMin
<1>3. ASSUME NEW y \in S PROVE x <= y
  <2>1. ~(y < x)
    <3>. SUFFICES ASSUME y < x PROVE FALSE
      OBVIOUS
    <3>1. <<y, x>> \in Nat \X Nat /\ <<y, x>>[1] < <<y, x>>[2]
      OBVIOUS
    <3>2. <<y, x>> \in R
      BY <3>1, <1>1
    <3>. QED
      BY <3>2, <1>2
  <2>. QED
    BY <2>1
<1>. QED
  BY <1>3 DEF First

\* Requests of flushes, or of nobody, that have no success yet may be added.
LEMMA CallsKept ==
    ASSUME QInv, UNCHANGED <<regs, queue, made, refused>>,
           todo' \in [Flushers -> SUBSET Regs],
           \A d \in calls' : d \in calls \/ (d \in Call /\ d.st # "ok" /\ d.by \notin Forms)
    PROVE  QInv' /\ LedgerStep
<1>1. LedgerStep
  BY DEF LedgerStep, LedgerVars
<1>2. ASSUME NEW d \in calls' PROVE CallOK(d)'
  BY DEF QInv, CallOK
<1>. QED
  BY <1>1, <1>2 DEF QInv

\* The next request of a flush.
LEMMA RequestOK ==
    ASSUME NEW f \in Flushers, NEW S \in SUBSET Regs, S # {}, NEW st \in {"out", "unsent"},
           NEW d, d = [by |-> f, reg |-> First(S), st |-> st]
    PROVE  d \in Call /\ d.st # "ok" /\ d.by \notin Forms
<1>0. S \in SUBSET Nat
  BY MaxRegsAssumption DEF Regs
<1>1. First(S) \in Regs
  BY <1>0, FirstIsIn
<1>. QED
  BY <1>1, FlushersAssumption DEF Call, Senders, States, Forms

LEMMA GoOnKeeps ==
    ASSUME QInv, NEW f \in Flushers, NEW rest \in SUBSET Regs, NEW n, NEW waiting,
           GoOn(f, rest, n, waiting)
    PROVE  /\ todo' \in [Flushers -> SUBSET Regs]
           /\ \A d \in calls' : d \in waiting \/ (d \in Call /\ d.st # "ok" /\ d.by \notin Forms)
<1>1. todo' \in [Flushers -> SUBSET Regs]
  BY DEF GoOn, QInv
<1>2. CASE rest = {}
  BY <1>1, <1>2 DEF GoOn
<1>3. CASE rest # {}
  <2>1. calls' = waiting \union {Request(f, First(rest))}
    BY <1>3 DEF GoOn
  <2>2. Request(f, First(rest)) \in Call /\ Request(f, First(rest)).st # "ok"
        /\ Request(f, First(rest)).by \notin Forms
    BY <1>3, RequestOK DEF Request
  <2>. QED
    BY <1>1, <2>1, <2>2
<1>. QED
  BY <1>2, <1>3

LEMMA FlushKeeps ==
    ASSUME QInv, CanFlush, queue # {}, NEW by, Flush(by),
           UNCHANGED <<regs, queue, made, refused>>
    PROVE  QInv' /\ LedgerStep
<1>. DEFINE f == CHOOSE g \in Flushers : todo[g] = {}
<1>1. f \in Flushers
  BY DEF CanFlush
<1>2. queue \in SUBSET Regs
  BY MaxRegsAssumption DEF QInv, Regs
<1>3. todo' = [todo EXCEPT ![f] = queue]
  BY DEF Flush
<1>. DEFINE d == [by |-> f, reg |-> First(queue), st |-> IF online' THEN "out" ELSE "unsent"]
<1>4. calls' = calls \union {d}
  BY DEF Flush
<1>. HIDE DEF f
<1>5. d \in Call /\ d.st # "ok" /\ d.by \notin Forms
  BY <1>1, <1>2, RequestOK
<1>. HIDE DEF d
<1>6. todo' \in [Flushers -> SUBSET Regs]
  BY <1>1, <1>2, <1>3 DEF QInv
<1>. QED
  BY <1>4, <1>5, <1>6, CallsKept

----------------------------------------------------------------------------
\* The flushes.
LEMMA FlushClickedKeeps == QInv /\ FlushClicked => QInv' /\ LedgerStep
<1>. SUFFICES ASSUME QInv, FlushClicked PROVE QInv' /\ LedgerStep
  OBVIOUS
<1>1. UNCHANGED <<regs, queue, made, refused>> /\ CanFlush
  BY DEF FlushClicked
<1>2. CASE queue = {}
  <2>1. UNCHANGED <<todo, calls>>
    BY <1>2 DEF FlushClicked
  <2>. QED
    BY <1>1, <2>1, CallsKept DEF QInv
<1>3. CASE queue # {}
  <2>1. Flush("button")
    BY <1>3 DEF FlushClicked
  <2>. QED
    BY <1>1, <1>3, <2>1, FlushKeeps
<1>. QED
  BY <1>2, <1>3

\* What a flush has left to do, whatever it makes of an item.
LEMMA RestOK ==
    ASSUME QInv, NEW c \in calls, c.by \in Flushers
    PROVE  todo[c.by] \ {c.reg} \in SUBSET Regs
  BY DEF QInv

LEMMA FlushSentKeeps ==
    ASSUME QInv, NEW c \in calls, c.by \in Flushers, FlushSent(c)
    PROVE  QInv' /\ LedgerStep
<1>1. /\ c.st = "ok" /\ queue' = queue \ {c.reg} /\ UNCHANGED <<regs, made, refused>>
      /\ GoOn(c.by, todo[c.by] \ {c.reg}, sent[c.by] + 1, calls \ {c})
  BY DEF FlushSent
<1>2. /\ todo' \in [Flushers -> SUBSET Regs]
      /\ \A d \in calls' : d \in calls \/ (d \in Call /\ d.st # "ok" /\ d.by \notin Forms)
  BY <1>1, RestOK, GoOnKeeps
<1>3. c.reg \in made
  BY <1>1 DEF QInv, CallOK
<1>4. LedgerStep
  BY <1>1, <1>3 DEF LedgerStep, LedgerVars
<1>5. ASSUME NEW d \in calls' PROVE CallOK(d)'
  BY <1>1, <1>2 DEF QInv, CallOK
<1>. QED
  BY <1>1, <1>2, <1>4, <1>5 DEF QInv

\* A refusal ends a registration that is queued and not yet made; the ledger
\* sees no other.
LEMMA FlushRefusalKeeps ==
    ASSUME QInv, NEW c \in calls, c.by \in Flushers, FlushRefused(c)
    PROVE  QInv' /\ LedgerStep
<1>1. /\ queue' = queue \ {c.reg} /\ UNCHANGED <<regs, made>>
      /\ refused' = IF c.reg \in queue THEN refused \union {c.reg} ELSE refused
      /\ GoOn(c.by, todo[c.by] \ {c.reg}, sent[c.by], calls \ {c})
  BY DEF FlushRefused
<1>2. /\ todo' \in [Flushers -> SUBSET Regs]
      /\ \A d \in calls' : d \in calls \/ (d \in Call /\ d.st # "ok" /\ d.by \notin Forms)
  BY <1>1, RestOK, GoOnKeeps
<1>3. LedgerStep
  <2>1. CASE c.reg \in queue \ made
    <3>1. c.reg \in Regs
      BY DEF QInv, CallOK, Call
    <3>2. Ledger!Refuse(c.reg)
      BY <1>1, <2>1 DEF Ledger!Refuse
    <3>. QED
      BY <3>1, <3>2 DEF Ledger!Next, LedgerStep
  <2>2. CASE c.reg \notin queue \ made
    BY <1>1, <2>2 DEF LedgerStep, LedgerVars
  <2>. QED
    BY <2>1, <2>2
<1>4. ASSUME NEW d \in calls' PROVE CallOK(d)'
  BY <1>1, <1>2 DEF QInv, CallOK
<1>5. queue' \subseteq 1..regs' /\ refused' \subseteq 1..regs'
  BY <1>1 DEF QInv
<1>6. \A d, e \in calls' : d.by \in Forms /\ e.by \in Forms => d = e
  BY <1>2 DEF QInv
<1>. QED
  BY <1>1, <1>2, <1>3, <1>4, <1>5, <1>6 DEF QInv

\* What the browser leaves of a request it has given up is nobody's.
LEMMA GhostOK ==
    ASSUME QInv, NEW c \in calls, NEW ghost \in Ghosts(c), NEW d \in ghost
    PROVE  d \in Call /\ d.st # "ok" /\ d.by \notin Forms
<1>1. c.st = "out" /\ d = [c EXCEPT !.by = Nobody]
  BY DEF Ghosts
<1>2. c \in Call
  BY DEF QInv, CallOK
<1>3. d \in Call /\ d.by = Nobody /\ d.st = "out"
  BY <1>1, <1>2 DEF Call, Senders
<1>. QED
  BY <1>3 DEF Forms, Form, LeftForm, Nobody

LEMMA FlushStoppedKeeps ==
    ASSUME QInv, NEW c \in calls, c.by \in Flushers, FlushStopped(c)
    PROVE  QInv' /\ LedgerStep
<1>1. PICK ghost \in Ghosts(c) : GoOn(c.by, {}, 0, (calls \ {c}) \union ghost)
  BY DEF FlushStopped
<1>2. UNCHANGED <<regs, queue, made, refused>>
  BY DEF FlushStopped
<1>3. /\ todo' \in [Flushers -> SUBSET Regs]
      /\ \A d \in calls' : d \in (calls \ {c}) \union ghost
                            \/ (d \in Call /\ d.st # "ok" /\ d.by \notin Forms)
  BY <1>1, GoOnKeeps
<1>4. \A d \in ghost : d \in Call /\ d.st # "ok" /\ d.by \notin Forms
  BY GhostOK
<1>. QED
  BY <1>2, <1>3, <1>4, CallsKept

----------------------------------------------------------------------------
\* The form's own request.
LEMMA SubmitKeeps ==
    ASSUME QInv, NEW m, Submit(m)
    PROVE  QInv' /\ LedgerStep
<1>1. /\ regs < MaxRegs /\ \A c \in calls : c.by \notin Forms
      /\ regs' = regs + 1 /\ calls' = calls \union {Request(Form, regs + 1)}
      /\ UNCHANGED <<queue, todo, made, refused>>
  BY DEF Submit, Forms
<1>2. LedgerStep
  BY <1>1 DEF LedgerStep, LedgerVars
<1>. DEFINE r == Request(Form, regs + 1)
<1>3. r \in Call /\ r.st # "ok" /\ r.reg = regs + 1
  BY <1>1, MaxRegsAssumption DEF QInv, Call, Senders, States, Request, Regs
<1>4. regs' \in 0..MaxRegs /\ 1..regs \subseteq 1..regs' /\ regs + 1 \in 1..regs'
      /\ regs + 1 \notin 1..regs
  BY <1>1, MaxRegsAssumption DEF QInv
<1>5. calls' = calls \union {r}
  BY <1>1
<1>. HIDE DEF r
<1>6. ASSUME NEW d \in calls' PROVE CallOK(d)'
  <2>1. CASE d \in calls
    BY <1>1, <1>4, <2>1 DEF QInv, CallOK
  <2>2. CASE d = r
    BY <1>1, <1>3, <1>4, <2>2 DEF QInv, CallOK
  <2>. QED
    BY <1>5, <2>1, <2>2
<1>7. \A d, e \in calls' : d.by \in Forms /\ e.by \in Forms => d = e
  BY <1>1, <1>5
<1>. QED
  BY <1>1, <1>2, <1>4, <1>6, <1>7 DEF QInv

LEMMA SubmitAnsweredKeeps ==
    ASSUME QInv, NEW c, SubmitAnswered(c)
    PROVE  QInv' /\ LedgerStep
<1>1. calls' \subseteq calls /\ UNCHANGED <<regs, queue, made, refused, todo>>
  BY DEF SubmitAnswered
<1>. QED
  BY <1>1, CallsKept DEF QInv

\* A registration is accepted once: the form's request is the only one there
\* is, and it has been neither queued nor refused.
LEMMA EnqueueKeeps ==
    ASSUME QInv, NEW c \in calls, Enqueue(c)
    PROVE  QInv' /\ LedgerStep
<1>1. PICK ghost \in Ghosts(c) : calls' = (calls \ {c}) \union ghost
  BY DEF Enqueue
<1>2. /\ c.by \in Forms /\ queue' = queue \union {c.reg}
      /\ UNCHANGED <<regs, todo, made, refused>>
  BY DEF Enqueue, Forms
<1>3. /\ c.reg \in (1..regs) \ (queue \union refused) /\ c.reg \in Regs
      /\ \A d \in calls \ {c} : d.by \notin Forms
  BY <1>2 DEF QInv, CallOK, Call
<1>4. \A d \in ghost : d \in Call /\ d.st # "ok" /\ d.by \notin Forms
  BY GhostOK
<1>5. LedgerStep
  <2>1. CASE c.reg \in made
    BY <1>2, <2>1 DEF LedgerStep, LedgerVars
  <2>2. CASE c.reg \notin made
    <3>1. Ledger!Accept(c.reg)
      BY <1>2, <1>3, <2>2 DEF Ledger!Accept
    <3>. QED
      BY <1>3, <3>1 DEF Ledger!Next, LedgerStep
  <2>. QED
    BY <2>1, <2>2
<1>6. \A d \in calls' : d.by \notin Forms
  BY <1>1, <1>3, <1>4
<1>7. ASSUME NEW d \in calls' PROVE CallOK(d)'
  <2>1. d \in calls \/ (d \in Call /\ d.st # "ok")
    BY <1>1, <1>4
  <2>. QED
    BY <1>2, <1>6, <2>1 DEF QInv, CallOK
<1>. QED
  BY <1>2, <1>3, <1>5, <1>6, <1>7 DEF QInv

----------------------------------------------------------------------------
\* ISE makes an endpoint, and only then does a success go out.
LEMMA ServeKeeps ==
    ASSUME QInv, NEW c \in calls, Serve(c)
    PROVE  QInv' /\ LedgerStep
<1>1. PICK done \in BOOLEAN, st \in {"ok", "refusal"} :
        /\ st = "ok" => done
        /\ made' = IF done THEN made \union {c.reg} ELSE made
        /\ calls' = (calls \ {c}) \union (IF c.by = Nobody THEN {} ELSE {[c EXCEPT !.st = st]})
  BY DEF Serve
<1>2. UNCHANGED <<regs, queue, todo, refused>>
  BY DEF Serve
<1>3. c \in Call /\ CallOK(c)
  BY DEF QInv, CallOK
<1>4. LedgerStep
  <2>1. CASE done /\ c.reg \notin made
    <3>1. Ledger!Register(c.reg)
      BY <1>1, <1>2, <2>1 DEF Ledger!Register
    <3>. QED
      BY <1>3, <3>1 DEF Ledger!Next, LedgerStep, Call
  <2>2. CASE ~done \/ c.reg \in made
    <3>1. made' = made
      BY <1>1, <2>2
    <3>. QED
      BY <1>2, <3>1 DEF LedgerStep, LedgerVars
  <2>. QED
    BY <2>1, <2>2
<1>. DEFINE a == [c EXCEPT !.st = st]
<1>5. a \in Call /\ a.by = c.by /\ a.reg = c.reg /\ a.st = st
  BY <1>3 DEF Call, States
<1>6. calls' \subseteq (calls \ {c}) \union {a}
  BY <1>1
<1>. HIDE DEF a
<1>7. ASSUME NEW d \in calls' PROVE CallOK(d)'
  <2>1. CASE d \in calls
    BY <1>1, <1>2, <2>1 DEF QInv, CallOK
  <2>2. CASE d = a
    BY <1>1, <1>2, <1>3, <1>5, <2>2 DEF CallOK
  <2>. QED
    BY <1>6, <2>1, <2>2
<1>8. ASSUME NEW d \in calls', NEW e \in calls', d.by \in Forms, e.by \in Forms PROVE d = e
  BY <1>5, <1>6, <1>8 DEF QInv
<1>. QED
  BY <1>2, <1>4, <1>7, <1>8 DEF QInv

\* Leaving the view, which marks the form's request, and reloading the page,
\* which makes all that go on nobody's.
LEMMA LeaveQueueKeeps == QInv /\ LeaveQueue => QInv' /\ LedgerStep
<1>. SUFFICES ASSUME QInv, LeaveQueue PROVE QInv' /\ LedgerStep
  OBVIOUS
<1>. DEFINE Left(c) == IF c.by = Form THEN [c EXCEPT !.by = LeftForm] ELSE c
<1>1. calls' = {Left(c) : c \in calls} /\ UNCHANGED <<regs, queue, todo, made, refused>>
  BY DEF LeaveQueue
<1>2. ASSUME NEW c \in calls
      PROVE  /\ Left(c) \in Call /\ Left(c).reg = c.reg /\ Left(c).st = c.st
             /\ Left(c).by \in Forms <=> c.by \in Forms
  <2>1. c \in Call
    BY DEF QInv, CallOK
  <2>2. CASE c.by = Form
    BY <2>1, <2>2 DEF Call, Senders, Forms
  <2>3. CASE c.by # Form
    BY <2>1, <2>3
  <2>. QED
    BY <2>2, <2>3
<1>. HIDE DEF Left
<1>3. ASSUME NEW d \in calls' PROVE CallOK(d)'
  <2>1. PICK c \in calls : d = Left(c)
    BY <1>1
  <2>. QED
    BY <1>1, <1>2, <2>1 DEF QInv, CallOK
<1>4. ASSUME NEW d \in calls', NEW e \in calls', d.by \in Forms, e.by \in Forms PROVE d = e
  BY <1>1, <1>2, <1>4 DEF QInv
<1>5. LedgerStep
  BY <1>1 DEF LedgerStep, LedgerVars
<1>. QED
  BY <1>1, <1>3, <1>4, <1>5 DEF QInv

LEMMA ReloadQueueKeeps == QInv /\ ReloadQueue => QInv' /\ LedgerStep
<1>. SUFFICES ASSUME QInv, ReloadQueue PROVE QInv' /\ LedgerStep
  OBVIOUS
<1>1. PICK keep \in SUBSET {c \in calls : c.st = "out"} :
        calls' = {[c EXCEPT !.by = Nobody] : c \in keep}
  BY DEF ReloadQueue
<1>2. UNCHANGED <<regs, queue, made, refused>> /\ todo' = [f \in Flushers |-> {}]
  BY DEF ReloadQueue
<1>3. ASSUME NEW d \in calls' PROVE d \in Call /\ d.st # "ok" /\ d.by \notin Forms
  <2>1. PICK c \in calls : c.st = "out" /\ d = [c EXCEPT !.by = Nobody]
    BY <1>1
  <2>2. c \in Call
    BY DEF QInv, CallOK
  <2>3. d \in Call /\ d.st = "out" /\ d.by = Nobody
    BY <2>1, <2>2 DEF Call, Senders
  <2>. QED
    BY <2>3 DEF Forms, Form, LeftForm, Nobody
<1>. QED
  BY <1>2, <1>3, CallsKept

LEMMA NetworkKeeps ==
    QInv /\ (GoOffline \/ GoOnline \/ ShowBanner \/ UNCHANGED queueVars
              \/ \E c \in calls : GhostLost(c)) => QInv' /\ LedgerStep
<1>. SUFFICES ASSUME QInv, GoOffline \/ GoOnline \/ ShowBanner \/ UNCHANGED queueVars
                           \/ \E c \in calls : GhostLost(c)
              PROVE  QInv' /\ LedgerStep
  OBVIOUS
<1>1. CASE GoOnline /\ queue # {} /\ CanFlush
  BY <1>1, FlushKeeps DEF GoOnline
<1>2. CASE GoOnline /\ ~(queue # {} /\ CanFlush)
  <2>1. UNCHANGED <<regs, queue, made, refused, todo, calls>>
    BY <1>2 DEF GoOnline
  <2>. QED
    BY <2>1, CallsKept DEF QInv
<1>3. CASE GoOffline \/ ShowBanner \/ UNCHANGED queueVars \/ \E c \in calls : GhostLost(c)
  <2>1. UNCHANGED <<regs, queue, made, refused, todo>> /\ calls' \subseteq calls
    BY <1>3 DEF GoOffline, ShowBanner, GhostLost, queueVars
  <2>. QED
    BY <2>1, CallsKept DEF QInv
<1>. QED
  BY <1>1, <1>2, <1>3

----------------------------------------------------------------------------
\* The register view, the import view, and the whole.
LEMMA RegisterKeeps == QInv /\ RegisterNext => QInv' /\ LedgerStep
<1>. SUFFICES ASSUME QInv, RegisterNext PROVE QInv' /\ LedgerStep
  OBVIOUS
<1>1. CASE Open \/ Fill \/ LoadAgain
  <2>1. UNCHANGED queueVars
    BY <1>1 DEF Open, Fill, LoadAgain, Click, TypeMac, Scanned, LookupVendor, VendorShown,
                ApplyPlatform, ApplyTemplate, AskFor, KeyGenerated, TemplateSaved, ToggleMine,
                MineLoaded, Scan, CameraGranted, CameraDenied, ScanCancelled
  <2>. QED
    BY <2>1, NetworkKeeps
<1>2. CASE ListsLoaded
  BY <1>2, NetworkKeeps DEF ListsLoaded
<1>3. CASE SubmitForm
  BY <1>3, SubmitKeeps DEF SubmitForm
<1>4. CASE \E c \in calls : SubmitDone(c) \/ SubmitQueued(c)
  BY <1>4, SubmitAnsweredKeeps, EnqueueKeeps DEF SubmitDone, SubmitQueued
<1>5. CASE Leave
  BY <1>5, LeaveQueueKeeps DEF Leave
<1>6. CASE Load
  BY <1>6, ReloadQueueKeeps DEF Load
<1>7. CASE Beneath
  BY <1>7, FlushClickedKeeps, FlushSentKeeps, FlushRefusalKeeps, FlushStoppedKeeps, ServeKeeps,
     NetworkKeeps
  DEF Beneath, FlushAnswered
<1>8. CASE ReconnectDead
  <2>1. UNCHANGED <<regs, queue, made, refused, todo, calls>>
    BY <1>8 DEF ReconnectDead
  <2>. QED
    BY <2>1, CallsKept DEF QInv
<1>. QED
  BY <1>1, <1>2, <1>3, <1>4, <1>5, <1>6, <1>7, <1>8 DEF RegisterNext

LEMMA CsvKeeps ==
    QInv /\ (ChooseFile \/ Importing \/ ServeBulk \/ BulkAnswered) => QInv' /\ LedgerStep
<1>. SUFFICES ASSUME QInv, ChooseFile \/ Importing \/ ServeBulk \/ BulkAnswered
              PROVE  QInv' /\ LedgerStep
  OBVIOUS
<1>1. UNCHANGED <<regs, queue, made, refused, todo, calls>>
  BY DEF ChooseFile, Importing, ServeBulk, BulkAnswered, ImportTemplate, ResetTemplate, ExportCsv,
         PasteFile, Preview, Import, queueVars
<1>. QED
  BY <1>1, CallsKept DEF QInv

LEMMA InitRefines == Init => QInv /\ Ledger!Init
<1>. SUFFICES ASSUME Init PROVE QInv /\ Ledger!Init
  OBVIOUS
<1>1. /\ regs = 0 /\ queue = {} /\ refused = {} /\ made = {} /\ calls = {}
      /\ todo = [f \in Flushers |-> {}]
  BY DEF Init, QueueInit
<1>. QED
  BY <1>1, MaxRegsAssumption DEF QInv, Ledger!Init

LEMMA NextRefines == QInv /\ [Next]_vars => QInv' /\ LedgerStep
<1>. SUFFICES ASSUME QInv, [Next]_vars PROVE QInv' /\ LedgerStep
  OBVIOUS
<1>1. CASE UNCHANGED vars
  BY <1>1, NetworkKeeps DEF vars
<1>. QED
  BY <1>1, RegisterKeeps, CsvKeeps DEF Next

\* What the queue has accepted is kept until ISE holds it or an answer has
\* refused it (offline_queue.js): flushes that overlap, registrations queued
\* meanwhile, lost answers and reloads are steps of the ledger, or none.
THEOREM QueueImplementsLedger == Spec => LedgerKept
<1>1. LedgerStep <=> [Ledger!Next]_Ledger!vars
  BY DEF LedgerStep, LedgerVars, Ledger!vars
<1>2. QInv /\ [Next]_vars => QInv' /\ [Ledger!Next]_Ledger!vars
  BY <1>1, NextRefines
<1>. QED
  BY <1>2, InitRefines, PTL DEF Spec, LedgerKept, Ledger!Spec

----------------------------------------------------------------------------
\* Folds: the loops over a line, a text and the rows of an import.

\* Induction over the natural numbers, for a set.
LEMMA NaturalsIn ==
    ASSUME NEW A, 0 \in A, \A n \in Nat : n \in A => n + 1 \in A
    PROVE  Nat \subseteq A
  <1> SUFFICES ASSUME Nat \ A # {} PROVE FALSE
    OBVIOUS
  <1> DEFINE R == OpToRel(<, Nat)
  <1>1. R = {ss \in Nat \X Nat : ss[1] < ss[2]}
    BY DEF OpToRel
  <1> HIDE DEF R
  <1>2. PICK x \in Nat \ A : \A y \in Nat \ A : <<y, x>> \notin R
    <2>1. IsWellFoundedOn(R, Nat)
      BY NatLessThanWellFounded DEF R
    <2>2. Nat \ A \subseteq Nat
      OBVIOUS
    <2> QED BY <2>1, <2>2, WFMin
  <1>3. x # 0 /\ x - 1 \in Nat /\ x - 1 < x
    BY <1>2
  <1>4. x - 1 \notin A
    BY <1>2, <1>3
  <1>5. <<x - 1, x>> \in R
    BY <1>1, <1>3
  <1> QED BY <1>2, <1>3, <1>4, <1>5

\* Up to a bound.
LEMMA UpTo ==
    ASSUME NEW A, NEW top \in Nat, 0 \in A, \A n \in 0..(top - 1) : n \in A => n + 1 \in A
    PROVE  0..top \subseteq A
  <1> DEFINE B == {n \in Nat : n \in A \/ n > top}
  <1>1. 0 \in B
    OBVIOUS
  <1>2. \A n \in Nat : n \in B => n + 1 \in B
    OBVIOUS
  <1>3. Nat \subseteq B
    <2> HIDE DEF B
    <2> QED BY <1>1, <1>2, NaturalsIn
  <1> QED BY <1>3

\* The greatest member.
LEMMA MaxIs ==
    ASSUME NEW s \in SUBSET Int, NEW m \in s, \A y \in s : y <= m
    PROVE  Max(s) = m
  <1>1. \A x \in s : (\A y \in s : x >= y) <=> x = m
    OBVIOUS
  <1>2. Max(s) = CHOOSE x \in s : x = m
    BY <1>1 DEF Max
  <1> QED BY <1>2

\* A set of numbers has one.
LEMMA MaxIn ==
    ASSUME NEW top \in Nat, NEW s \in SUBSET (1..top), s # {}
    PROVE  Max(s) \in s /\ \A y \in s : y <= Max(s)
  <1> DEFINE A == {m \in 0..top : \A t \in SUBSET (1..m) : t # {} =>
               \E x \in t : \A y \in t : x >= y}
  <1>1. 0 \in A
    <2>1. (\A t \in SUBSET (1..0) : t = {}) /\ 0 \in 0..top
      OBVIOUS
    <2> QED BY <2>1
  <1>2. ASSUME NEW m \in 0..(top - 1), m \in A PROVE m + 1 \in A
    <2> SUFFICES ASSUME NEW t \in SUBSET (1..(m + 1)), t # {}
                 PROVE  \E x \in t : \A y \in t : x >= y
      OBVIOUS
    <2>1. CASE m + 1 \in t
      BY <2>1
    <2>2. CASE m + 1 \notin t
      <3>1. \A y \in t : y \in 1..m
        BY <2>2
      <3>2. t \in SUBSET (1..m)
        BY <3>1
      <3> QED BY <3>2, <1>2
    <2> QED BY <2>1, <2>2
  <1>3. top \in A
    <2> HIDE DEF A
    <2> QED BY <1>1, <1>2, UpTo
  <1>4. PICK x \in s : \A y \in s : x >= y
    BY <1>3
  <1>5. Max(s) \in s /\ \A y \in s : Max(s) >= y
    BY <1>4 DEF Max
  <1> QED BY <1>5

\* The least member, of a set of numbers that has one.
LEMMA MinIn ==
    ASSUME NEW s \in SUBSET Nat, s # {}
    PROVE  Min(s) \in s /\ \A y \in s : Min(s) <= y
  <1> DEFINE A == {m \in Nat : \A t \in SUBSET Nat : (\E x \in t : x <= m) =>
                                  \E x \in t : \A y \in t : x <= y}
  <1>1. 0 \in A
    OBVIOUS
  <1>2. ASSUME NEW m \in Nat, m \in A PROVE m + 1 \in A
    <2> SUFFICES ASSUME NEW t \in SUBSET Nat, \E x \in t : x <= m + 1
                 PROVE  \E x \in t : \A y \in t : x <= y
      OBVIOUS
    <2>1. CASE \E x \in t : x <= m
      BY <1>2, <2>1
    <2>2. CASE ~\E x \in t : x <= m
      BY <2>2
    <2> QED BY <2>1, <2>2
  <1>3. Nat \subseteq A
    <2> HIDE DEF A
    <2> QED BY <1>1, <1>2, NaturalsIn
  <1>4. \E x \in s : \A y \in s : x <= y
    <2>1. PICK x : x \in s
      OBVIOUS
    <2>2. x \in A /\ x <= x
      BY <1>3, <2>1
    <2> QED BY <2>1, <2>2
  <1> QED BY <1>4 DEF Min

\* The steps of a fold of CsvImport: a character of a line is read, a text is
\* split, a row of an import is stored.
Step(m, x, c) ==
    IF m.kind = "row" THEN ReadChar(x, c)
    ELSE IF m.kind = "split"
    THEN IF c = m.sep THEN Append(x, <<>>) ELSE [x EXCEPT ![Len(x)] = Append(@, c)]
    ELSE IF c \in m.done
         THEN [x EXCEPT ![bulk.items[c].mac] = Stored(bulk.items[c], @, bulk.overwrite)] ELSE x

\* A fold over the places of s is f: that it exists, and what it is for all of them.
Folding(m, b, s, f) ==
    f = [t \in SUBSET (DOMAIN s) |->
            IF t = {} THEN b ELSE Step(m, f[t \ {Max(t)}], s[Max(t)])]
\* The same, as a sequence of results.
Through(m, b, s, r) ==
    r = [k \in 0..Len(s) |-> IF k = 0 THEN b ELSE Step(m, r[k - 1], s[k])]

\* A fold has such a function,
LEMMA FoldingExists ==
    ASSUME NEW m, NEW b, NEW s, Len(s) \in Nat, DOMAIN s = 1..Len(s)
    PROVE  \E f : Folding(m, b, s, f)
  <1> DEFINE Fits(k, f) == f = [t \in SUBSET (1..k) |->
                                  IF t = {} THEN b ELSE Step(m, f[t \ {Max(t)}], s[Max(t)])]
             A == {k \in 0..Len(s) : \E f : Fits(k, f)}
  <1>1. 0 \in A
    <2>1. PICK f : f = [t \in SUBSET (1..0) |-> b]
      OBVIOUS
    <2>2. \A t \in SUBSET (1..0) : t = {}
      OBVIOUS
    <2>3. Fits(0, f)
      BY <2>1, <2>2
    <2> QED BY <2>3
  <1>2. ASSUME NEW k \in 0..(Len(s) - 1), k \in A PROVE k + 1 \in A
    <2>1. PICK f : Fits(k, f)
      BY <1>2
    <2>2. PICK g : g = [t \in SUBSET (1..(k + 1)) |->
                          IF k + 1 \in t THEN Step(m, f[t \ {k + 1}], s[k + 1]) ELSE f[t]]
      OBVIOUS
    <2>3. \A t \in SUBSET (1..(k + 1)) : k + 1 \notin t => t \in SUBSET (1..k)
      OBVIOUS
    <2>4. \A t \in SUBSET (1..(k + 1)) : t \ {k + 1} \in SUBSET (1..k)
      OBVIOUS
    <2>5. ASSUME NEW t \in SUBSET (1..(k + 1))
          PROVE  g[t] = IF t = {} THEN b ELSE Step(m, g[t \ {Max(t)}], s[Max(t)])
      <3>1. CASE k + 1 \in t
        <4>1. Max(t) = k + 1
          <5>1. t \in SUBSET Int /\ \A y \in t : y <= k + 1
            OBVIOUS
          <5> QED BY <3>1, <5>1, MaxIs
        <4>2. t \ {k + 1} \in SUBSET (1..(k + 1)) /\ k + 1 \notin t \ {k + 1} /\ t # {}
          BY <3>1
        <4>3. g[t \ {k + 1}] = f[t \ {k + 1}]
          BY <2>2, <4>2
        <4>4. g[t] = Step(m, f[t \ {k + 1}], s[k + 1])
          BY <2>2, <3>1
        <4> QED BY <4>1, <4>2, <4>3, <4>4
      <3>2. CASE k + 1 \notin t
        <4>1. t \in SUBSET (1..k) /\ g[t] = f[t]
          BY <2>2, <2>3, <3>2
        <4>2. f[t] = IF t = {} THEN b ELSE Step(m, f[t \ {Max(t)}], s[Max(t)])
          BY <2>1, <4>1
        <4>3. k + 1 \notin t \ {Max(t)} /\ t \ {Max(t)} \in SUBSET (1..(k + 1))
          BY <3>2
        <4>4. g[t \ {Max(t)}] = f[t \ {Max(t)}]
          BY <2>2, <4>3
        <4> QED BY <4>1, <4>2, <4>4
      <3> QED BY <3>1, <3>2
    <2>6. Fits(k + 1, g)
      BY <2>2, <2>5
    <2>7. k + 1 \in 0..Len(s)
      OBVIOUS
    <2> QED BY <2>6, <2>7
  <1>3. Len(s) \in A
    <2>1. Len(s) \in 0..Len(s)
      OBVIOUS
    <2> HIDE DEF A
    <2>2. 0..Len(s) \subseteq A
      BY <1>1, <1>2, UpTo
    <2> QED BY <2>1, <2>2
  <1>4. PICK f : Fits(Len(s), f)
    BY <1>3
  <1> QED BY <1>4 DEF Folding

\* Along the way, step by step.
LEMMA FoldingThrough ==
    ASSUME NEW m, NEW b, NEW s, Len(s) \in Nat, DOMAIN s = 1..Len(s), NEW f, Folding(m, b, s, f)
    PROVE  \E r : Through(m, b, s, r) /\ f[DOMAIN s] = r[Len(s)]
  <1>1. PICK r : r = [k \in 0..Len(s) |-> f[1..k]]
    OBVIOUS
  <1>2. ASSUME NEW k \in 0..Len(s) PROVE r[k] = IF k = 0 THEN b ELSE Step(m, r[k - 1], s[k])
    <2>0. 1..k \in SUBSET (DOMAIN s) /\ r[k] = f[1..k]
      BY <1>1
    <2>1. CASE k = 0
      <3>1. 1..k = {}
        BY <2>1
      <3> QED BY <2>0, <2>1, <3>1 DEF Folding
    <2>2. CASE k # 0
      <3>1. k \in 1..k /\ 1..k \in SUBSET Int /\ \A y \in 1..k : y <= k
        BY <2>2
      <3>2. Max(1..k) = k /\ 1..k # {}
        BY <3>1, MaxIs
      <3>3. (1..k) \ {k} = 1..(k - 1) /\ k - 1 \in 0..Len(s)
        BY <2>2
      <3>4. f[1..k] = Step(m, f[1..(k - 1)], s[k])
        BY <2>0, <3>2, <3>3 DEF Folding
      <3> QED BY <1>1, <2>0, <2>2, <3>3, <3>4
    <2> QED BY <2>1, <2>2
  <1>3. Through(m, b, s, r)
    BY <1>1, <1>2 DEF Through
  <1>4. Len(s) \in 0..Len(s)
    OBVIOUS
  <1> QED BY <1>1, <1>3, <1>4

\* What a fold leads to.
Leads(m, b, s, e) == \E r : Through(m, b, s, r) /\ e = r[Len(s)]

\* The fold as the community modules define it.
Fold(m, b, s) ==
    LET iter[t \in SUBSET (DOMAIN s)] ==
            IF t = {} THEN b ELSE Step(m, iter[t \ {Max(t)}], s[Max(t)])
    IN iter[DOMAIN s]

\* A fold leads to its value.
LEMMA FoldLeads ==
    ASSUME NEW m, NEW b, NEW s, Len(s) \in Nat, DOMAIN s = 1..Len(s)
    PROVE  Leads(m, b, s, Fold(m, b, s))
  <1>1. PICK f : f = CHOOSE g : Folding(m, b, s, g)
    OBVIOUS
  <1>2. Folding(m, b, s, f)
    BY <1>1, FoldingExists
  <1>3. Fold(m, b, s) = f[DOMAIN s]
    BY <1>1 DEF Fold, Folding
  <1> QED BY <1>2, <1>3, FoldingThrough DEF Leads

\* It leads to one.
LEMMA LeadsToOne ==
    ASSUME NEW m, NEW b, NEW s, Len(s) \in Nat, NEW e, NEW d, Leads(m, b, s, e), Leads(m, b, s, d)
    PROVE  e = d
  <1>1. PICK r : Through(m, b, s, r) /\ e = r[Len(s)]
    BY DEF Leads
  <1>2. PICK v : Through(m, b, s, v) /\ d = v[Len(s)]
    BY DEF Leads
  <1> DEFINE A == {k \in 0..Len(s) : r[k] = v[k]}
  <1>3. 0 \in A
    BY <1>1, <1>2 DEF Through
  <1>4. ASSUME NEW k \in 0..(Len(s) - 1), k \in A PROVE k + 1 \in A
    <2>1. k + 1 \in 0..Len(s) /\ k + 1 # 0 /\ (k + 1) - 1 = k
      OBVIOUS
    <2>2. r[k + 1] = Step(m, r[k], s[k + 1]) /\ v[k + 1] = Step(m, v[k], s[k + 1])
      BY <1>1, <1>2, <2>1 DEF Through
    <2> QED BY <1>4, <2>1, <2>2
  <1>5. 0..Len(s) \subseteq A
    <2> HIDE DEF A
    <2> QED BY <1>3, <1>4, UpTo
  <1>6. Len(s) \in 0..Len(s)
    OBVIOUS
  <1> QED BY <1>1, <1>2, <1>5, <1>6

\* Nothing, one step, and one fold after another.
LEMMA LeadsNowhere ==
    ASSUME NEW m, NEW b
    PROVE  Leads(m, b, <<>>, b)
  <1>1. PICK r : r = [k \in 0..0 |-> b]
    OBVIOUS
  <1>2. Len(<<>>) = 0 /\ r[0] = b
    BY <1>1
  <1>3. r = [k \in 0..0 |-> IF k = 0 THEN b ELSE Step(m, r[k - 1], <<>>[k])]
    BY <1>1
  <1> QED BY <1>2, <1>3 DEF Leads, Through

\* One more step.
LEMMA LeadsOn ==
    ASSUME NEW m, NEW b, NEW S, NEW s \in Seq(S), NEW e, Leads(m, b, s, e), NEW c \in S
    PROVE  Leads(m, b, Append(s, c), Step(m, e, c))
  <1>1. PICK r : Through(m, b, s, r) /\ e = r[Len(s)]
    BY DEF Leads
  <1>2. PICK q : q = Append(s, c)
    OBVIOUS
  <1>3. PICK n : n = Len(s)
    OBVIOUS
  <1>4. /\ n \in Nat /\ Len(q) = n + 1 /\ q[n + 1] = c /\ \A k \in 1..n : q[k] = s[k]
    BY <1>2, <1>3
  <1>5. PICK v : v = [k \in 0..(n + 1) |-> IF k <= n THEN r[k] ELSE Step(m, e, c)]
    OBVIOUS
  <1>6. ASSUME NEW k \in 0..(n + 1) PROVE v[k] = IF k = 0 THEN b ELSE Step(m, v[k - 1], q[k])
    <2>1. CASE k = 0
      BY <1>1, <1>4, <1>5, <2>1 DEF Through
    <2>2. CASE k \in 1..n
      <3>1. k - 1 \in 0..n /\ k - 1 <= n /\ k - 1 \in 0..(n + 1) /\ k \in 0..n /\ k # 0 /\ k <= n
        BY <1>4, <2>2
      <3>2. v[k] = r[k] /\ v[k - 1] = r[k - 1] /\ q[k] = s[k]
        BY <1>4, <1>5, <2>2, <3>1
      <3>3. r[k] = Step(m, r[k - 1], s[k])
        BY <1>1, <1>3, <3>1 DEF Through
      <3> QED BY <3>1, <3>2, <3>3
    <2>3. CASE k = n + 1
      <3>1. k # 0 /\ k - 1 = n /\ ~(k <= n) /\ n <= n /\ n \in 0..(n + 1)
        BY <1>4, <2>3
      <3>2. v[n] = e /\ v[k] = Step(m, e, c)
        BY <1>1, <1>3, <1>5, <3>1
      <3> QED BY <1>4, <2>3, <3>1, <3>2
    <2> QED BY <1>4, <2>1, <2>2, <2>3
  <1>7. Through(m, b, q, v)
    BY <1>4, <1>5, <1>6 DEF Through
  <1>8. v[Len(q)] = Step(m, e, c)
    <2>1. n + 1 \in 0..(n + 1) /\ ~(n + 1 <= n)
      BY <1>4
    <2> QED BY <1>4, <1>5, <2>1
  <1> QED BY <1>2, <1>7, <1>8 DEF Leads

\* A fold over a sequence, then over another.
LEMMA LeadsThere ==
    ASSUME NEW m, NEW b, NEW S, NEW s \in Seq(S), NEW t \in Seq(S),
           NEW d, Leads(m, b, s, d), NEW e, Leads(m, d, t, e)
    PROVE  Leads(m, b, s \o t, e)
  <1>1. PICK r : Through(m, d, t, r) /\ e = r[Len(t)]
    BY DEF Leads
  <1>2. Len(t) \in Nat
    OBVIOUS
  <1> DEFINE A == {k \in 0..Len(t) : Leads(m, b, s \o SubSeq(t, 1, k), r[k])}
  <1>3. 0 \in A
    <2>1. s \o SubSeq(t, 1, 0) = s
      OBVIOUS
    <2>2. r[0] = d
      BY <1>1, <1>2 DEF Through
    <2>3. 0 \in 0..Len(t)
      BY <1>2
    <2> QED BY <2>1, <2>2, <2>3
  <1>4. ASSUME NEW k \in 0..(Len(t) - 1), k \in A PROVE k + 1 \in A
    <2>1. k + 1 \in 0..Len(t) /\ k + 1 # 0 /\ (k + 1) - 1 = k /\ k + 1 \in 1..Len(t)
      BY <1>2
    <2>2. r[k + 1] = Step(m, r[k], t[k + 1])
      BY <1>1, <2>1 DEF Through
    <2>3. t[k + 1] \in S /\ SubSeq(t, 1, k) \in Seq(S)
          /\ SubSeq(t, 1, k + 1) = Append(SubSeq(t, 1, k), t[k + 1])
      BY <1>2, <2>1
    <2>4. s \o SubSeq(t, 1, k) \in Seq(S)
      BY <2>3
    <2>5. s \o SubSeq(t, 1, k + 1) = Append(s \o SubSeq(t, 1, k), t[k + 1])
      BY <2>3
    <2>6. Leads(m, b, s \o SubSeq(t, 1, k), r[k])
      BY <1>4
    <2>7. Leads(m, b, Append(s \o SubSeq(t, 1, k), t[k + 1]), Step(m, r[k], t[k + 1]))
      BY <2>3, <2>4, <2>6, LeadsOn
    <2> QED BY <2>1, <2>2, <2>5, <2>7
  <1>5. Len(t) \in A
    <2>1. Len(t) \in 0..Len(t)
      BY <1>2
    <2> HIDE DEF A
    <2>2. 0..Len(t) \subseteq A
      BY <1>2, <1>3, <1>4, UpTo
    <2> QED BY <2>1, <2>2
  <1>6. SubSeq(t, 1, Len(t)) = t
    OBVIOUS
  <1> QED BY <1>1, <1>5, <1>6

----------------------------------------------------------------------------
\* Sequences of pieces, and what is kept of a sequence.

\* One list after the other.
Joined(s, f) == f = [i \in 1..Len(s) |-> IF i = 1 THEN s[i] ELSE f[i - 1] \o s[i]]

\* The sequence of what the first pieces join to,
LEMMA JoinedExists ==
    ASSUME NEW s, Len(s) \in Nat
    PROVE  \E f : Joined(s, f)
  <1> PICK top : top = Len(s)
    OBVIOUS
  <1> DEFINE To(k, f) == f = [i \in 1..k |-> IF i = 1 THEN s[i] ELSE f[i - 1] \o s[i]]
             A == {k \in Nat : \E f : To(k, f)}
  <1>1. 0 \in A
    <2>1. PICK f : f = [i \in 1..0 |-> s[i]]
      OBVIOUS
    <2>2. f = [i \in 1..0 |-> IF i = 1 THEN s[i] ELSE f[i - 1] \o s[i]]
      BY <2>1
    <2> QED BY <2>2
  <1>2. ASSUME NEW k \in Nat, k \in A PROVE k + 1 \in A
    <2>1. PICK f : To(k, f)
      BY <1>2
    <2>2. PICK g : g = [i \in 1..(k + 1) |-> IF i <= k THEN f[i]
                                              ELSE IF i = 1 THEN s[i] ELSE f[i - 1] \o s[i]]
      OBVIOUS
    <2>3. ASSUME NEW i \in 1..(k + 1) PROVE g[i] = IF i = 1 THEN s[i] ELSE g[i - 1] \o s[i]
      <3>1. CASE i = 1
        <4>1. CASE i <= k
          <5>1. i \in 1..k
            BY <4>1
          <5>2. f[i] = s[i]
            BY <2>1, <3>1, <5>1
          <5> QED BY <2>2, <3>1, <4>1, <5>2
        <4>2. CASE ~(i <= k)
          BY <2>2, <3>1, <4>2
        <4> QED BY <4>1, <4>2
      <3>2. CASE i # 1
        <4>1. i - 1 \in 1..k /\ i - 1 <= k /\ i - 1 \in 1..(k + 1)
          BY <3>2
        <4>2. g[i - 1] = f[i - 1]
          BY <2>2, <4>1
        <4>3. CASE i <= k
          <5>1. i \in 1..k
            BY <4>3
          <5>2. f[i] = f[i - 1] \o s[i]
            BY <2>1, <3>2, <5>1
          <5> QED BY <2>2, <3>2, <4>2, <4>3, <5>2
        <4>4. CASE ~(i <= k)
          BY <2>2, <3>2, <4>2, <4>4
        <4> QED BY <4>3, <4>4
      <3> QED BY <3>1, <3>2
    <2>4. To(k + 1, g)
      BY <2>2, <2>3
    <2>5. k + 1 \in Nat
      OBVIOUS
    <2> HIDE DEF To
    <2> QED BY <2>4, <2>5
  <1>3. Nat \subseteq A
    <2> HIDE DEF A
    <2> QED BY <1>1, <1>2, NaturalsIn
  <1>4. \E f : To(top, f)
    <2> HIDE DEF To
    <2> QED BY <1>3
  <1> QED BY <1>4 DEF Joined

\* whose last is what FlattenSeq is.
LEMMA FlattenIs ==
    ASSUME NEW s, Len(s) \in Nat \ {0}
    PROVE  \E f : Joined(s, f) /\ FlattenSeq(s) = f[Len(s)]
  <1>1. PICK f : f = CHOOSE g : Joined(s, g)
    OBVIOUS
  <1>2. Joined(s, f)
    <2>1. Len(s) \in Nat
      OBVIOUS
    <2> QED BY <1>1, <2>1, JoinedExists
  <1>3. FlattenSeq(s) = f[Len(s)]
    BY <1>1 DEF FlattenSeq, Joined
  <1> QED BY <1>2, <1>3

\* No pieces join to nothing.
LEMMA NoneFlat == ASSUME NEW s, Len(s) = 0, s = <<>> PROVE FlattenSeq(s) = <<>>
  BY DEF FlattenSeq

\* Pieces of a kind join to a sequence of it, of what is in the pieces.
LEMMA Flattened ==
    ASSUME NEW Z, NEW s \in Seq(Seq(Z))
    PROVE  /\ FlattenSeq(s) \in Seq(Z)
           /\ \A z : z \in ToSet(FlattenSeq(s)) <=> \E i \in DOMAIN s : z \in ToSet(s[i])
  <1> PICK top : top = Len(s)
    OBVIOUS
  <1>0. top \in Nat /\ DOMAIN s = 1..top /\ \A i \in 1..top : s[i] \in Seq(Z)
    OBVIOUS
  <1>1. CASE top = 0
    <2>1. s = <<>> /\ Len(s) = 0
      BY <1>1, EmptySeq
    <2>2. FlattenSeq(s) = <<>>
      BY <2>1, NoneFlat
    <2>3. <<>> \in Seq(Z) /\ ToSet(<<>>) = {}
      BY DEF ToSet
    <2>4. DOMAIN s = {}
      BY <1>0, <1>1
    <2> QED BY <2>2, <2>3, <2>4
  <1>2. CASE top # 0
    <2>1. PICK f : Joined(s, f) /\ FlattenSeq(s) = f[top]
      BY <1>0, <1>2, FlattenIs
    <2> DEFINE A == {n \in 0..top : n # 0 =>
                       /\ f[n] \in Seq(Z)
                       /\ \A z : z \in ToSet(f[n]) <=> \E i \in 1..n : z \in ToSet(s[i])}
    <2>2. 0 \in A
      BY <1>0
    <2>3. ASSUME NEW n \in 0..(top - 1), n \in A PROVE n + 1 \in A
      <3>1. n + 1 \in 1..top /\ n + 1 \in 0..top /\ (n + 1) - 1 = n
        BY <1>0
      <3>2. CASE n = 0
        <4>1. f[n + 1] = s[n + 1]
          BY <2>1, <3>1, <3>2 DEF Joined
        <4>2. \A i : i \in 1..(n + 1) <=> i = n + 1
          BY <3>2
        <4> QED BY <1>0, <3>1, <4>1, <4>2
      <3>3. CASE n # 0
        <4>1. f[n + 1] = f[n] \o s[n + 1]
          <5>1. n + 1 # 1
            BY <3>3
          <5> QED BY <2>1, <3>1, <5>1 DEF Joined
        <4>2. f[n] \in Seq(Z) /\ s[n + 1] \in Seq(Z)
                /\ \A z : z \in ToSet(f[n]) <=> \E i \in 1..n : z \in ToSet(s[i])
          BY <1>0, <2>3, <3>1, <3>3
        <4>3. f[n + 1] \in Seq(Z)
          BY <4>1, <4>2, ConcatProperties
        <4>4. ToSet(f[n + 1]) = ToSet(f[n]) \union ToSet(s[n + 1])
          <5>1. Range(f[n] \o s[n + 1]) = Range(f[n]) \union Range(s[n + 1])
            BY <4>2, RangeConcatenation
          <5> QED BY <4>1, <5>1 DEF Range, ToSet
        <4>5. \A i : i \in 1..(n + 1) <=> (i \in 1..n \/ i = n + 1)
          BY <3>1
        <4>6. \A z : z \in ToSet(f[n + 1]) <=> \E i \in 1..(n + 1) : z \in ToSet(s[i])
          BY <4>2, <4>4, <4>5
        <4> QED BY <3>1, <4>3, <4>6
      <3> QED BY <3>2, <3>3
    <2>4. 0..top \subseteq A
      <3> HIDE DEF A
      <3> QED BY <1>0, <2>2, <2>3, UpTo
    <2>5. top \in A
      <3>1. top \in 0..top
        BY <1>0
      <3> HIDE DEF A
      <3> QED BY <2>4, <3>1
    <2> QED BY <1>0, <1>2, <2>1, <2>5
  <1> QED BY <1>1, <1>2

\* Lists of one element each: the list of them.
LEMMA FlattenOnes ==
    ASSUME NEW Z, NEW t \in Seq(Z), NEW s, s = [i \in 1..Len(t) |-> <<t[i]>>]
    PROVE  FlattenSeq(s) = t
  <1> PICK top : top = Len(t)
    OBVIOUS
  <1>0. top \in Nat /\ DOMAIN t = 1..top /\ Len(s) = top /\ \A i \in 1..top : t[i] \in Z
    OBVIOUS
  <1>1. CASE top = 0
    <2>1. s = <<>> /\ Len(s) = 0 /\ t = <<>>
      BY <1>0, <1>1, EmptySeq
    <2> QED BY <2>1, NoneFlat
  <1>2. CASE top # 0
    <2>1. PICK f : Joined(s, f) /\ FlattenSeq(s) = f[top]
      BY <1>0, <1>2, FlattenIs
    <2> DEFINE A == {n \in 0..top : n # 0 => f[n] = SubSeq(t, 1, n)}
    <2>2. 0 \in A
      BY <1>0
    <2>3. ASSUME NEW n \in 0..(top - 1), n \in A PROVE n + 1 \in A
      <3>1. n + 1 \in 1..top /\ n + 1 \in 0..top /\ (n + 1) - 1 = n
        BY <1>0
      <3>2. CASE n = 0
        <4>1. f[n + 1] = s[n + 1]
          BY <1>0, <2>1, <3>1, <3>2 DEF Joined
        <4>2. SubSeq(t, 1, 1) = <<t[1]>>
          <5>1. 1 <= top /\ 1 \in 1..top
            BY <1>0, <3>1
          <5>2. PICK u : u = SubSeq(t, 1, 1)
            OBVIOUS
          <5>3. u \in Seq(Z) /\ Len(u) = 1 /\ u[1] = t[1]
            BY <1>0, <5>1, <5>2
          <5>4. PICK w : w = <<t[1]>>
            OBVIOUS
          <5>5. w \in Seq(Z) /\ Len(w) = 1 /\ w[1] = t[1]
            BY <1>0, <5>1, <5>4
          <5>6. u = w
            <6>1. \A i \in 1..Len(u) : u[i] = w[i]
              BY <5>3, <5>5
            <6> QED BY <5>3, <5>5, <6>1, SeqEqual
          <5> QED BY <5>2, <5>4, <5>6
        <4> QED BY <3>1, <3>2, <4>1, <4>2
      <3>3. CASE n # 0
        <4>1. f[n + 1] = f[n] \o s[n + 1]
          <5>1. n + 1 # 1
            BY <3>3
          <5> QED BY <1>0, <2>1, <3>1, <5>1 DEF Joined
        <4>2. f[n] = SubSeq(t, 1, n) /\ s[n + 1] = <<t[n + 1]>>
          BY <1>0, <2>3, <3>1, <3>3
        <4>3. SubSeq(t, 1, n) \o <<t[n + 1]>> = SubSeq(t, 1, n + 1)
          BY <1>0, <3>1
        <4> QED BY <3>1, <4>1, <4>2, <4>3
      <3> QED BY <3>2, <3>3
    <2>4. 0..top \subseteq A
      <3> HIDE DEF A
      <3> QED BY <1>0, <2>2, <2>3, UpTo
    <2>5. f[top] = SubSeq(t, 1, top)
      <3>1. top \in 0..top
        BY <1>0
      <3>2. top \in A
        <4> HIDE DEF A
        <4> QED BY <2>4, <3>1
      <3> QED BY <1>2, <3>2
    <2>6. SubSeq(t, 1, top) = t
      BY <1>0
    <2> QED BY <2>1, <2>5, <2>6
  <1> QED BY <1>1, <1>2
\* The lists joined, one after the other from none.
JoinedTo(Z, s, j) ==
    /\ j[0] = <<>> /\ j[Len(s)] = FlattenSeq(s)
    /\ \A i \in 0..Len(s) : j[i] \in Seq(Z)
    /\ \A i \in 1..Len(s) : j[i] = j[i - 1] \o s[i]

\* There is such a function.
LEMMA JoinedFromNone ==
    ASSUME NEW Z, NEW s \in Seq(Seq(Z))
    PROVE  \E j : JoinedTo(Z, s, j)
  <1> PICK top : top = Len(s)
    OBVIOUS
  <1>0. top \in Nat /\ DOMAIN s = 1..top /\ \A i \in 1..top : s[i] \in Seq(Z)
    OBVIOUS
  <1>1. CASE top = 0
    <2>1. s = <<>> /\ Len(s) = 0
      BY <1>1, EmptySeq
    <2>2. FlattenSeq(s) = <<>>
      BY <2>1, NoneFlat
    <2>3. PICK j : j = [i \in 0..0 |-> <<>>]
      OBVIOUS
    <2>4. <<>> \in Seq(Z) /\ j[0] = <<>> /\ 0..top = {0} /\ 1..top = {}
      BY <1>1, <2>3
    <2>5. /\ \A i \in 0..Len(s) : j[i] \in Seq(Z)
          /\ \A i \in 1..Len(s) : j[i] = j[i - 1] \o s[i]
      BY <2>4
    <2>6. j[Len(s)] = FlattenSeq(s)
      BY <2>1, <2>2, <2>4
    <2>7. JoinedTo(Z, s, j)
      BY <2>4, <2>5, <2>6 DEF JoinedTo
    <2> QED BY <2>7
  <1>2. CASE top # 0
    <2>1. PICK f : Joined(s, f) /\ FlattenSeq(s) = f[top]
      BY <1>0, <1>2, FlattenIs
    <2>2. PICK j : j = [i \in 0..top |-> IF i = 0 THEN <<>> ELSE f[i]]
      OBVIOUS
    <2>3. ASSUME NEW i \in 1..top PROVE j[i] = f[i] /\ j[i] = j[i - 1] \o s[i]
      <3>1. i \in 0..top /\ i # 0 /\ i - 1 \in 0..top
        BY <1>0
      <3>2. j[i] = f[i]
        BY <2>2, <3>1
      <3>3. CASE i = 1
        <4>1. j[i - 1] = <<>> /\ f[i] = s[i]
          BY <1>0, <2>1, <2>2, <3>1, <3>3 DEF Joined
        <4>2. <<>> \o s[i] = s[i]
          BY <1>0
        <4> QED BY <3>2, <4>1, <4>2
      <3>4. CASE i # 1
        <4>0. i - 1 # 0
          BY <3>4
        <4>1. j[i - 1] = f[i - 1]
          BY <2>2, <3>1, <4>0
        <4>2. f[i] = f[i - 1] \o s[i]
          BY <1>0, <2>1, <3>4 DEF Joined
        <4> QED BY <3>2, <4>1, <4>2
      <3> QED BY <3>2, <3>3, <3>4
    <2>4. j[0] = <<>> /\ j[top] = FlattenSeq(s)
      <3>1. 0 \in 0..top /\ top \in 1..top
        BY <1>0, <1>2
      <3> QED BY <2>1, <2>2, <2>3, <3>1
    <2> DEFINE A == {i \in 0..top : j[i] \in Seq(Z)}
    <2>5. 0 \in A
      <3>1. 0 \in 0..top /\ <<>> \in Seq(Z)
        BY <1>0
      <3> QED BY <2>4, <3>1
    <2>6. ASSUME NEW i \in 0..(top - 1), i \in A PROVE i + 1 \in A
      <3>1. i + 1 \in 1..top /\ (i + 1) - 1 = i /\ i + 1 \in 0..top
        BY <1>0
      <3>2. j[i + 1] = j[i] \o s[i + 1] /\ s[i + 1] \in Seq(Z)
        BY <1>0, <2>3, <3>1
      <3>3. j[i] \in Seq(Z)
        BY <2>6
      <3>4. j[i + 1] \in Seq(Z)
        BY <3>2, <3>3, ConcatProperties
      <3> QED BY <3>1, <3>4
    <2>7. 0..top \subseteq A
      <3> HIDE DEF A
      <3> QED BY <1>0, <2>5, <2>6, UpTo
    <2>8. JoinedTo(Z, s, j)
      BY <2>3, <2>4, <2>7 DEF JoinedTo
    <2> QED BY <2>8
  <1> QED BY <1>1, <1>2

\* A fold goes along them.
LEMMA LeadsAlong ==
    ASSUME NEW m, NEW Z, NEW s \in Seq(Seq(Z)), NEW x,
           \A i \in 1..Len(s) : Leads(m, x[i - 1], s[i], x[i])
    PROVE  Leads(m, x[0], FlattenSeq(s), x[Len(s)])
  <1> PICK top : top = Len(s)
    OBVIOUS
  <1>0. top \in Nat /\ DOMAIN s = 1..top /\ \A i \in 1..top : s[i] \in Seq(Z)
    OBVIOUS
  <1>j. PICK j : JoinedTo(Z, s, j)
    BY JoinedFromNone
  <1>1. /\ j[0] = <<>> /\ j[top] = FlattenSeq(s)
        /\ \A i \in 0..top : j[i] \in Seq(Z)
        /\ \A i \in 1..top : j[i] = j[i - 1] \o s[i]
    BY <1>j DEF JoinedTo
  <1> DEFINE A == {i \in 0..top : Leads(m, x[0], j[i], x[i])}
  <1>2. 0 \in A
    BY <1>0, <1>1, LeadsNowhere
  <1>3. ASSUME NEW i \in 0..(top - 1), i \in A PROVE i + 1 \in A
    <2>1. i + 1 \in 1..top /\ (i + 1) - 1 = i /\ i + 1 \in 0..top
      BY <1>0
    <2>0. i \in 0..top /\ s[i + 1] \in Seq(Z)
      BY <1>0, <2>1
    <2>2. j[i + 1] = j[i] \o s[i + 1] /\ s[i + 1] \in Seq(Z) /\ j[i] \in Seq(Z)
      BY <1>1, <2>0, <2>1
    <2>3. Leads(m, x[0], j[i], x[i]) /\ Leads(m, x[i], s[i + 1], x[i + 1])
      BY <1>3, <2>1
    <2>4. Leads(m, x[0], j[i] \o s[i + 1], x[i + 1])
      BY <2>2, <2>3, LeadsThere
    <2> QED BY <2>1, <2>2, <2>4
  <1>4. top \in A
    <2>1. top \in 0..top
      BY <1>0
    <2> HIDE DEF A
    <2>2. 0..top \subseteq A
      BY <1>0, <1>2, <1>3, UpTo
    <2> QED BY <2>1, <2>2
  <1> QED BY <1>1, <1>4

\* What is kept of a sequence is of it; nothing is left out if all places are kept.
LEMMA KeptOf ==
    ASSUME NEW Z, NEW s \in Seq(Z), NEW places
    PROVE  /\ Kept(s, places) \in Seq(Z)
           /\ \A k \in DOMAIN Kept(s, places) :
                 \E i \in DOMAIN s : i \in places /\ Kept(s, places)[k] = s[i]
  <1>1. PICK t : t = [i \in DOMAIN s |-> IF i \in places THEN <<s[i]>> ELSE <<>>]
    OBVIOUS
  <1>2. t \in Seq(Seq(Z)) /\ DOMAIN t = DOMAIN s
    <2>1. Len(s) \in Nat /\ DOMAIN s = 1..Len(s) /\ \A i \in 1..Len(s) : s[i] \in Z
      OBVIOUS
    <2>2. \A i \in 1..Len(s) : t[i] \in Seq(Z)
      BY <1>1, <2>1
    <2> QED BY <1>1, <2>1, <2>2
  <1>3. Kept(s, places) = FlattenSeq(t)
    BY <1>1 DEF Kept
  <1>4. /\ FlattenSeq(t) \in Seq(Z)
        /\ \A z : z \in ToSet(FlattenSeq(t)) <=> \E i \in DOMAIN t : z \in ToSet(t[i])
    BY <1>2, Flattened
  <1>5. ASSUME NEW k \in DOMAIN FlattenSeq(t)
        PROVE  \E i \in DOMAIN s : i \in places /\ FlattenSeq(t)[k] = s[i]
    <2>1. FlattenSeq(t)[k] \in ToSet(FlattenSeq(t))
      BY DEF ToSet
    <2>2. PICK i \in DOMAIN s : FlattenSeq(t)[k] \in ToSet(t[i])
      BY <1>2, <1>4, <2>1
    <2>3. CASE i \in places
      <3>1. t[i] = <<s[i]>>
        BY <1>1, <2>3
      <3>2. \A l \in DOMAIN <<s[i]>> : <<s[i]>>[l] = s[i]
        OBVIOUS
      <3> QED BY <2>2, <2>3, <3>1, <3>2 DEF ToSet
    <2>4. CASE i \notin places
      <3>1. t[i] = <<>> /\ DOMAIN <<>> = {}
        BY <1>1, <2>4
      <3> QED BY <2>2, <3>1 DEF ToSet
    <2> QED BY <2>3, <2>4
  <1> QED BY <1>3, <1>4, <1>5

\* All places kept: the sequence itself.
LEMMA AllKept ==
    ASSUME NEW Z, NEW s \in Seq(Z), NEW places, DOMAIN s \subseteq places
    PROVE  Kept(s, places) = s
  <1>1. PICK t : t = [i \in 1..Len(s) |-> <<s[i]>>]
    OBVIOUS
  <1>2. DOMAIN s = 1..Len(s)
    OBVIOUS
  <1>3. t = [i \in DOMAIN s |-> IF i \in places THEN <<s[i]>> ELSE <<>>]
    BY <1>1, <1>2
  <1>4. FlattenSeq(t) = s
    BY <1>1, FlattenOnes
  <1> QED BY <1>3, <1>4 DEF Kept

\* Three loops of CsvImport are such folds.
Start == [mode |-> "start", val |-> <<>>, fields |-> <<>>]
InRow == [kind |-> "row"]
At(sep) == [kind |-> "split", sep |-> sep]
Storing(done) == [kind |-> "bulk", done |-> done]

\* The folds of CsvImport are folds by Step.
LEMMA RowFold == \A line : FoldLeft(ReadChar, Start, line) = Fold(InRow, Start, line)
  BY DEF FoldLeft, MapThenFoldSet, Fold, Step, InRow

LEMMA SplitFold == \A text, sep : Split(text, sep) = Fold(At(sep), <<<<>>>>, text)
  BY DEF Split, FoldLeft, MapThenFoldSet, Fold, Step, At

LEMMA BulkFold ==
    ASSUME NEW done, NEW held, NEW s
    PROVE  FoldLeft(LAMBDA h, i :
                       IF i \in done
                       THEN [h EXCEPT ![bulk.items[i].mac] =
                                 Stored(bulk.items[i], @, bulk.overwrite)]
                       ELSE h, held, s) = Fold(Storing(done), held, s)
  BY DEF FoldLeft, MapThenFoldSet, Fold, Step, Storing

----------------------------------------------------------------------------
\* Reading lines and cells.

\* The characters of the format.
LEMMA CharsDiffer ==
    /\ Quote # Comma /\ Quote # LF /\ Quote # Space /\ Comma # LF
    /\ Apostrophe # Quote /\ {Quote, Comma, Space, LF, Apostrophe} \subseteq Word
  BY DEF Quote, Comma, LF, Space, Apostrophe, Word

\* What is left of a text that is trimmed.
LEMMA TrimIs ==
    ASSUME NEW Z, NEW s \in Seq(Z)
    PROVE  /\ trim(s) \in Seq(Z)
           /\ trim(s) # <<>> => Len(trim(s)) >= 1 /\ trim(s)[1] \notin {Space, LF}
           /\ (\E i \in DOMAIN s : s[i] \notin {Space, LF}) => trim(s) # <<>>
  <1>1. PICK kept : kept = {i \in DOMAIN s : s[i] \notin {Space, LF}}
    OBVIOUS
  <1>2. CASE kept = {}
    <2>1. trim(s) = <<>>
      BY <1>1, <1>2 DEF trim
    <2> QED BY <1>1, <1>2, <2>1
  <1>3. CASE kept # {}
    <2>0. Len(s) \in Nat /\ DOMAIN s = 1..Len(s)
      OBVIOUS
    <2>1. kept \in SUBSET Nat /\ kept \in SUBSET (1..Len(s))
      BY <1>1, <2>0
    <2>2. Min(kept) \in kept /\ \A i \in kept : Min(kept) <= i
      BY <1>3, <2>1, MinIn
    <2>3. Max(kept) \in kept
      BY <1>3, <2>0, <2>1, MaxIn
    <2>4. trim(s) = SubSeq(s, Min(kept), Max(kept))
      BY <1>1, <1>3 DEF trim
    <2>5. PICK a \in 1..Len(s), b \in 1..Len(s) :
            a = Min(kept) /\ b = Max(kept) /\ a <= b /\ s[a] \notin {Space, LF}
      BY <1>1, <2>1, <2>2, <2>3
    <2>6. /\ SubSeq(s, a, b) \in Seq(Z) /\ Len(SubSeq(s, a, b)) = (b - a) + 1
          /\ SubSeq(s, a, b)[1] = s[a]
      BY <2>0, <2>5
    <2>7. SubSeq(s, a, b) # <<>>
      BY <2>5, <2>6
    <2> QED BY <2>4, <2>5, <2>6, <2>7
  <1> QED BY <1>2, <1>3

\* A word is trimmed to itself.
LEMMA TrimOne ==
    ASSUME NEW z, z \notin {Space, LF}
    PROVE  trim(<<z>>) = <<z>>
  <1>1. PICK s : s = <<z>>
    OBVIOUS
  <1>2. s \in Seq({z}) /\ Len(s) = 1 /\ s[1] = z /\ DOMAIN s = 1..1
    BY <1>1
  <1>3. PICK kept : kept = {i \in DOMAIN s : s[i] \notin {Space, LF}}
    OBVIOUS
  <1>4. kept = {1}
    BY <1>2, <1>3
  <1>5. kept \in SUBSET Nat /\ kept \in SUBSET (1..1) /\ kept # {} /\ 1 \in Nat
    BY <1>4
  <1>6. Min(kept) \in kept /\ Max(kept) \in kept
    BY <1>5, MinIn, MaxIn
  <1>7. trim(s) = SubSeq(s, 1, 1)
    BY <1>3, <1>4, <1>6 DEF trim
  <1>8. SubSeq(s, 1, 1) = s
    BY <1>2
  <1> QED BY <1>1, <1>7, <1>8

\* Apostrophes off, a text is still one,
LEMMA StripIs ==
    ASSUME NEW Z, NEW s \in Seq(Z)
    PROVE  stripQuotes(s) \in Seq(Z)
  <1>1. CASE Len(s) >= 2
    <2>1. SubSeq(s, 2, Len(s) - 1) \in Seq(Z)
      BY <1>1
    <2> QED BY <2>1 DEF stripQuotes
  <1>2. CASE ~(Len(s) >= 2)
    BY <1>2 DEF stripQuotes
  <1> QED BY <1>1, <1>2

\* and a word itself.
LEMMA StripOne == \A z : stripQuotes(<<z>>) = <<z>>
  BY DEF stripQuotes

\* What a fold leads to is of the type its steps keep.
LEMMA FoldTyped ==
    ASSUME NEW m, NEW Z, NEW X, NEW b \in X, NEW s \in Seq(Z),
           \A x \in X, c \in Z : Step(m, x, c) \in X
    PROVE  Fold(m, b, s) \in X
  <1>0. Len(s) \in Nat /\ DOMAIN s = 1..Len(s) /\ \A i \in 1..Len(s) : s[i] \in Z
    OBVIOUS
  <1>1. PICK r : Through(m, b, s, r) /\ Fold(m, b, s) = r[Len(s)]
    BY <1>0, FoldLeads DEF Leads
  <1> DEFINE A == {k \in 0..Len(s) : r[k] \in X}
  <1>2. 0 \in A
    BY <1>0, <1>1 DEF Through
  <1>3. ASSUME NEW k \in 0..(Len(s) - 1), k \in A PROVE k + 1 \in A
    <2>1. k + 1 \in 0..Len(s) /\ k + 1 # 0 /\ (k + 1) - 1 = k /\ s[k + 1] \in Z
      BY <1>0
    <2>2. r[k + 1] = Step(m, r[k], s[k + 1])
      BY <1>1, <2>1 DEF Through
    <2> QED BY <1>3, <2>1, <2>2
  <1>4. Len(s) \in A
    <2>1. Len(s) \in 0..Len(s)
      BY <1>0
    <2> HIDE DEF A
    <2>2. 0..Len(s) \subseteq A
      BY <1>0, <1>2, <1>3, UpTo
    <2> QED BY <2>1, <2>2
  <1> QED BY <1>1, <1>4

\* Rows and lines of a text are texts.
State == [mode : {"start", "plain", "quoted", "quote"}, val : Seq(Word), fields : Seq(Seq(Word))]

\* A character read keeps the state a state.
LEMMA ReadCharTyped ==
    ASSUME NEW p \in State, NEW c \in Word
    PROVE  ReadChar(p, c) \in State
  <1>1. <<c>> \in Seq(Word) /\ <<>> \in Seq(Word) /\ Quote \in Word
    BY CharsDiffer
  <1>2. Append(p.val, c) \in Seq(Word) /\ Append(p.val, Quote) \in Seq(Word)
    BY <1>1 DEF State
  <1>3. Append(p.fields, <<>>) \in Seq(Seq(Word)) /\ Append(p.fields, p.val) \in Seq(Seq(Word))
    BY <1>1 DEF State
  <1>4. Append(Append(p.fields, p.val), <<>>) \in Seq(Seq(Word))
    BY <1>1, <1>3
  <1>5. CASE p.mode = "start"
    BY <1>1, <1>3, <1>5 DEF ReadChar, State
  <1>6. CASE p.mode = "plain"
    BY <1>1, <1>2, <1>3, <1>6 DEF ReadChar, State
  <1>7. CASE p.mode = "quoted"
    BY <1>1, <1>2, <1>7 DEF ReadChar, State
  <1>8. CASE p.mode = "quote"
    BY <1>1, <1>2, <1>3, <1>4, <1>8 DEF ReadChar, State
  <1> QED BY <1>5, <1>6, <1>7, <1>8 DEF State

\* The cells of a line are texts.
LEMMA RowTyped ==
    ASSUME NEW line \in Seq(Word)
    PROVE  parseRow(line) \in Seq(Seq(Word))
  <1>1. Start \in State
    BY DEF Start, State
  <1>2. \A p \in State, c \in Word : Step(InRow, p, c) \in State
    BY ReadCharTyped DEF Step, InRow
  <1>3. PICK p : p = Fold(InRow, Start, line)
    OBVIOUS
  <1>4. p \in State
    BY <1>1, <1>2, <1>3, FoldTyped
  <1>5. parseRow(line) = CASE p.mode = "start" -> Append(p.fields, <<>>)
                           [] p.mode = "plain" -> Append(p.fields, p.val)
                           [] OTHER -> p.fields \o <<p.val, <<>>>>
    BY <1>3, RowFold DEF parseRow, Start
  <1>6. /\ p.fields \in Seq(Seq(Word)) /\ p.val \in Seq(Word)
        /\ p.mode \in {"start", "plain", "quoted", "quote"}
    BY <1>4 DEF State
  <1>7. <<>> \in Seq(Word)
    OBVIOUS
  <1>8. <<p.val, <<>>>> \in Seq(Seq(Word))
    BY <1>6, <1>7
  <1>9. p.fields \o <<p.val, <<>>>> \in Seq(Seq(Word))
    BY <1>6, <1>8
  <1>10. Append(p.fields, <<>>) \in Seq(Seq(Word)) /\ Append(p.fields, p.val) \in Seq(Seq(Word))
    BY <1>6, <1>7
  <1>11. CASE p.mode = "start"
    BY <1>5, <1>10, <1>11
  <1>12. CASE p.mode = "plain"
    BY <1>5, <1>10, <1>12
  <1>13. CASE p.mode \notin {"start", "plain"}
    BY <1>5, <1>9, <1>13
  <1> QED BY <1>11, <1>12, <1>13

\* A text is split into texts.
LEMMA SplitTyped ==
    ASSUME NEW text \in Seq(Word), NEW sep
    PROVE  Split(text, sep) \in Seq(Seq(Word))
  <1> DEFINE X == {x \in Seq(Seq(Word)) : Len(x) >= 1}
  <1>1. <<<<>>>> \in X
    OBVIOUS
  <1>2. ASSUME NEW x \in X, NEW c \in Word PROVE Step(At(sep), x, c) \in X
    <2>1. Len(x) \in DOMAIN x /\ x[Len(x)] \in Seq(Word)
      OBVIOUS
    <2>2. Append(x[Len(x)], c) \in Seq(Word) /\ <<>> \in Seq(Word)
      BY <2>1
    <2>3. Append(x, <<>>) \in X
      BY <2>2
    <2>4. [x EXCEPT ![Len(x)] = Append(@, c)] \in X
      BY <2>1, <2>2
    <2>5. At(sep).kind = "split" /\ At(sep).sep = sep
      BY DEF At
    <2> QED BY <2>3, <2>4, <2>5 DEF Step
  <1>3. Fold(At(sep), <<<<>>>>, text) \in X
    <2> HIDE DEF X
    <2> QED BY <1>1, <1>2, FoldTyped
  <1> QED BY <1>3, SplitFold

\* So are its lines.
LEMMA LinesTyped ==
    ASSUME NEW text \in Seq(Word)
    PROVE  Lines(text) \in Seq(Seq(Word))
  BY SplitTyped, KeptOf DEF Lines

\* A row of the import view.
Item == [mac : Seq(Word), group : Seq(Word), desc : Seq(Word), static : {"true", "false", "null"}]

\* A cell is a text,
LEMMA FieldTyped ==
    ASSUME NEW fields \in Seq(Seq(Word)), NEW i
    PROVE  Field(fields, i) \in Seq(Word)
  <1>1. CASE i \in DOMAIN fields
    <2>1. fields[i] \in Seq(Word)
      BY <1>1
    <2> QED BY <1>1, <2>1, TrimIs DEF Field
  <1>2. CASE i \notin DOMAIN fields
    BY <1>2 DEF Field
  <1> QED BY <1>1, <1>2

\* and a row an item.
LEMMA ItemsTyped ==
    ASSUME NEW fields \in Seq(Seq(Word)), NEW header
    PROVE  IseItem(header, fields) \in Item /\ SimpleItem(fields) \in Item
  <1>1. \A i : Field(fields, i) \in Seq(Word) /\ stripQuotes(Field(fields, i)) \in Seq(Word)
    BY FieldTyped, StripIs
  <1>2. \A cell : parseBoolCell(cell) \in {"true", "false", "null"}
    BY DEF parseBoolCell
  <1> QED BY <1>1, <1>2 DEF IseItem, SimpleItem, Item

\* The rows of a text, and its first.
RowsIn(text) == [i \in DOMAIN Lines(text) |-> parseRow(Lines(text)[i])]
\* The names in the first row.
HeaderIn(text) == [i \in DOMAIN RowsIn(text)[1] |-> trim(RowsIn(text)[1][i])]

\* What is made of them.
Named(header, n) == \E i \in DOMAIN header : header[i] = <<n>>
\* What parseCsv makes of the rows.
CsvOf(rows, header) ==
    IF rows = <<>> THEN <<>>
    ELSE IF Named(header, "MACAddress")
    THEN LET items == [i \in 1..(Len(rows) - 1) |-> IseItem(header, rows[i + 1])]
         IN Kept(items, {i \in DOMAIN items : items[i].mac # <<>>})
    ELSE LET first == IF Named(header, "mac") THEN 2 ELSE 1 IN
         [i \in 1..(Len(rows) - first + 1) |-> SimpleItem(rows[i + first - 1])]

\* parseCsv in these terms.
LEMMA ParseIs ==
    \A text : parseCsv(text) =
                CsvOf(RowsIn(text), IF RowsIn(text) = <<>> THEN <<>> ELSE HeaderIn(text))
  BY DEF parseCsv, CsvOf, RowsIn, HeaderIn, Named

\* A row for each line, of texts.
LEMMA RowsTyped ==
    ASSUME NEW text \in Seq(Word)
    PROVE  RowsIn(text) \in Seq(Seq(Seq(Word))) /\ Len(RowsIn(text)) = Len(Lines(text))
  <1>1. PICK l : l = Lines(text)
    OBVIOUS
  <1>2. l \in Seq(Seq(Word))
    BY <1>1, LinesTyped
  <1>3. Len(l) \in Nat /\ DOMAIN l = 1..Len(l) /\ \A i \in 1..Len(l) : l[i] \in Seq(Word)
    BY <1>2
  <1>4. RowsIn(text) = [i \in 1..Len(l) |-> parseRow(l[i])]
    BY <1>1, <1>3 DEF RowsIn
  <1>5. \A i \in 1..Len(l) : parseRow(l[i]) \in Seq(Seq(Word))
    BY <1>3, RowTyped
  <1> QED BY <1>1, <1>3, <1>4, <1>5

\* What is read are items.
LEMMA ParseTyped ==
    ASSUME NEW text \in Seq(Word)
    PROVE  parseCsv(text) \in Seq(Item)
  <1>1. PICK rows : rows = RowsIn(text)
    OBVIOUS
  <1>2. /\ rows \in Seq(Seq(Seq(Word))) /\ Len(rows) \in Nat
        /\ \A i \in 1..Len(rows) : rows[i] \in Seq(Seq(Word))
    BY <1>1, RowsTyped
  <1>3. PICK header : parseCsv(text) = CsvOf(rows, header)
    BY <1>1, ParseIs
  <1>4. CASE rows = <<>>
    <2>1. parseCsv(text) = <<>>
      BY <1>3, <1>4 DEF CsvOf
    <2> QED BY <2>1
  <1>5. CASE rows # <<>>
    <2>1. Len(rows) >= 1
      BY <1>2, <1>5
    <2>2. PICK items : items = [i \in 1..(Len(rows) - 1) |-> IseItem(header, rows[i + 1])]
      OBVIOUS
    <2>3. \A i \in 1..(Len(rows) - 1) : i + 1 \in 1..Len(rows)
      BY <1>2
    <2>4. \A i \in 1..(Len(rows) - 1) : IseItem(header, rows[i + 1]) \in Item
      BY <1>2, <2>3, ItemsTyped
    <2>5. items \in Seq(Item)
      BY <1>2, <2>1, <2>2, <2>4
    <2>6. ASSUME NEW first \in {1, 2}
          PROVE  [i \in 1..(Len(rows) - first + 1)
                     |-> SimpleItem(rows[i + first - 1])] \in Seq(Item)
      <3>1. \A i \in 1..(Len(rows) - first + 1) : i + first - 1 \in 1..Len(rows)
        BY <1>2
      <3>2. \A i \in 1..(Len(rows) - first + 1) : SimpleItem(rows[i + first - 1]) \in Item
        BY <1>2, <3>1, ItemsTyped
      <3>3. Len(rows) - first + 1 \in Nat
        BY <1>2, <2>1
      <3> QED BY <3>2, <3>3
    <2>7. Kept(items, {i \in DOMAIN items : items[i].mac # <<>>}) \in Seq(Item)
      BY <2>5, KeptOf
    <2>8. \/ parseCsv(text) = Kept(items, {i \in DOMAIN items : items[i].mac # <<>>})
          \/ \E first \in {1, 2} : parseCsv(text) =
               [i \in 1..(Len(rows) - first + 1) |-> SimpleItem(rows[i + first - 1])]
      <3>1. CASE Named(header, "MACAddress")
        BY <1>3, <1>5, <2>2, <3>1 DEF CsvOf
      <3>2. ASSUME ~Named(header, "MACAddress")
            PROVE  \E first \in {1, 2} : parseCsv(text) =
                      [i \in 1..(Len(rows) - first + 1) |-> SimpleItem(rows[i + first - 1])]
        <4>1. PICK first \in {1, 2} : first = IF Named(header, "mac") THEN 2 ELSE 1
          OBVIOUS
        <4> QED BY <1>3, <1>5, <3>2, <4>1 DEF CsvOf
      <3> QED BY <3>1, <3>2
    <2> QED BY <2>6, <2>7, <2>8
  <1> QED BY <1>4, <1>5

\* A cell in quotes is read as itself.
LEMMA QuoteReads ==
    ASSUME NEW Z, Quote \in Z, NEW cell \in Seq(Z), NEW fs, NEW p,
           p = [mode |-> "start", val |-> <<>>, fields |-> fs]
    PROVE  /\ csvQuote(cell) \in Seq(Z)
           /\ Leads(InRow, p, csvQuote(cell), [mode |-> "quote", val |-> cell, fields |-> fs])
  <1>0. Len(cell) \in Nat /\ DOMAIN cell = 1..Len(cell) /\ \A i \in 1..Len(cell) : cell[i] \in Z
    OBVIOUS
  <1>1. PICK esc : esc = [i \in 1..Len(cell) |-> IF cell[i] = Quote THEN <<Quote, Quote>>
                 ELSE <<cell[i]>>]
    OBVIOUS
  <1>2. esc \in Seq(Seq(Z)) /\ Len(esc) = Len(cell)
    <2>1. <<Quote, Quote>> \in Seq(Z) /\ \A i \in 1..Len(cell) : <<cell[i]>> \in Seq(Z)
      BY <1>0
    <2> QED BY <1>0, <1>1, <2>1
  <1>3. csvQuote(cell) = (<<Quote>> \o FlattenSeq(esc)) \o <<Quote>>
    BY <1>0, <1>1 DEF csvQuote
  <1> DEFINE In(v) == [mode |-> "quoted", val |-> v, fields |-> fs]
             Out(v) == [mode |-> "quote", val |-> v, fields |-> fs]
             x == [i \in 0..Len(cell) |-> In(SubSeq(cell, 1, i))]
  <1>4. ASSUME NEW v PROVE Step(InRow, In(v), Quote) = Out(v)
               /\ Step(InRow, Out(v), Quote) = In(Append(v, Quote))
    BY DEF Step, InRow, ReadChar
  <1>5. ASSUME NEW v, NEW c, c # Quote PROVE Step(InRow, In(v), c) = In(Append(v, c))
    BY <1>5 DEF Step, InRow, ReadChar
  <1>6. Step(InRow, p, Quote) = In(<<>>)
    BY DEF Step, InRow, ReadChar
  <1> HIDE DEF In, Out
  <1>7. ASSUME NEW b, NEW c \in Z PROVE Leads(InRow, b, <<c>>, Step(InRow, b, c))
    <2>1. <<>> \in Seq(Z) /\ Append(<<>>, c) = <<c>>
      OBVIOUS
    <2> QED BY <2>1, LeadsNowhere, LeadsOn
  <1>8. ASSUME NEW i \in 1..Len(esc) PROVE Leads(InRow, x[i - 1], esc[i], x[i])
    <2>1. i \in 0..Len(cell) /\ i - 1 \in 0..Len(cell)
      BY <1>0, <1>2
    <2>2. x[i] = In(SubSeq(cell, 1, i)) /\ x[i - 1] = In(SubSeq(cell, 1, i - 1))
      BY <2>1
    <2>3. SubSeq(cell, 1, i) = Append(SubSeq(cell, 1, i - 1), cell[i]) /\ cell[i] \in Z
      BY <1>0, <1>2
    <2>4. PICK v : v = SubSeq(cell, 1, i - 1)
      OBVIOUS
    <2> HIDE DEF x
    <2>5. CASE cell[i] = Quote
      <3>1. esc[i] = Append(<<Quote>>, Quote) /\ <<Quote>> \in Seq(Z)
        BY <1>1, <1>2, <2>5
      <3>2. Leads(InRow, In(v), <<Quote>>, Out(v))
        BY <1>4, <1>7
      <3>3. Leads(InRow, In(v), Append(<<Quote>>, Quote), Step(InRow, Out(v), Quote))
        BY <3>1, <3>2, LeadsOn
      <3> QED BY <1>4, <2>2, <2>3, <2>4, <2>5, <3>1, <3>3
    <2>6. CASE cell[i] # Quote
      <3>1. esc[i] = <<cell[i]>>
        BY <1>1, <1>2, <2>6
      <3> QED BY <1>5, <1>7, <2>2, <2>3, <2>4, <2>6, <3>1
    <2> QED BY <2>5, <2>6
  <1>9. x[0] = In(<<>>) /\ x[Len(cell)] = In(cell)
    <2>1. SubSeq(cell, 1, 0) = <<>> /\ SubSeq(cell, 1, Len(cell)) = cell
          /\ 0 \in 0..Len(cell) /\ Len(cell) \in 0..Len(cell)
      BY <1>0
    <2> QED BY <2>1
  <1>10. Leads(InRow, In(<<>>), FlattenSeq(esc), In(cell)) /\ FlattenSeq(esc) \in Seq(Z)
    <2> HIDE DEF x
    <2> QED BY <1>2, <1>8, <1>9, LeadsAlong, Flattened
  <1>11. Leads(InRow, p, <<Quote>>, In(<<>>)) /\ <<Quote>> \in Seq(Z)
    BY <1>6, <1>7
  <1>12. Leads(InRow, p, <<Quote>> \o FlattenSeq(esc), In(cell))
         /\ <<Quote>> \o FlattenSeq(esc) \in Seq(Z)
    <2>1. <<Quote>> \o FlattenSeq(esc) \in Seq(Z)
      BY <1>10, <1>11, ConcatProperties
    <2> QED BY <1>10, <1>11, <2>1, LeadsThere
  <1>13. Leads(InRow, In(cell), <<Quote>>, Out(cell))
    BY <1>4, <1>7
  <1>14. Leads(InRow, p, (<<Quote>> \o FlattenSeq(esc)) \o <<Quote>>, Out(cell))
    BY <1>11, <1>12, <1>13, LeadsThere
  <1>15. (<<Quote>> \o FlattenSeq(esc)) \o <<Quote>> \in Seq(Z)
    BY <1>11, <1>12
  <1> QED BY <1>3, <1>14, <1>15 DEF Out

----------------------------------------------------------------------------
\* A line in quotes and a text of lines are read back.

\* A row of an export: its cells in quotes, with a comma between any two.
RowWith(cells) == Join([i \in DOMAIN cells |-> csvQuote(cells[i])], Comma)

\* A single step.
LEMMA OneStep ==
    ASSUME NEW m, NEW b, NEW Z, NEW c \in Z
    PROVE  Leads(m, b, <<c>>, Step(m, b, c)) /\ <<c>> \in Seq(Z)
  <1>1. <<>> \in Seq(Z) /\ Append(<<>>, c) = <<c>> /\ <<c>> \in Seq(Z)
    OBVIOUS
  <1> QED BY <1>1, LeadsNowhere, LeadsOn

\* What is in quotes holds a quote.
LEMMA QuoteStarts ==
    ASSUME NEW Z, Quote \in Z, NEW cell \in Seq(Z)
    PROVE  Quote \in ToSet(csvQuote(cell))
  <1>1. PICK f : csvQuote(cell) = (<<Quote>> \o f) \o <<Quote>> /\ f \in Seq(Z)
    <2>1. PICK esc : esc = [i \in DOMAIN cell |-> IF cell[i] = Quote THEN <<Quote, Quote>>
                   ELSE <<cell[i]>>]
      OBVIOUS
    <2>2. esc \in Seq(Seq(Z))
      <3>1. Len(cell) \in Nat /\ DOMAIN cell = 1..Len(cell)
            /\ \A i \in 1..Len(cell) : cell[i] \in Z
        OBVIOUS
      <3>2. <<Quote, Quote>> \in Seq(Z) /\ \A i \in 1..Len(cell) : <<cell[i]>> \in Seq(Z)
        BY <3>1
      <3> QED BY <2>1, <3>1, <3>2
    <2>3. FlattenSeq(esc) \in Seq(Z)
      BY <2>2, Flattened
    <2> QED BY <2>1, <2>3 DEF csvQuote
  <1>2. PICK q : q = (<<Quote>> \o f) \o <<Quote>>
    OBVIOUS
  <1>3. q[1] = Quote /\ 1 \in DOMAIN q
    BY <1>1, <1>2
  <1> QED BY <1>1, <1>2, <1>3 DEF ToSet

\* A line of cells in quotes is read as the cells and one more, empty: the quotes in
\* them that are doubled, and the commas, are theirs.
THEOREM RowReads ==
    ASSUME NEW Z, Quote \in Z, Comma \in Z, NEW cells \in Seq(Seq(Z)), cells # <<>>
    PROVE  /\ RowWith(cells) \in Seq(Z) /\ Quote \in ToSet(RowWith(cells))
           /\ parseRow(RowWith(cells)) = cells \o <<<<>>>>
  <1> PICK n : n = Len(cells)
    OBVIOUS
  <1>0. /\ n \in Nat /\ n >= 1 /\ DOMAIN cells = 1..n
        /\ \A i \in 1..n : cells[i] \in Seq(Z)
    BY EmptySeq
  <1>1. PICK s : s = [i \in 1..n |-> IF i = 1 THEN csvQuote(cells[i])
                 ELSE <<Comma>> \o csvQuote(cells[i])]
    OBVIOUS
  <1>2. \A i \in 1..n : csvQuote(cells[i]) \in Seq(Z) /\ Quote \in ToSet(csvQuote(cells[i]))
    <2>1. \A i \in 1..n : csvQuote(cells[i]) \in Seq(Z)
      <3>1. PICK p : p = [mode |-> "start", val |-> <<>>, fields |-> <<>>]
        OBVIOUS
      <3> QED BY <1>0, <3>1, QuoteReads
    <2> QED BY <1>0, <2>1, QuoteStarts
  <1>3. s \in Seq(Seq(Z)) /\ Len(s) = n /\ DOMAIN s = 1..n
    <2>1. <<Comma>> \in Seq(Z)
      OBVIOUS
    <2>2. \A i \in 1..n : <<Comma>> \o csvQuote(cells[i]) \in Seq(Z)
      BY <1>2, <2>1, ConcatProperties
    <2>3. \A i \in 1..n : s[i] \in Seq(Z)
      BY <1>1, <1>2, <2>2
    <2> QED BY <1>0, <1>1, <2>3
  <1>4. RowWith(cells) = FlattenSeq(s)
    <2>1. PICK q : q = [i \in 1..n |-> csvQuote(cells[i])]
      OBVIOUS
    <2>2. RowWith(cells) = Join(q, Comma)
      BY <1>0, <2>1 DEF RowWith
    <2>3. s = [i \in DOMAIN q |-> IF i = 1 THEN q[i] ELSE <<Comma>> \o q[i]]
      BY <1>1, <2>1
    <2> QED BY <2>2, <2>3 DEF Join
  <1>5. RowWith(cells) \in Seq(Z) /\ Quote \in ToSet(RowWith(cells))
    <2>1. s[1] = csvQuote(cells[1]) /\ 1 \in DOMAIN s
      BY <1>0, <1>1, <1>3
    <2>2. Quote \in ToSet(s[1])
      BY <1>0, <1>2, <2>1
    <2> QED BY <1>3, <1>4, <2>1, <2>2, Flattened
  <1> DEFINE After(v, fs) == [mode |-> "quote", val |-> v, fields |-> fs]
             New(fs) == [mode |-> "start", val |-> <<>>, fields |-> fs]
             x == [i \in 0..n |-> IF i = 0 THEN Start
                                  ELSE After(cells[i], SubSeq(cells, 1, i - 1))]
  <1>6. \A v, fs : Step(InRow, After(v, fs), Comma) = New(Append(fs, v))
    BY CharsDiffer DEF Step, InRow, ReadChar
  <1>7. \A fs : \A i \in 1..n : Leads(InRow, New(fs), csvQuote(cells[i]), After(cells[i], fs))
    BY <1>0, QuoteReads
  <1>8. Start = New(<<>>)
    BY DEF Start
  <1> HIDE DEF After, New
  <1>9. ASSUME NEW i \in 1..Len(s) PROVE Leads(InRow, x[i - 1], s[i], x[i])
    <2>1. i \in 1..n /\ i \in 0..n /\ i - 1 \in 0..n /\ i # 0
      BY <1>0, <1>3
    <2>2. x[i] = After(cells[i], SubSeq(cells, 1, i - 1))
      BY <2>1
    <2>3. CASE i = 1
      <3>1. x[i - 1] = New(<<>>) /\ SubSeq(cells, 1, i - 1) = <<>> /\ s[i] = csvQuote(cells[i])
        BY <1>1, <1>8, <2>1, <2>3
      <3> HIDE DEF x
      <3> QED BY <1>7, <2>1, <2>2, <3>1
    <2>4. CASE i # 1
      <3>1. i - 1 \in 1..n /\ i - 1 # 0
        BY <2>1, <2>4
      <3>2. x[i - 1] = After(cells[i - 1], SubSeq(cells, 1, (i - 1) - 1))
        BY <2>1, <3>1
      <3> HIDE DEF x
      <3>3. PICK h \in 1..n : h = i - 1
        BY <3>1
      <3>4. SubSeq(cells, 1, h) = Append(SubSeq(cells, 1, h - 1), cells[h])
        BY <1>0
      <3>5. Leads(InRow, x[i - 1], <<Comma>>, New(SubSeq(cells, 1, i - 1)))
            /\ <<Comma>> \in Seq(Z)
        BY <1>6, <3>2, <3>3, <3>4, OneStep
      <3>6. Leads(InRow, New(SubSeq(cells, 1, i - 1)), csvQuote(cells[i]), x[i])
        BY <1>7, <2>1, <2>2
      <3>7. s[i] = <<Comma>> \o csvQuote(cells[i]) /\ csvQuote(cells[i]) \in Seq(Z)
        BY <1>1, <1>2, <2>1, <2>4
      <3> QED BY <3>5, <3>6, <3>7, LeadsThere
    <2> QED BY <2>3, <2>4
  <1>10. x[0] = Start /\ x[n] = After(cells[n], SubSeq(cells, 1, n - 1))
    BY <1>0
  <1>11. Leads(InRow, Start, FlattenSeq(s), After(cells[n], SubSeq(cells, 1, n - 1)))
    <2> HIDE DEF x
    <2> QED BY <1>3, <1>9, <1>10, LeadsAlong
  <1>12. PICK line : line = FlattenSeq(s)
    OBVIOUS
  <1>13. Fold(InRow, Start, line) = After(cells[n], SubSeq(cells, 1, n - 1))
    <2>1. line \in Seq(Z)
      BY <1>4, <1>5, <1>12
    <2>2. Len(line) \in Nat /\ DOMAIN line = 1..Len(line)
      BY <2>1
    <2>3. Leads(InRow, Start, line, Fold(InRow, Start, line))
      BY <2>2, FoldLeads
    <2> QED BY <1>11, <1>12, <2>2, <2>3, LeadsToOne
  <1>14. parseRow(line) = SubSeq(cells, 1, n - 1) \o <<cells[n], <<>>>>
    <2>1. PICK p : p = Fold(InRow, Start, line)
      OBVIOUS
    <2>2. p.mode = "quote" /\ p.val = cells[n] /\ p.fields = SubSeq(cells, 1, n - 1)
      BY <1>13, <2>1 DEF After
    <2>3. parseRow(line) = CASE p.mode = "start" -> Append(p.fields, <<>>)
                             [] p.mode = "plain" -> Append(p.fields, p.val)
                             [] OTHER -> p.fields \o <<p.val, <<>>>>
      BY <2>1, RowFold DEF parseRow, Start
    <2>4. parseRow(line) = p.fields \o <<p.val, <<>>>>
      BY <2>2, <2>3
    <2> QED BY <2>2, <2>4
  <1>15. SubSeq(cells, 1, n - 1) \o <<cells[n], <<>>>> = cells \o <<<<>>>>
    <2>1. <<>> \in Seq(Z)
      OBVIOUS
    <2>2. PICK w : w = <<>> /\ w \in Seq(Z)
      BY <2>1
    <2>3. PICK l : l = SubSeq(cells, 1, n - 1) \o <<cells[n], w>>
      OBVIOUS
    <2>4. PICK r : r = cells \o <<w>>
      OBVIOUS
    <2>5. /\ SubSeq(cells, 1, n - 1) \in Seq(Seq(Z)) /\ Len(SubSeq(cells, 1, n - 1)) = n - 1
          /\ \A i \in 1..(n - 1) : SubSeq(cells, 1, n - 1)[i] = cells[i]
      BY <1>0
    <2>6. l \in Seq(Seq(Z)) /\ r \in Seq(Seq(Z)) /\ Len(l) = n + 1 /\ Len(r) = n + 1
      BY <1>0, <2>2, <2>3, <2>4, <2>5
    <2>7. \A i \in 1..(n + 1) : r[i] = IF i <= n THEN cells[i] ELSE w
      BY <1>0, <2>4
    <2>8. \A i \in 1..(n + 1) : l[i] = IF i <= n THEN cells[i] ELSE w
      <3>1. ASSUME NEW i \in 1..(n - 1) PROVE l[i] = cells[i]
        BY <1>0, <2>3, <2>5
      <3>2. PICK a : a = SubSeq(cells, 1, n - 1)
        OBVIOUS
      <3>3. a \in Seq(Seq(Z)) /\ Len(a) = n - 1
        BY <2>5, <3>2
      <3>4. PICK b : b = <<cells[n], w>>
        OBVIOUS
      <3>5. b \in Seq(Seq(Z)) /\ Len(b) = 2 /\ b[1] = cells[n] /\ b[2] = w
        BY <1>0, <2>2, <3>4
      <3>6. l = a \o b
        BY <2>3, <3>2, <3>4
      <3>7. l[n] = b[1] /\ l[n + 1] = b[2]
        <4>1. \A i \in 1..(Len(a) + Len(b)) : (a \o b)[i] = IF i <= Len(a) THEN a[i]
                  ELSE b[i - Len(a)]
          BY <3>3, <3>5, ConcatProperties
        <4>2. n \in 1..(Len(a) + Len(b)) /\ n + 1 \in 1..(Len(a) + Len(b)) /\ ~(n <= Len(a))
              /\ ~(n + 1 <= Len(a))
              /\ n - Len(a) = 1 /\ (n + 1) - Len(a) = 2
          BY <1>0, <3>3, <3>5
        <4>3. (a \o b)[n] = b[n - Len(a)] /\ (a \o b)[n + 1] = b[(n + 1) - Len(a)]
          BY <4>1, <4>2
        <4> QED BY <3>6, <4>2, <4>3
      <3>8. l[n] = cells[n] /\ l[n + 1] = w
        BY <3>5, <3>7
      <3> QED BY <1>0, <3>1, <3>8
    <2>9. l = r
      BY <2>6, <2>7, <2>8, SeqEqual
    <2> QED BY <2>2, <2>3, <2>4, <2>9
  <1> QED BY <1>4, <1>5, <1>12, <1>14, <1>15

\* Lines joined are split again.
THEOREM LinesRead ==
    ASSUME NEW Z, LF \notin Z, NEW lines \in Seq(Seq(Z)), lines # <<>>
    PROVE  Split(Join(lines, LF), LF) = lines /\ Join(lines, LF) \in Seq(Z \union {LF})
  <1> PICK n : n = Len(lines)
    OBVIOUS
  <1> PICK Y : Y = Z \union {LF}
    OBVIOUS
  <1>0. /\ n \in Nat /\ n >= 1 /\ DOMAIN lines = 1..n
        /\ \A i \in 1..n : lines[i] \in Seq(Z) /\ lines[i] \in Seq(Y)
    <2>1. n \in Nat /\ n >= 1 /\ DOMAIN lines = 1..n /\ \A i \in 1..n : lines[i] \in Seq(Z)
      BY EmptySeq
    <2>2. ASSUME NEW t \in Seq(Z) PROVE t \in Seq(Y)
      OBVIOUS
    <2> QED BY <2>1, <2>2
  <1>1. PICK s : s = [i \in 1..n |-> IF i = 1 THEN lines[i] ELSE <<LF>> \o lines[i]]
    OBVIOUS
  <1>2. s \in Seq(Seq(Y)) /\ Len(s) = n
    <2>1. <<LF>> \in Seq(Y)
      OBVIOUS
    <2>2. \A i \in 1..n : <<LF>> \o lines[i] \in Seq(Y)
      BY <1>0, <2>1, ConcatProperties
    <2>3. \A i \in 1..n : s[i] \in Seq(Y)
      BY <1>0, <1>1, <2>2
    <2>4. s \in [1..n -> Seq(Y)] /\ n \in Nat
      BY <1>0, <1>1, <2>3
    <2> QED BY <2>4
  <1>3. Join(lines, LF) = FlattenSeq(s)
    BY <1>0, <1>1 DEF Join
  <1>4. FlattenSeq(s) \in Seq(Y)
    BY <1>2, Flattened
  <1>5. ASSUME NEW acc \in Seq(Seq(Y)), NEW u \in Seq(Y), NEW c \in Z
        PROVE  Step(At(LF), Append(acc, u), c) = Append(acc, Append(u, c))
    <2>1. c # LF
      OBVIOUS
    <2>2. Step(At(LF), Append(acc, u), c)
            = [Append(acc, u) EXCEPT ![Len(Append(acc, u))] = Append(@, c)]
      BY <2>1 DEF Step, At
    <2>3. Append(u, c) \in Seq(Y) /\ Append(acc, u) \in Seq(Seq(Y)) /\ Len(acc) \in Nat
          /\ Len(Append(acc, u)) = Len(acc) + 1 /\ Append(acc, u)[Len(acc) + 1] = u
          /\ \A i \in 1..Len(acc) : Append(acc, u)[i] = acc[i]
      <3>1. c \in Y
        OBVIOUS
      <3> QED BY <3>1, AppendProperties
    <2>4. PICK l : l = [Append(acc, u) EXCEPT ![Len(Append(acc, u))] = Append(@, c)]
      OBVIOUS
    <2>5. PICK r : r = Append(acc, Append(u, c))
      OBVIOUS
    <2>6. /\ l \in Seq(Seq(Y)) /\ r \in Seq(Seq(Y)) /\ Len(l) = Len(acc) + 1
          /\ Len(r) = Len(acc) + 1
          /\ l[Len(acc) + 1] = Append(u, c) /\ r[Len(acc) + 1] = Append(u, c)
          /\ \A i \in 1..Len(acc) : l[i] = acc[i] /\ r[i] = acc[i]
      <3>1. PICK a : a = Append(acc, u)
        OBVIOUS
      <3>2. PICK v : v = Append(u, c)
        OBVIOUS
      <3>3. l = [a EXCEPT ![Len(a)] = Append(@, c)] /\ r = Append(acc, v) /\ v \in Seq(Y)
        BY <2>3, <2>4, <2>5, <3>1, <3>2
      <3>4. a \in Seq(Seq(Y)) /\ Len(a) = Len(acc) + 1 /\ a[Len(a)] = u
            /\ \A i \in 1..Len(acc) : a[i] = acc[i]
        BY <2>3, <3>1
      <3>5. l = [a EXCEPT ![Len(a)] = v]
        BY <3>2, <3>3, <3>4
      <3>6. l \in Seq(Seq(Y)) /\ Len(l) = Len(a) /\ l[Len(a)] = v
            /\ \A i \in 1..Len(acc) : l[i] = a[i]
        <4>1. Len(a) \in 1..Len(a) /\ DOMAIN a = 1..Len(a)
              /\ \A i \in 1..Len(acc) : i # Len(a) /\ i \in 1..Len(a)
          BY <2>3, <3>4
        <4> QED BY <3>3, <3>4, <3>5, <4>1
      <3>7. r \in Seq(Seq(Y)) /\ Len(r) = Len(acc) + 1 /\ r[Len(acc) + 1] = v
            /\ \A i \in 1..Len(acc) : r[i] = acc[i]
        BY <3>3, AppendProperties
      <3> QED BY <2>3, <3>2, <3>4, <3>6, <3>7
    <2>7. ASSUME NEW i \in 1..(Len(acc) + 1) PROVE l[i] = r[i]
      <3>1. i \in 1..Len(acc) \/ i = Len(acc) + 1
        BY <2>3
      <3>2. CASE i \in 1..Len(acc)
        BY <2>6, <3>2
      <3>3. CASE i = Len(acc) + 1
        BY <2>6, <3>3
      <3> QED BY <3>1, <3>2, <3>3
    <2>8. l = r
      BY <2>6, <2>7, SeqEqual
    <2> QED BY <2>2, <2>4, <2>5, <2>8
  <1>6. ASSUME NEW acc \in Seq(Seq(Y)), NEW line \in Seq(Z)
        PROVE  Leads(At(LF), Append(acc, <<>>), line, Append(acc, line))
    <2>0. /\ Len(line) \in Nat /\ DOMAIN line = 1..Len(line)
          /\ \A k \in 1..Len(line) : line[k] \in Z
          /\ \A k \in 0..Len(line) : SubSeq(line, 1, k) \in Seq(Y)
      OBVIOUS
    <2>1. PICK t : t = [k \in 1..Len(line) |-> <<line[k]>>]
      OBVIOUS
    <2>2. t \in Seq(Seq(Z)) /\ Len(t) = Len(line)
      <3>1. \A k \in 1..Len(line) : <<line[k]>> \in Seq(Z)
        BY <2>0
      <3> QED BY <2>0, <2>1, <3>1
    <2>3. FlattenSeq(t) = line
      BY <2>1, FlattenOnes
    <2> DEFINE x == [k \in 0..Len(line) |-> Append(acc, SubSeq(line, 1, k))]
    <2>4. ASSUME NEW k \in 1..Len(t) PROVE Leads(At(LF), x[k - 1], t[k], x[k])
      <3>1. k \in 1..Len(line) /\ k \in 0..Len(line) /\ k - 1 \in 0..Len(line)
        BY <2>0, <2>2
      <3>2. x[k] = Append(acc, SubSeq(line, 1, k))
            /\ x[k - 1] = Append(acc, SubSeq(line, 1, k - 1))
        BY <3>1
      <3> HIDE DEF x
      <3>3. SubSeq(line, 1, k) = Append(SubSeq(line, 1, k - 1), line[k]) /\ line[k] \in Z
        BY <2>0, <3>1
      <3>4. SubSeq(line, 1, k - 1) \in Seq(Y)
        BY <2>0, <3>1
      <3>5. Step(At(LF), x[k - 1], line[k]) = x[k]
        <4>1. PICK u : u = SubSeq(line, 1, k - 1)
          OBVIOUS
        <4>2. PICK c : c = line[k]
          OBVIOUS
        <4>3. Step(At(LF), Append(acc, u), c) = Append(acc, Append(u, c))
          BY <1>5, <3>3, <3>4, <4>1, <4>2
        <4> QED BY <3>2, <3>3, <4>1, <4>2, <4>3
      <3> QED BY <2>1, <3>1, <3>3, <3>5, OneStep
    <2>5. x[0] = Append(acc, <<>>) /\ x[Len(line)] = Append(acc, line)
      <3>1. SubSeq(line, 1, 0) = <<>> /\ SubSeq(line, 1, Len(line)) = line
            /\ 0 \in 0..Len(line) /\ Len(line) \in 0..Len(line)
        BY <2>0
      <3> QED BY <3>1
    <2> HIDE DEF x
    <2> QED BY <2>2, <2>3, <2>4, <2>5, LeadsAlong
  <1>7. \A acc : Step(At(LF), acc, LF) = Append(acc, <<>>)
    BY DEF Step, At
  <1> DEFINE x == [i \in 0..n |-> IF i = 0 THEN <<<<>>>> ELSE SubSeq(lines, 1, i)]
  <1>8. ASSUME NEW i \in 1..Len(s) PROVE Leads(At(LF), x[i - 1], s[i], x[i])
    <2>1. i \in 1..n /\ i \in 0..n /\ i - 1 \in 0..n /\ i # 0
      BY <1>0, <1>2
    <2>2. x[i] = SubSeq(lines, 1, i)
      BY <2>1
    <2>3. PICK acc : acc = SubSeq(lines, 1, i - 1)
      OBVIOUS
    <2>4. acc \in Seq(Seq(Y)) /\ SubSeq(lines, 1, i) = Append(acc, lines[i])
      BY <1>0, <2>1, <2>3
    <2>5. Leads(At(LF), Append(acc, <<>>), lines[i], x[i])
      BY <1>0, <1>6, <2>1, <2>2, <2>4
    <2>6. CASE i = 1
      <3>1. x[i - 1] = <<<<>>>> /\ acc = <<>> /\ s[i] = lines[i]
        BY <1>1, <2>1, <2>3, <2>6
      <3>2. Append(acc, <<>>) = <<<<>>>>
        BY <3>1
      <3> HIDE DEF x
      <3> QED BY <2>5, <3>1, <3>2
    <2>7. CASE i # 1
      <3>1. i - 1 # 0
        BY <2>1, <2>7
      <3>2. x[i - 1] = acc
        BY <2>1, <2>3, <3>1
      <3> HIDE DEF x
      <3>3. s[i] = <<LF>> \o lines[i]
        BY <1>1, <2>1, <2>7
      <3>4. LF \in Y
        OBVIOUS
      <3>5. Leads(At(LF), x[i - 1], <<LF>>, Append(acc, <<>>)) /\ <<LF>> \in Seq(Y)
        BY <1>7, <3>2, <3>4, OneStep
      <3>6. lines[i] \in Seq(Y)
        BY <1>0, <2>1
      <3> QED BY <2>5, <3>3, <3>5, <3>6, LeadsThere
    <2> QED BY <2>6, <2>7
  <1>9. x[0] = <<<<>>>> /\ x[n] = lines
    <2>1. SubSeq(lines, 1, n) = lines /\ n # 0 /\ n \in 0..n /\ 0 \in 0..n
      BY <1>0
    <2> QED BY <2>1
  <1>10. Leads(At(LF), <<<<>>>>, FlattenSeq(s), lines)
    <2> HIDE DEF x
    <2> QED BY <1>2, <1>8, <1>9, LeadsAlong
  <1>11. PICK text : text = FlattenSeq(s)
    OBVIOUS
  <1>12. Len(text) \in Nat /\ DOMAIN text = 1..Len(text)
    BY <1>4, <1>11
  <1>13. Leads(At(LF), <<<<>>>>, text, Fold(At(LF), <<<<>>>>, text))
    BY <1>12, FoldLeads
  <1>14. Fold(At(LF), <<<<>>>>, text) = lines
    BY <1>10, <1>11, <1>12, <1>13, LeadsToOne
  <1> QED BY <1>3, <1>4, <1>11, <1>14, SplitFold

----------------------------------------------------------------------------
\* An export and its rows.

\* What trim removes; the columns the portal fills; what ISE holds of a device.
Spaces == {Space, LF}
Portal == {"MACAddress", "IdentityGroup", "Description", "StaticGroupAssignment"}
EntryT == [group : Groups \union {NoGroup}, desc : Seq(Word), static : BOOLEAN]
\* A template: column names, the portal's among them.
ColumnsOK(t) ==
    /\ t \in Seq(Word \ Spaces) /\ t # <<>>
    /\ \A c \in Portal : \E i \in DOMAIN t : t[i] = c
\* The header as it is read: a cell for each column, and one more.
HeadOf(t, header) ==
    /\ DOMAIN header = 1..(Len(t) + 1) /\ header[Len(t) + 1] = <<>>
    /\ \A i \in 1..Len(t) : header[i] = <<t[i]>>

\* A column of the template is found, at its last place.
LEMMA ColumnIs ==
    ASSUME NEW t, ColumnsOK(t), NEW header, HeadOf(t, header),
           NEW names, DOMAIN names \in {1..1, 1..2}, names[1] \in Portal
    PROVE  /\ Column(header, names) \in 1..Len(t) /\ t[Column(header, names)] = names[1]
           /\ \A j \in 1..Len(t) : j > Column(header, names) => t[j] # names[1]
  <1>0. Len(t) \in Nat /\ DOMAIN t = 1..Len(t)
    BY DEF ColumnsOK
  <1>2. PICK named : named = {k \in DOMAIN names :
                                 {i \in DOMAIN header : header[i] = <<names[k]>>} # {}}
    OBVIOUS
  <1>3. PICK places : places = {i \in DOMAIN header : header[i] = <<names[1]>>}
    OBVIOUS
  <1>4. places = {i \in 1..Len(t) : t[i] = names[1]}
    <2>1. <<names[1]>> # <<>> /\ \A i \in 1..Len(t) : (<<t[i]>> = <<names[1]>>)
              <=> (t[i] = names[1])
      OBVIOUS
    <2>2. \A i \in 1..(Len(t) + 1) : i \in 1..Len(t) \/ i = Len(t) + 1
      BY <1>0
    <2>3. \A i \in 1..Len(t) : i \in 1..(Len(t) + 1)
      BY <1>0
    <2>4. ASSUME NEW i \in places PROVE i \in 1..Len(t) /\ t[i] = names[1]
      <3>1. i \in 1..(Len(t) + 1) /\ header[i] = <<names[1]>>
        BY <1>3 DEF HeadOf
      <3>2. i # Len(t) + 1
        BY <2>1, <3>1 DEF HeadOf
      <3> QED BY <2>1, <2>2, <3>1, <3>2 DEF HeadOf
    <2>5. ASSUME NEW i \in 1..Len(t), t[i] = names[1] PROVE i \in places
      <3>1. i \in DOMAIN header /\ header[i] = <<t[i]>>
        BY <2>3 DEF HeadOf
      <3> QED BY <1>3, <2>5, <3>1
    <2> QED BY <2>4, <2>5
  <1>5. places # {}
    <2>1. PICK i \in DOMAIN t : t[i] = names[1]
      BY DEF ColumnsOK
    <2> QED BY <1>0, <1>4, <2>1
  <1>6. 1 \in DOMAIN names /\ DOMAIN names \subseteq Nat /\ \A k \in DOMAIN names : k >= 1
    OBVIOUS
  <1>7. 1 \in named /\ named \in SUBSET Nat /\ \A k \in named : 1 <= k
    BY <1>2, <1>3, <1>5, <1>6
  <1>8. Min(named) = 1
    <2>1. Min(named) \in named /\ \A y \in named : Min(named) <= y
      BY <1>7, MinIn
    <2>2. PICK k \in named : k = Min(named)
      BY <2>1
    <2>3. k \in Nat /\ 1 <= k /\ k <= 1
      BY <1>7, <2>1, <2>2
    <2> QED BY <2>2, <2>3
  <1>9. Column(header, names) = Max(places)
    <2>1. named # {}
      BY <1>7
    <2> QED BY <1>2, <1>3, <1>8, <2>1 DEF Column
  <1>10. Max(places) \in places /\ \A j \in places : j <= Max(places)
    <2>1. places \in SUBSET (1..Len(t))
      BY <1>4
    <2> QED BY <1>0, <1>5, <2>1, MaxIn
  <1> QED
    <2>1. Max(places) \in 1..Len(t) /\ t[Max(places)] = names[1]
      BY <1>4, <1>10
    <2>2. ASSUME NEW j \in 1..Len(t), j > Max(places) PROVE t[j] # names[1]
      BY <1>4, <1>10, <2>1, <2>2
    <2> QED BY <1>9, <2>1, <2>2

\* The assignment as a cell.
Assigned(e) == IF e.static THEN "true" ELSE "false"
\* A row of the import that says of an endpoint what was exported of it.
OwnRow(item, of) ==
    \E m \in Macs : /\ of[m] # Absent /\ item.mac = <<m>> /\ item.group = <<of[m].group>>
                    /\ item.desc = of[m].desc /\ item.static = Assigned(of[m])
\* The cells of an endpoint.
CellsOf(m, e) == [i \in DOMAIN template |-> CellOf(m, e, i)]

\* The last column of a name holds what the portal has for it.
LEMMA CellsAre ==
    ASSUME ColumnsOK(template), NEW m, NEW e, e.group # NoGroup,
           NEW i \in 1..Len(template), \A j \in 1..Len(template) :
                   j > i => template[j] # template[i]
    PROVE  /\ template[i] = "MACAddress" => CellOf(m, e, i) = <<m>>
           /\ template[i] = "IdentityGroup" => CellOf(m, e, i) = <<e.group>>
           /\ template[i] = "Description" => CellOf(m, e, i) = e.desc
           /\ template[i] = "StaticGroupAssignment" => CellOf(m, e, i) = <<Assigned(e)>>
  <1>1. DOMAIN template = 1..Len(template)
    BY DEF ColumnsOK
  <1>2. \A j \in DOMAIN template : j > i => template[j] # template[i]
    BY <1>1
  <1>3. CASE template[i] = "MACAddress"
    BY <1>2, <1>3 DEF CellOf
  <1>4. CASE template[i] = "IdentityGroup"
    BY <1>2, <1>4 DEF CellOf
  <1>5. CASE template[i] = "Description"
    BY <1>2, <1>5 DEF CellOf
  <1>6. CASE template[i] = "StaticGroupAssignment"
    BY <1>2, <1>6 DEF CellOf, Assigned
  <1> QED BY <1>3, <1>4, <1>5, <1>6

\* Cells are texts, and without a line break if the description is.
LEMMA CellsTyped ==
    ASSUME ColumnsOK(template), NEW m \in Macs, NEW e \in EntryT,
           NEW Z, Word \ {LF} \subseteq Z, e.desc \in Seq(Z)
    PROVE  CellsOf(m, e) \in Seq(Seq(Z)) /\ Len(CellsOf(m, e)) = Len(template)
  <1>1. Len(template) \in Nat /\ DOMAIN template = 1..Len(template)
    BY DEF ColumnsOK
  <1>2. m \in Z /\ "true" \in Z /\ "false" \in Z /\ (e.group # NoGroup => e.group \in Z)
    <2>1. m # LF /\ m \in Word
      BY TextAssumption DEF Word
    <2>2. "true" # LF /\ "false" # LF /\ "true" \in Word /\ "false" \in Word
      BY DEF Word, LF
    <2>3. ASSUME e.group # NoGroup PROVE e.group \in Word /\ e.group # LF
      BY <2>3, TextAssumption DEF Word, EntryT
    <2> QED BY <2>1, <2>2, <2>3
  <1>3. ASSUME NEW i \in 1..Len(template) PROVE CellOf(m, e, i) \in Seq(Z)
    <2>1. <<>> \in Seq(Z) /\ <<m>> \in Seq(Z) /\ <<"true">> \in Seq(Z) /\ <<"false">> \in Seq(Z)
          /\ (e.group # NoGroup => <<e.group>> \in Seq(Z))
      BY <1>2
    <2>2. PICK cell : cell = CellOf(m, e, i)
      OBVIOUS
    <2>3. \/ cell = <<m>>
          \/ cell = <<e.group>> /\ e.group # NoGroup
          \/ cell = e.desc
          \/ cell = <<"true">> \/ cell = <<"false">> \/ cell = <<>>
      <3> DEFINE filled == \A j \in DOMAIN template : j > i => template[j] # template[i]
      <3>1. CASE ~filled
        BY <2>2, <3>1 DEF CellOf
      <3>2. CASE filled /\ template[i] = "MACAddress"
        BY <2>2, <3>2 DEF CellOf
      <3>3. CASE filled /\ template[i] = "IdentityGroup"
        BY <2>2, <3>3 DEF CellOf
      <3>4. CASE filled /\ template[i] = "Description"
        BY <2>2, <3>4 DEF CellOf
      <3>5. CASE filled /\ template[i] \in {"StaticAssignment", "StaticGroupAssignment"}
        BY <2>2, <3>5 DEF CellOf
      <3>6. CASE filled /\ template[i] \notin {"MACAddress", "IdentityGroup", "Description",
                                               "StaticAssignment", "StaticGroupAssignment"}
        BY <2>2, <3>6 DEF CellOf
      <3> QED BY <3>1, <3>2, <3>3, <3>4, <3>5, <3>6
    <2> QED BY <2>1, <2>2, <2>3
  <1> QED BY <1>1, <1>3 DEF CellsOf

\* A row of the export reads as the endpoint it was made of.
LEMMA RowIsOwn ==
    ASSUME ColumnsOK(template), NEW m \in Macs, NEW of, of[m] \in EntryT, Exportable(of[m]),
           NEW header, HeadOf(template, header)
    PROVE  /\ IseItem(header, CellsOf(m, of[m]) \o <<<<>>>>).mac # <<>>
           /\ OwnRow(IseItem(header, CellsOf(m, of[m]) \o <<<<>>>>), of)
  <1> PICK e : e = of[m]
    OBVIOUS
  <1>0. /\ e \in EntryT /\ e # Absent /\ e.group # NoGroup
        /\ stripQuotes(trim(e.desc)) = e.desc
    BY DEF Exportable, Plain
  <1>1. Len(template) \in Nat /\ DOMAIN template = 1..Len(template)
    BY DEF ColumnsOK
  <1>2. PICK cells : cells = CellsOf(m, e)
    OBVIOUS
  <1>3. cells \in Seq(Seq(Word)) /\ Len(cells) = Len(template)
    BY <1>0, <1>2, CellsTyped DEF EntryT
  <1>4. PICK w : w = <<>>
    OBVIOUS
  <1>5. PICK fields : fields = cells \o <<w>>
    OBVIOUS
  <1>6. \A i \in 1..Len(template) : i \in DOMAIN fields /\ fields[i] = CellOf(m, e, i)
    <2>1. w \in Seq(Word)
      BY <1>4
    <2>2. DOMAIN fields = 1..(Len(template) + 1)
          /\ \A i \in 1..Len(template) : fields[i] = cells[i]
      BY <1>3, <1>5, <2>1
    <2> QED BY <1>1, <1>2, <2>2 DEF CellsOf
  <1>7. ASSUME NEW names, DOMAIN names \in {1..1, 1..2}, names[1] \in Portal
        PROVE  \E i \in 1..Len(template) :
                   /\ Field(fields, Column(header, names)) = trim(CellOf(m, e, i))
                   /\ template[i] = names[1]
                   /\ \A j \in 1..Len(template) : j > i => template[j] # template[i]
    <2>1. PICK i \in 1..Len(template) : i = Column(header, names)
      BY <1>7, ColumnIs
    <2>2. template[i] = names[1] /\ \A j \in 1..Len(template) : j > i => template[j] # template[i]
      BY <1>7, <2>1, ColumnIs
    <2>3. Field(fields, i) = trim(CellOf(m, e, i))
      BY <1>6 DEF Field
    <2> QED BY <2>1, <2>2, <2>3
  <1>8. Field(fields, Column(header, <<"MACAddress">>)) = <<m>>
    <2>1. PICK i \in 1..Len(template) :
               /\ Field(fields, Column(header, <<"MACAddress">>)) = trim(CellOf(m, e, i))
               /\ template[i] = "MACAddress"
               /\ \A j \in 1..Len(template) : j > i => template[j] # template[i]
      <3>1. PICK names : names = <<"MACAddress">>
        OBVIOUS
      <3>2. DOMAIN names = 1..1 /\ names[1] = "MACAddress"
        BY <3>1
      <3>3. DOMAIN names \in {1..1, 1..2} /\ names[1] \in Portal
        BY <3>2 DEF Portal
      <3> QED BY <1>7, <3>1, <3>2, <3>3
    <2>2. CellOf(m, e, i) = <<m>>
      BY <1>0, <2>1, CellsAre
    <2>3. m \notin Spaces
      BY TextAssumption DEF Spaces
    <2> QED BY <2>1, <2>2, <2>3, TrimOne DEF Spaces
  <1>9. Field(fields, Column(header, <<"IdentityGroup">>)) = <<e.group>>
    <2>1. PICK i \in 1..Len(template) :
               /\ Field(fields, Column(header, <<"IdentityGroup">>)) = trim(CellOf(m, e, i))
               /\ template[i] = "IdentityGroup"
               /\ \A j \in 1..Len(template) : j > i => template[j] # template[i]
      <3>1. PICK names : names = <<"IdentityGroup">>
        OBVIOUS
      <3>2. DOMAIN names = 1..1 /\ names[1] = "IdentityGroup"
        BY <3>1
      <3>3. DOMAIN names \in {1..1, 1..2} /\ names[1] \in Portal
        BY <3>2 DEF Portal
      <3> QED BY <1>7, <3>1, <3>2, <3>3
    <2>2. CellOf(m, e, i) = <<e.group>>
      BY <1>0, <2>1, CellsAre
    <2>3. e.group \notin Spaces
      BY <1>0, TextAssumption DEF Spaces, EntryT
    <2> QED BY <2>1, <2>2, <2>3, TrimOne DEF Spaces
  <1>10. Field(fields, Column(header, <<"Description">>)) = trim(e.desc)
    <2>1. PICK i \in 1..Len(template) :
               /\ Field(fields, Column(header, <<"Description">>)) = trim(CellOf(m, e, i))
               /\ template[i] = "Description"
               /\ \A j \in 1..Len(template) : j > i => template[j] # template[i]
      <3>1. PICK names : names = <<"Description">>
        OBVIOUS
      <3>2. DOMAIN names = 1..1 /\ names[1] = "Description"
        BY <3>1
      <3>3. DOMAIN names \in {1..1, 1..2} /\ names[1] \in Portal
        BY <3>2 DEF Portal
      <3> QED BY <1>7, <3>1, <3>2, <3>3
    <2>2. CellOf(m, e, i) = e.desc
      BY <1>0, <2>1, CellsAre
    <2> QED BY <2>1, <2>2
  <1>11. parseBoolCell(Field(fields,
             Column(header, <<"StaticGroupAssignment", "StaticAssignment">>)))
            = Assigned(e)
    <2>1. PICK i \in 1..Len(template) :
               /\ Field(fields, Column(header, <<"StaticGroupAssignment", "StaticAssignment">>))
                     = trim(CellOf(m, e, i))
               /\ template[i] = "StaticGroupAssignment"
               /\ \A j \in 1..Len(template) : j > i => template[j] # template[i]
      <3>1. PICK names : names = <<"StaticGroupAssignment", "StaticAssignment">>
        OBVIOUS
      <3>2. DOMAIN names = 1..2 /\ names[1] = "StaticGroupAssignment"
        BY <3>1
      <3>3. DOMAIN names \in {1..1, 1..2} /\ names[1] \in Portal
        BY <3>2 DEF Portal
      <3> QED BY <1>7, <3>1, <3>2, <3>3
    <2>2. CellOf(m, e, i) = <<Assigned(e)>>
      BY <1>0, <2>1, CellsAre
    <2>3. Assigned(e) \in {"true", "false"} /\ Assigned(e) \notin Spaces
      BY DEF Assigned, Spaces, Space, LF
    <2>4. trim(CellOf(m, e, i)) = <<Assigned(e)>> /\ trim(<<Assigned(e)>>) = <<Assigned(e)>>
      BY <2>2, <2>3, TrimOne DEF Spaces
    <2>5. parseBoolCell(<<Assigned(e)>>) = Assigned(e)
      <3>1. stripQuotes(trim(<<Assigned(e)>>)) = <<Assigned(e)>>
        BY <2>4, StripOne
      <3> QED BY <2>3, <3>1 DEF parseBoolCell
    <2> QED BY <2>1, <2>4, <2>5
  <1>12. PICK item : item = IseItem(header, fields)
    OBVIOUS
  <1>13. /\ item.mac = <<m>> /\ item.group = <<e.group>> /\ item.desc = e.desc
         /\ item.static = Assigned(e)
    BY <1>0, <1>8, <1>9, <1>10, <1>11, <1>12, StripOne DEF IseItem
  <1>14. item.mac # <<>> /\ OwnRow(item, of)
    BY <1>0, <1>13 DEF OwnRow
  <1> QED BY <1>2, <1>4, <1>5, <1>12, <1>14

\* A function on 1..n is a sequence.
LEMMA IsSeq ==
    ASSUME NEW n \in Nat, NEW S, NEW f \in [1..n -> S]
    PROVE  f \in Seq(S) /\ Len(f) = n /\ DOMAIN f = 1..n
  OBVIOUS

\* A finite set is the range of its sequence.
LEMMA SetToSeqIn ==
    ASSUME NEW S, IsFiniteSet(S)
    PROVE  SetToSeq(S) \in Seq(S)
  <1>1. Cardinality(S) \in Nat /\ ExistsBijection(1..Cardinality(S), S)
    BY FS_CardinalityType
  <1>2. PICK f \in [1..Cardinality(S) -> S] : IsInjective(f)
    BY <1>1 DEF ExistsBijection, Bijection, Injection
  <1>3. SetToSeq(S) \in [1..Cardinality(S) -> S]
    BY <1>2 DEF SetToSeq
  <1> QED BY <1>1, <1>3

\* Texts joined by a character are a text.
LEMMA JoinTyped ==
    ASSUME NEW Z, NEW sep \in Z, NEW seqs \in Seq(Seq(Z))
    PROVE  Join(seqs, sep) \in Seq(Z)
  <1>1. Len(seqs) \in Nat /\ DOMAIN seqs = 1..Len(seqs)
        /\ \A i \in 1..Len(seqs) : seqs[i] \in Seq(Z)
    OBVIOUS
  <1>2. PICK s : s = [i \in 1..Len(seqs) |-> IF i = 1 THEN seqs[i] ELSE <<sep>> \o seqs[i]]
    OBVIOUS
  <1>3. s \in [1..Len(seqs) -> Seq(Z)]
    <2>1. <<sep>> \in Seq(Z)
      OBVIOUS
    <2>2. \A i \in 1..Len(seqs) : <<sep>> \o seqs[i] \in Seq(Z)
      BY <1>1, <2>1, ConcatProperties
    <2> QED BY <1>1, <1>2, <2>2
  <1>4. s \in Seq(Seq(Z))
    BY <1>1, <1>3, IsSeq
  <1>5. Join(seqs, sep) = FlattenSeq(s)
    BY <1>1, <1>2 DEF Join
  <1> QED BY <1>4, <1>5, Flattened

\* The lines of an export.
HeadCells == [i \in DOMAIN template |-> <<template[i]>>]
\* The header and a line for each device.
LinesOf(ms) == <<RowWith(HeadCells)>> \o [k \in DOMAIN ms |-> RowWith(CellsOf(ms[k], ise[ms[k]]))]

\* An export is these lines, joined.
LEMMA ExportIs == \A ms : toIseCsv(ms) = Join(LinesOf(ms), LF)
  <1>1. RowWith(HeadCells) = Join([i \in DOMAIN template |-> csvQuote(<<template[i]>>)], Comma)
    <2>1. DOMAIN HeadCells = DOMAIN template
          /\ \A i \in DOMAIN template : HeadCells[i] = <<template[i]>>
      BY DEF HeadCells
    <2>2. [i \in DOMAIN HeadCells |-> csvQuote(HeadCells[i])]
             = [i \in DOMAIN template |-> csvQuote(<<template[i]>>)]
      BY <2>1
    <2> QED BY <2>2 DEF RowWith
  <1>2. \A m, e : RowWith(CellsOf(m, e))
            = Join([i \in DOMAIN template |-> csvQuote(CellOf(m, e, i))], Comma)
    <2> TAKE m, e
    <2>1. DOMAIN CellsOf(m, e) = DOMAIN template
          /\ \A i \in DOMAIN template : CellsOf(m, e)[i] = CellOf(m, e, i)
      BY DEF CellsOf
    <2>2. [i \in DOMAIN CellsOf(m, e) |-> csvQuote(CellsOf(m, e)[i])]
             = [i \in DOMAIN template |-> csvQuote(CellOf(m, e, i))]
      BY <2>1
    <2> QED BY <2>2 DEF RowWith
  <1> TAKE ms
  <1>3. [k \in DOMAIN ms |-> RowWith(CellsOf(ms[k], ise[ms[k]]))]
          = [k \in DOMAIN ms |->
                Join([i \in DOMAIN template |-> csvQuote(CellOf(ms[k], ise[ms[k]], i))], Comma)]
    BY <1>2
  <1> QED BY <1>1, <1>3 DEF toIseCsv, LinesOf

\* Exported endpoints.
Endpoints == {m \in Macs : ise[m] # Absent}

\* Each line of an export is a row of texts, in quotes.
LEMMA LinesOfAre ==
    ASSUME ColumnsOK(template), ise \in [Macs -> EntryT \union {Absent}],
           NEW ms \in Seq(Endpoints), NEW Z, Word \ {LF} \subseteq Z,
           \A m \in Endpoints : ise[m].desc \in Seq(Z)
    PROVE  /\ Len(LinesOf(ms)) = Len(ms) + 1 /\ LinesOf(ms) \in Seq(Seq(Z))
           /\ \A k \in 1..Len(LinesOf(ms)) : Quote \in ToSet(LinesOf(ms)[k])
           /\ parseRow(LinesOf(ms)[1]) = HeadCells \o <<<<>>>>
           /\ \A k \in 1..Len(ms) :
                 /\ ms[k] \in Endpoints
                 /\ parseRow(LinesOf(ms)[k + 1]) = CellsOf(ms[k], ise[ms[k]]) \o <<<<>>>>
  <1>0. /\ Len(ms) \in Nat /\ DOMAIN ms = 1..Len(ms) /\ \A k \in 1..Len(ms) : ms[k] \in Endpoints
        /\ Len(template) \in Nat /\ DOMAIN template = 1..Len(template) /\ Len(template) >= 1
        /\ \A i \in 1..Len(template) : template[i] \in Z
    <2>1. Len(ms) \in Nat /\ DOMAIN ms = 1..Len(ms) /\ \A k \in 1..Len(ms) : ms[k] \in Endpoints
      OBVIOUS
    <2>2. /\ Len(template) \in Nat /\ DOMAIN template = 1..Len(template) /\ Len(template) >= 1
          /\ \A i \in 1..Len(template) : template[i] \in Word \ Spaces
      BY EmptySeq DEF ColumnsOK
    <2> QED BY <2>1, <2>2 DEF Spaces
  <1>1. Quote \in Z /\ Comma \in Z
    BY CharsDiffer
  <1>2. PICK head : head = HeadCells
    OBVIOUS
  <1>3. head \in Seq(Seq(Z)) /\ head # <<>>
    <2>1. \A i \in 1..Len(template) : <<template[i]>> \in Seq(Z)
      BY <1>0
    <2>2. head \in [1..Len(template) -> Seq(Z)]
      BY <1>0, <1>2, <2>1 DEF HeadCells
    <2>3. head \in Seq(Seq(Z)) /\ Len(head) = Len(template)
      BY <1>0, <2>2
    <2> QED BY <1>0, <2>3, EmptySeq
  <1>4. /\ RowWith(head) \in Seq(Z) /\ Quote \in ToSet(RowWith(head))
        /\ parseRow(RowWith(head)) = head \o <<<<>>>>
    BY <1>1, <1>3, RowReads
  <1>5. PICK rows : rows = [k \in 1..Len(ms) |-> RowWith(CellsOf(ms[k], ise[ms[k]]))]
    OBVIOUS
  <1>6. ASSUME NEW k \in 1..Len(ms)
        PROVE  /\ rows[k] \in Seq(Z) /\ Quote \in ToSet(rows[k])
               /\ parseRow(rows[k]) = CellsOf(ms[k], ise[ms[k]]) \o <<<<>>>>
    <2>1. PICK m : m = ms[k]
      OBVIOUS
    <2>2. m \in Macs /\ m \in Endpoints /\ ise[m] \in EntryT /\ ise[m].desc \in Seq(Z)
      BY <1>0, <2>1 DEF Endpoints
    <2>3. PICK e : e = ise[m]
      OBVIOUS
    <2>4. PICK cells : cells = CellsOf(m, e)
      OBVIOUS
    <2>5. cells \in Seq(Seq(Z)) /\ Len(cells) = Len(template)
      BY <2>2, <2>3, <2>4, CellsTyped
    <2>6. cells # <<>>
      BY <1>0, <2>5, EmptySeq
    <2>7. rows[k] = RowWith(cells)
      BY <1>5, <2>1, <2>3, <2>4
    <2>8. /\ RowWith(cells) \in Seq(Z) /\ Quote \in ToSet(RowWith(cells))
          /\ parseRow(RowWith(cells)) = cells \o <<<<>>>>
      BY <1>1, <2>5, <2>6, RowReads
    <2> QED BY <2>1, <2>3, <2>4, <2>7, <2>8
  <1>7. PICK w : w = RowWith(head)
    OBVIOUS
  <1>8. PICK l : l = LinesOf(ms)
    OBVIOUS
  <1>9. l = <<w>> \o rows
    BY <1>0, <1>2, <1>5, <1>7, <1>8 DEF LinesOf
  <1>10. rows \in Seq(Seq(Z)) /\ Len(rows) = Len(ms) /\ w \in Seq(Z)
    <2>1. rows \in [1..Len(ms) -> Seq(Z)]
      BY <1>5, <1>6
    <2> QED BY <1>0, <1>4, <1>7, <2>1, IsSeq
  <1>11. /\ l \in Seq(Seq(Z)) /\ Len(l) = Len(ms) + 1 /\ l[1] = w
         /\ \A k \in 1..Len(ms) : l[k + 1] = rows[k]
    <2>1. PICK o : o = <<w>>
      OBVIOUS
    <2>2. o \in Seq(Seq(Z)) /\ Len(o) = 1 /\ o[1] = w
      BY <1>10, <2>1
    <2>3. l = o \o rows
      BY <1>9, <2>1
    <2>4. /\ l \in Seq(Seq(Z)) /\ Len(l) = 1 + Len(ms)
          /\ \A k \in 1..(1 + Len(ms)) : l[k] = IF k <= 1 THEN o[k] ELSE rows[k - 1]
      <3>1. /\ o \o rows \in Seq(Seq(Z)) /\ Len(o \o rows) = Len(o) + Len(rows)
            /\ \A k \in 1..(Len(o) + Len(rows)) :
                  (o \o rows)[k] = IF k <= Len(o) THEN o[k] ELSE rows[k - Len(o)]
        <4>1. PICK S : S = Seq(Z)
          OBVIOUS
        <4>2. o \in Seq(S) /\ rows \in Seq(S)
          BY <1>10, <2>2, <4>1
        <4>3. o \o rows \in Seq(S) /\ Len(o \o rows) = Len(o) + Len(rows)
          BY <4>2, ConcatProperties
        <4>4. \A k \in 1..(Len(o) + Len(rows)) :
                  (o \o rows)[k] = IF k <= Len(o) THEN o[k] ELSE rows[k - Len(o)]
          BY <4>2, ConcatProperties
        <4> QED BY <4>1, <4>3, <4>4
      <3> QED BY <1>10, <2>2, <2>3, <3>1
    <2>5. l[1] = w
      BY <1>0, <2>2, <2>4
    <2>6. ASSUME NEW k \in 1..Len(ms) PROVE l[k + 1] = rows[k]
      <3>1. k + 1 \in 1..(1 + Len(ms)) /\ ~(k + 1 <= 1) /\ (k + 1) - 1 = k
        BY <1>0
      <3>2. l[k + 1] = rows[(k + 1) - 1]
        BY <2>4, <3>1
      <3> QED BY <3>1, <3>2
    <2> QED BY <1>0, <2>4, <2>5, <2>6
  <1>12. ASSUME NEW k \in 1..Len(l) PROVE Quote \in ToSet(l[k])
    <2>1. CASE k = 1
      BY <1>4, <1>7, <1>11, <2>1
    <2>2. CASE k # 1
      <3>1. PICK j \in 1..Len(ms) : k = j + 1
        <4>1. k - 1 \in 1..Len(ms) /\ k = (k - 1) + 1
          BY <1>0, <1>11, <2>2
        <4> QED BY <4>1
      <3> QED BY <1>6, <1>11, <3>1
    <2> QED BY <2>1, <2>2
  <1> QED BY <1>0, <1>2, <1>4, <1>6, <1>7, <1>8, <1>11, <1>12

\* Whatever ISE holds is exported as a text.
LEMMA ExportTyped ==
    ASSUME ColumnsOK(template), ise \in [Macs -> EntryT \union {Absent}]
    PROVE  /\ SetToSeq(Endpoints) \in Seq(Endpoints)
           /\ toIseCsv(SetToSeq(Endpoints)) \in Seq(Word)
  <1> PICK ms : ms = SetToSeq(Endpoints)
    OBVIOUS
  <1>1. ms \in Seq(Endpoints)
    <2>1. IsFiniteSet(Endpoints)
      <3>1. Endpoints \in SUBSET Macs
        BY DEF Endpoints
      <3> QED BY <3>1, EntryAssumption, FS_Subset
    <2> QED BY <2>1, SetToSeqIn
  <1>2. \A m \in Endpoints : ise[m].desc \in Seq(Word)
    BY DEF Endpoints, EntryT
  <1>3. Word \ {LF} \subseteq Word
    OBVIOUS
  <1>4. LinesOf(ms) \in Seq(Seq(Word))
    BY <1>1, <1>2, <1>3, LinesOfAre
  <1>5. Join(LinesOf(ms), LF) \in Seq(Word)
    BY <1>4, CharsDiffer, JoinTyped
  <1> QED BY <1>1, <1>5, ExportIs

\* What an export of plain endpoints is read as.
THEOREM ExportReads ==
    ASSUME ColumnsOK(template), ise \in [Macs -> EntryT \union {Absent}],
           \A m \in Endpoints : Exportable(ise[m]),
           NEW ms \in Seq(Endpoints), NEW text, text = toIseCsv(ms)
    PROVE  \A k \in DOMAIN parseCsv(text) : OwnRow(parseCsv(text)[k], ise)
  <1> PICK Z : Z = Word \ {LF}
    OBVIOUS
  <1> PICK l : l = LinesOf(ms)
    OBVIOUS
  <1>0. Len(ms) \in Nat /\ Len(template) \in Nat /\ DOMAIN template = 1..Len(template)
    BY DEF ColumnsOK
  <1>1. \A m \in Endpoints : ise[m].desc \in Seq(Z)
    <2> TAKE m \in Endpoints
    <2>1. ise[m] \in EntryT /\ Plain(ise[m].desc)
      BY DEF Endpoints, Exportable
    <2>2. PICK d : d = ise[m].desc
      OBVIOUS
    <2>3. d \in Seq(Word) /\ \A i \in DOMAIN d : d[i] # LF
      BY <2>1, <2>2 DEF EntryT, Plain
    <2>4. Len(d) \in Nat /\ DOMAIN d = 1..Len(d) /\ d \in [1..Len(d) -> Word]
      BY <2>3
    <2>5. d \in [1..Len(d) -> Z]
      BY <2>3, <2>4
    <2>6. d \in Seq(Z)
      BY <2>4, <2>5, IsSeq
    <2> QED BY <2>2, <2>6
  <1>2. /\ Len(l) = Len(ms) + 1 /\ l \in Seq(Seq(Z))
        /\ \A k \in 1..Len(l) : Quote \in ToSet(l[k])
        /\ parseRow(l[1]) = HeadCells \o <<<<>>>>
        /\ \A k \in 1..Len(ms) :
              /\ ms[k] \in Endpoints
              /\ parseRow(l[k + 1]) = CellsOf(ms[k], ise[ms[k]]) \o <<<<>>>>
    BY <1>1, LinesOfAre
  <1>3. l # <<>> /\ DOMAIN l = 1..Len(l)
    BY <1>0, <1>2, EmptySeq
  <1>4. Split(text, LF) = l
    <2>1. LF \notin Z
      OBVIOUS
    <2>2. Split(Join(l, LF), LF) = l
      BY <1>2, <1>3, <2>1, LinesRead
    <2> QED BY <2>2, ExportIs
  <1>5. Lines(text) = l
    <2>1. \A k \in DOMAIN l : trim(l[k]) # <<>>
      <3> TAKE k \in DOMAIN l
      <3>1. l[k] \in Seq(Z) /\ Quote \in ToSet(l[k])
        BY <1>2, <1>3
      <3>2. \E i \in DOMAIN l[k] : l[k][i] \notin {Space, LF}
        BY <3>1, CharsDiffer DEF ToSet
      <3> QED BY <3>1, <3>2, TrimIs
    <2>2. Kept(l, {i \in DOMAIN l : trim(l[i]) # <<>>}) = l
      BY <1>2, <2>1, AllKept
    <2> QED BY <1>4, <2>2 DEF Lines
  <1>6. PICK rows : rows = RowsIn(text)
    OBVIOUS
  <1>7. rows = [k \in 1..Len(l) |-> parseRow(l[k])]
    BY <1>3, <1>5, <1>6 DEF RowsIn
  <1>8. DOMAIN rows = 1..(Len(ms) + 1) /\ Len(rows) = Len(ms) + 1 /\ rows # <<>>
    <2>1. Len(ms) + 1 \in Nat /\ DOMAIN rows = 1..(Len(ms) + 1)
      BY <1>0, <1>2, <1>7
    <2>2. rows \in [1..(Len(ms) + 1) -> {parseRow(l[k]) : k \in 1..Len(l)}]
      BY <1>2, <1>7
    <2>3. rows \in Seq({parseRow(l[k]) : k \in 1..Len(l)}) /\ Len(rows) = Len(ms) + 1
      BY <2>1, <2>2, IsSeq
    <2>4. rows # <<>>
      BY <1>0, <2>3, EmptySeq
    <2> QED BY <2>1, <2>3, <2>4
  <1>9. PICK header : header = HeaderIn(text)
    OBVIOUS
  <1>10. HeadOf(template, header)
    <2>1. PICK w : w = <<>>
      OBVIOUS
    <2>2. PICK first : first = HeadCells \o <<w>>
      OBVIOUS
    <2>3. rows[1] = first
      <3>1. 1 \in 1..Len(l)
        BY <1>0, <1>2
      <3> QED BY <1>2, <1>7, <2>1, <2>2, <3>1
    <2>4. /\ DOMAIN first = 1..(Len(template) + 1) /\ first[Len(template) + 1] = w
          /\ \A i \in 1..Len(template) : first[i] = <<template[i]>>
      <3>1. PICK a : a = HeadCells
        OBVIOUS
      <3>2. a \in [1..Len(template) -> Seq(Word)]
        <4>1. \A i \in 1..Len(template) : template[i] \in Word
          BY <1>0 DEF ColumnsOK
        <4>2. \A i \in 1..Len(template) : <<template[i]>> \in Seq(Word)
          BY <4>1
        <4> QED BY <1>0, <3>1, <4>2 DEF HeadCells
      <3>3. a \in Seq(Seq(Word)) /\ Len(a) = Len(template)
        BY <1>0, <3>2, IsSeq
      <3>4. w \in Seq(Word)
        BY <2>1
      <3>5. /\ DOMAIN first = 1..(Len(template) + 1) /\ first[Len(template) + 1] = w
            /\ \A i \in 1..Len(template) : first[i] = a[i]
        <4>1. PICK S : S = Seq(Word)
          OBVIOUS
        <4>2. PICK n \in Nat : n = Len(template)
          BY <1>0
        <4>3. a \in Seq(S) /\ Len(a) = n /\ w \in S
          BY <3>3, <3>4, <4>1, <4>2
        <4>4. first = a \o <<w>>
          BY <2>2, <3>1
        <4>5. DOMAIN first = 1..(n + 1)
          BY <4>3, <4>4
        <4>6. first[n + 1] = w
          BY <4>3, <4>4
        <4>7. \A i \in 1..n : first[i] = a[i]
          BY <4>3, <4>4
        <4> QED BY <4>2, <4>5, <4>6, <4>7
      <3>6. \A i \in 1..Len(template) : a[i] = <<template[i]>>
        BY <1>0, <3>1 DEF HeadCells
      <3> QED BY <3>5, <3>6
    <2>5. header = [i \in DOMAIN first |-> trim(first[i])]
      BY <1>6, <1>9, <2>3 DEF HeaderIn
    <2>6. trim(w) = <<>>
      <3>1. DOMAIN w = {}
        BY <2>1
      <3> QED BY <3>1 DEF trim
    <2>7. \A i \in 1..Len(template) : trim(<<template[i]>>) = <<template[i]>>
      <3>1. \A i \in 1..Len(template) : template[i] \notin {Space, LF}
        BY <1>0 DEF ColumnsOK, Spaces
      <3> QED BY <3>1, TrimOne
    <2>8. Len(template) + 1 \in 1..(Len(template) + 1)
          /\ \A i \in 1..Len(template) : i \in 1..(Len(template) + 1)
      BY <1>0
    <2> QED BY <2>4, <2>5, <2>6, <2>7, <2>8 DEF HeadOf
  <1>11. Named(header, "MACAddress")
    <2>1. PICK i \in DOMAIN template : template[i] = "MACAddress"
      BY DEF ColumnsOK, Portal
    <2>2. i \in 1..(Len(template) + 1)
      BY <1>0
    <2> QED BY <1>0, <1>10, <2>1, <2>2 DEF Named, HeadOf
  <1>12. PICK items : items = [i \in 1..(Len(rows) - 1) |-> IseItem(header, rows[i + 1])]
    OBVIOUS
  <1>13. parseCsv(text) = Kept(items, {i \in DOMAIN items : items[i].mac # <<>>})
    <2>1. parseCsv(text) = CsvOf(rows, header)
      BY <1>6, <1>8, <1>9, ParseIs
    <2> QED BY <1>8, <1>11, <1>12, <2>1 DEF CsvOf
  <1>14. ASSUME NEW i \in 1..Len(ms) PROVE OwnRow(items[i], ise)
    <2>1. PICK m : m = ms[i]
      OBVIOUS
    <2>2. m \in Macs /\ ise[m] \in EntryT /\ Exportable(ise[m]) /\ m \in Endpoints
      BY <1>2, <2>1 DEF Endpoints
    <2>3. i + 1 \in 1..Len(l) /\ i \in 1..(Len(rows) - 1)
      BY <1>0, <1>2, <1>8
    <2>4. rows[i + 1] = CellsOf(m, ise[m]) \o <<<<>>>>
      BY <1>2, <1>7, <2>1, <2>3
    <2>5. items[i] = IseItem(header, CellsOf(m, ise[m]) \o <<<<>>>>)
      BY <1>12, <2>3, <2>4
    <2> QED BY <1>10, <2>2, <2>5, RowIsOwn
  <1>15. items \in Seq({items[i] : i \in 1..Len(ms)}) /\ DOMAIN items = 1..Len(ms)
    <2>1. Len(rows) - 1 = Len(ms)
      BY <1>0, <1>8
    <2>2. items \in [1..Len(ms) -> {items[i] : i \in 1..Len(ms)}]
      BY <1>12, <2>1
    <2> QED BY <1>0, <2>2, IsSeq
  <1>16. \A k \in DOMAIN parseCsv(text) : \E i \in DOMAIN items : parseCsv(text)[k] = items[i]
    <2>1. PICK places : places = {i \in DOMAIN items : items[i].mac # <<>>}
      OBVIOUS
    <2>2. PICK range : range = {items[i] : i \in 1..Len(ms)}
      OBVIOUS
    <2>3. items \in Seq(range)
      BY <1>15, <2>2
    <2>4. \A k \in DOMAIN Kept(items, places) :
             \E i \in DOMAIN items : i \in places /\ Kept(items, places)[k] = items[i]
      BY <2>3, KeptOf
    <2> QED BY <1>13, <2>1, <2>4
  <1> QED BY <1>14, <1>15, <1>16

----------------------------------------------------------------------------
\* Templates.

\* What is at a place that is kept is kept.
LEMMA KeptHas ==
    ASSUME NEW Z, NEW s \in Seq(Z), NEW places, NEW i \in DOMAIN s, i \in places
    PROVE  \E k \in DOMAIN Kept(s, places) : Kept(s, places)[k] = s[i]
  <1>1. PICK t : t = [j \in DOMAIN s |-> IF j \in places THEN <<s[j]>> ELSE <<>>]
    OBVIOUS
  <1>2. t \in Seq(Seq(Z)) /\ DOMAIN t = DOMAIN s
    <2>1. Len(s) \in Nat /\ DOMAIN s = 1..Len(s) /\ \A j \in 1..Len(s) : s[j] \in Z
      OBVIOUS
    <2>2. \A j \in 1..Len(s) : <<s[j]>> \in Seq(Z) /\ <<>> \in Seq(Z)
      BY <2>1
    <2>3. t \in [1..Len(s) -> Seq(Z)]
      BY <1>1, <2>1, <2>2
    <2> QED BY <2>1, <2>3, IsSeq
  <1>3. s[i] \in ToSet(t[i])
    <2>1. t[i] = <<s[i]>>
      BY <1>1
    <2> QED BY <2>1 DEF ToSet
  <1>4. s[i] \in ToSet(FlattenSeq(t))
    BY <1>2, <1>3, Flattened
  <1>5. Kept(s, places) = FlattenSeq(t)
    BY <1>1 DEF Kept
  <1> QED BY <1>4, <1>5 DEF ToSet

\* The names of a template's header are texts that begin with a character.
Name == {n \in Seq(Word) : n # <<>> /\ n[1] \in Word \ Spaces}

\* They are what parseTemplateHeader returns.
LEMMA NamesRead ==
    ASSUME NEW text \in Seq(Word)
    PROVE  parseTemplateHeader(text) \in Seq(Name)
  <1>1. CASE Lines(text) = <<>>
    <2>1. parseTemplateHeader(text) = <<>>
      BY <1>1 DEF parseTemplateHeader
    <2> QED BY <2>1
  <1>2. CASE Lines(text) # <<>>
    <2>1. PICK l : l = Lines(text)
      OBVIOUS
    <2>2. l \in Seq(Seq(Word)) /\ l # <<>>
      BY <1>2, <2>1, LinesTyped
    <2>3. PICK cells : cells = parseRow(l[1])
      OBVIOUS
    <2>4. cells \in Seq(Seq(Word))
      <3>1. l[1] \in Seq(Word)
        <4>1. Len(l) \in Nat /\ Len(l) # 0 /\ \A i \in 1..Len(l) : l[i] \in Seq(Word)
          BY <2>2, EmptySeq
        <4> QED BY <4>1
      <3> QED BY <2>3, <3>1, RowTyped
    <2>5. PICK names : names = [i \in DOMAIN cells |-> trim(stripQuotes(trim(cells[i])))]
      OBVIOUS
    <2>6. Len(cells) \in Nat /\ DOMAIN cells = 1..Len(cells)
          /\ \A i \in 1..Len(cells) : cells[i] \in Seq(Word)
      BY <2>4
    <2>7. ASSUME NEW i \in 1..Len(cells)
          PROVE  names[i] \in Seq(Word) /\ (names[i] # <<>> => names[i] \in Name)
      <3>1. PICK s : s = stripQuotes(trim(cells[i]))
        OBVIOUS
      <3>2. s \in Seq(Word)
        BY <2>6, <3>1, TrimIs, StripIs
      <3>3. PICK n : n = trim(s)
        OBVIOUS
      <3>4. n \in Seq(Word) /\ (n # <<>> => Len(n) >= 1 /\ n[1] \notin {Space, LF})
        BY <3>2, <3>3, TrimIs
      <3>5. n # <<>> => n \in Name
        BY <3>4 DEF Name, Spaces
      <3>6. names[i] = n
        BY <2>5, <2>6, <3>1, <3>3
      <3> QED BY <3>4, <3>5, <3>6
    <2>8. names \in [1..Len(cells) -> Seq(Word)]
      BY <2>5, <2>6, <2>7
    <2>9. names \in Seq(Seq(Word)) /\ DOMAIN names = 1..Len(cells)
      BY <2>6, <2>8, IsSeq
    <2>10. PICK places : places = {i \in DOMAIN names : names[i] # <<>>}
      OBVIOUS
    <2>11. PICK kept : kept = Kept(names, places)
      OBVIOUS
    <2>12. parseTemplateHeader(text) = kept
      BY <1>2, <2>1, <2>3, <2>5, <2>10, <2>11 DEF parseTemplateHeader
    <2>13. PICK Z : Z = Seq(Word)
      OBVIOUS
    <2>14. names \in Seq(Z)
      BY <2>9, <2>13
    <2>15. kept \in Seq(Z)
      BY <2>11, <2>14, KeptOf
    <2>16. \A k \in DOMAIN kept : \E i \in DOMAIN names : i \in places /\ kept[k] = names[i]
      BY <2>11, <2>14, KeptOf
    <2>17. \A k \in DOMAIN kept : kept[k] \in Name
      BY <2>7, <2>9, <2>10, <2>16
    <2>18. Len(kept) \in Nat /\ kept \in [1..Len(kept) -> Name]
      <3>1. Len(kept) \in Nat /\ DOMAIN kept = 1..Len(kept) /\ kept \in [1..Len(kept) -> Z]
        BY <2>15
      <3> QED BY <2>17, <3>1
    <2>19. kept \in Seq(Name)
      BY <2>18, IsSeq
    <2> QED BY <2>12, <2>19
  <1> QED BY <1>1, <1>2

\* The columns a template starts with.
LEMMA DefaultColumns ==
    DefaultTemplate \in Seq(Word \ Spaces) /\ ColumnsOK(DefaultTemplate)
  <1>1. PICK t : t = DefaultTemplate
    OBVIOUS
  <1>2. /\ DOMAIN t = 1..4 /\ t[1] = "MACAddress" /\ t[2] = "IdentityGroup"
        /\ t[3] = "Description" /\ t[4] = "StaticGroupAssignment"
    BY <1>1 DEF DefaultTemplate
  <1>3. Portal \subseteq Word \ Spaces
    BY DEF Portal, Word, Spaces, Space, LF
  <1>4. t \in Seq(Word \ Spaces)
    <2>1. "MACAddress" \in Word \ Spaces /\ "IdentityGroup" \in Word \ Spaces
          /\ "Description" \in Word \ Spaces /\ "StaticGroupAssignment" \in Word \ Spaces
      BY <1>3 DEF Portal
    <2> QED BY <1>1, <2>1 DEF DefaultTemplate
  <1>5. t # <<>>
    BY <1>2, <1>4, EmptySeq
  <1>6. \A c \in Portal : \E i \in DOMAIN t : t[i] = c
    BY <1>2 DEF Portal
  <1> QED BY <1>1, <1>4, <1>5, <1>6 DEF ColumnsOK

\* A template that is read has the portal's columns.
LEMMA ExtendedColumns ==
    ASSUME NEW columns \in Seq(Word \ Spaces)
    PROVE  ColumnsOK(extendTemplateWithPortalColumns(columns))
  <1>1. PICK d : d = DefaultTemplate
    OBVIOUS
  <1>2. PICK Z : Z = Word \ Spaces
    OBVIOUS
  <1>3. d \in Seq(Z) /\ \A c \in Portal : \E i \in DOMAIN d : d[i] = c
    BY <1>1, <1>2, DefaultColumns DEF ColumnsOK
  <1>4. PICK places : places = {k \in DOMAIN d : \A i \in DOMAIN columns : columns[i] # d[k]}
    OBVIOUS
  <1>5. PICK kept : kept = Kept(d, places)
    OBVIOUS
  <1>6. kept \in Seq(Z)
    BY <1>3, <1>5, KeptOf
  <1>7. PICK t : t = columns \o kept
    OBVIOUS
  <1>8. extendTemplateWithPortalColumns(columns) = t
    BY <1>1, <1>4, <1>5, <1>7 DEF extendTemplateWithPortalColumns
  <1>9. /\ t \in Seq(Z) /\ Len(t) = Len(columns) + Len(kept)
        /\ \A k \in 1..(Len(columns) + Len(kept)) :
              t[k] = IF k <= Len(columns) THEN columns[k] ELSE kept[k - Len(columns)]
    BY <1>2, <1>6, <1>7, ConcatProperties
  <1>10. /\ Len(columns) \in Nat /\ DOMAIN columns = 1..Len(columns)
         /\ Len(kept) \in Nat /\ DOMAIN kept = 1..Len(kept)
         /\ DOMAIN t = 1..(Len(columns) + Len(kept))
    BY <1>6, <1>9
  <1>11. ASSUME NEW c \in Portal PROVE \E i \in DOMAIN t : t[i] = c
    <2>1. PICK j \in DOMAIN d : d[j] = c
      BY <1>3
    <2>2. CASE \E i \in DOMAIN columns : columns[i] = c
      <3>1. PICK i \in DOMAIN columns : columns[i] = c
        BY <2>2
      <3>2. i \in 1..(Len(columns) + Len(kept)) /\ i <= Len(columns)
        BY <1>10
      <3> QED BY <1>9, <1>10, <3>1, <3>2
    <2>3. CASE ~\E i \in DOMAIN columns : columns[i] = c
      <3>1. j \in places
        BY <1>4, <2>1, <2>3
      <3>2. PICK k \in DOMAIN kept : kept[k] = c
        BY <1>3, <1>5, <2>1, <3>1, KeptHas
      <3>3. PICK i : i = Len(columns) + k
        OBVIOUS
      <3>4. i \in 1..(Len(columns) + Len(kept)) /\ ~(i <= Len(columns)) /\ i - Len(columns) = k
        BY <1>10, <3>2, <3>3
      <3>5. t[i] = kept[k]
        BY <1>9, <3>4
      <3> QED BY <1>10, <3>2, <3>4, <3>5
    <2> QED BY <2>2, <2>3
  <1>12. t # <<>>
    <2>1. "MACAddress" \in Portal
      BY DEF Portal
    <2>2. PICK i \in DOMAIN t : t[i] = "MACAddress"
      BY <1>11, <2>1
    <2> QED BY <1>9, <1>10, <2>2, EmptySeq
  <1> QED BY <1>2, <1>8, <1>9, <1>11, <1>12 DEF ColumnsOK

----------------------------------------------------------------------------
\* The invariant of the import, and its steps.

\* The types of what ISE holds and of an item of the import.
IseT == [Macs -> EntryT \union {Absent}]
BulkItem == [mac : Macs, desc : Seq(Word), static : {"true", "false", "null"},
             group : Groups \union {NoGroup}]
\* What was exported can come back the same.
AllExportable(of) ==
    /\ \E m \in Macs : of[m] # Absent
    /\ \A m \in Macs : of[m] # Absent => Exportable(of[m])
\* An item of the import that says what was exported.
OwnItem(item, of) ==
    /\ item.desc = of[item.mac].desc /\ item.static = Assigned(of[item.mac])
    /\ item.group \in {NoGroup, of[item.mac].group}

\* The chosen file, the previewed rows and the request say what ISE held when their text
\* was exported, if it was: the invariant of an import.
FileOK ==
    /\ file.text \in Seq(Word) /\ file.of \in IseT
    /\ AllExportable(file.of) =>
          \A k \in DOMAIN parseCsv(file.text) : OwnRow(parseCsv(file.text)[k], file.of)
ParsedOK ==
    /\ parsed.rows \in Seq(Item) /\ parsed.of \in IseT
    /\ AllExportable(parsed.of) => \A k \in DOMAIN parsed.rows : OwnRow(parsed.rows[k], parsed.of)
BulkOK ==
    /\ bulk \in [items : Seq(BulkItem), of : IseT, overwrite : BOOLEAN,
                st : {"none", "out", "answered"}]
    /\ AllExportable(bulk.of) => \A i \in DOMAIN bulk.items : OwnItem(bulk.items[i], bulk.of)
CsvOK == ise \in IseT /\ ColumnsOK(template) /\ FileOK /\ ParsedOK /\ BulkOK

\* A row becomes an item of the request.
LEMMA ItemIs ==
    ASSUME NEW row \in Item, Valid(row), NEW known \in {{}, Groups},
           NEW fallback \in IF known = {} THEN {NoGroup} ELSE known, NEW item,
           item = [mac |-> row.mac[1], desc |-> row.desc, static |-> row.static,
                   group |-> GroupOf(row.group, fallback, known)]
    PROVE  /\ item \in BulkItem
           /\ \A of \in IseT : AllExportable(of) /\ OwnRow(row, of) => OwnItem(item, of)
  <1>1. PICK m \in Macs : row.mac = <<m>>
    BY DEF Valid
  <1>2. item.mac = m /\ item.desc = row.desc /\ item.static = row.static
        /\ item.group = GroupOf(row.group, fallback, known)
    BY <1>1
  <1>3. item \in BulkItem
    <2>1. GroupOf(row.group, fallback, known) \in Groups \union {NoGroup}
      BY DEF GroupOf
    <2>2. row.desc \in Seq(Word) /\ row.static \in {"true", "false", "null"} /\ row.mac[1] = m
      BY <1>1 DEF Item
    <2> QED BY <2>1, <2>2 DEF BulkItem
  <1>4. ASSUME NEW of \in IseT, AllExportable(of), OwnRow(row, of) PROVE OwnItem(item, of)
    <2>1. PICK n \in Macs : /\ of[n] # Absent /\ row.mac = <<n>> /\ row.group = <<of[n].group>>
                            /\ row.desc = of[n].desc /\ row.static = Assigned(of[n])
      BY <1>4 DEF OwnRow
    <2>2. n = m
      <3>1. row.mac[1] = m /\ row.mac[1] = n
        BY <1>1, <2>1
      <3> QED BY <3>1
    <2>3. PICK g : g = of[m].group
      OBVIOUS
    <2>4. g \in Groups
      <3>1. Exportable(of[m]) /\ of[m] \in EntryT
        BY <1>4, <2>1, <2>2 DEF AllExportable, IseT
      <3> QED BY <2>3, <3>1 DEF Exportable, EntryT
    <2>5. GroupOf(row.group, fallback, known) \in {NoGroup, g}
      <3>1. row.group # <<>> /\ row.group[1] = g
        BY <2>1, <2>2, <2>3
      <3>2. CASE g \in known
        BY <3>1, <3>2 DEF GroupOf
      <3>3. CASE g \notin known
        <4>1. known = {} /\ fallback = NoGroup
          BY <2>4, <3>3
        <4> QED BY <3>3, <4>1, <3>1 DEF GroupOf
      <3> QED BY <3>2, <3>3
    <2> QED BY <1>2, <2>1, <2>2, <2>3, <2>5 DEF OwnItem
  <1> QED BY <1>3, <1>4

\* What is stored of an item.
LEMMA StoredTyped ==
    ASSUME NEW item \in BulkItem, NEW old \in EntryT \union {Absent}, NEW overwrite \in BOOLEAN
    PROVE  Stored(item, old, overwrite) \in EntryT \union {Absent}
  <1>1. item.group \in Groups \union {NoGroup} /\ item.desc \in Seq(Word)
    BY DEF BulkItem
  <1>2. CASE old = Absent
    <2>1. Stored(item, old, overwrite)
             = [group |-> item.group, desc |-> item.desc, static |-> item.static # "false"]
      BY <1>2 DEF Stored
    <2>2. (item.static # "false") \in BOOLEAN
      OBVIOUS
    <2> QED BY <1>1, <2>1, <2>2 DEF EntryT
  <1>3. CASE old # Absent /\ ~overwrite
    BY <1>3 DEF Stored
  <1>4. CASE old # Absent /\ overwrite
    <2>1. PICK g : g = IF item.group = NoGroup THEN old.group ELSE item.group
      OBVIOUS
    <2>2. PICK s \in BOOLEAN : s = IF item.static = "null" THEN item.group # NoGroup
                   ELSE item.static = "true"
      <3>1. (item.group # NoGroup) \in BOOLEAN /\ (item.static = "true") \in BOOLEAN
        OBVIOUS
      <3> QED BY <3>1
    <2>3. Stored(item, old, overwrite) = [group |-> g, desc |-> item.desc, static |-> s]
      BY <1>4, <2>1, <2>2 DEF Stored
    <2>4. g \in Groups \union {NoGroup}
      BY <1>1, <1>4, <2>1 DEF EntryT
    <2> QED BY <1>1, <2>3, <2>4 DEF EntryT
  <1> QED BY <1>2, <1>3, <1>4

\* An item that says what is there changes nothing.
LEMMA StoredSame ==
    ASSUME NEW item \in BulkItem, NEW old \in EntryT, old # Absent, NEW overwrite \in BOOLEAN,
           item.group = old.group, item.group # NoGroup, item.desc = old.desc,
           item.static = Assigned(old)
    PROVE  Stored(item, old, overwrite) = old
  <1>1. CASE ~overwrite
    BY <1>1 DEF Stored
  <1>2. CASE overwrite
    <2>1. item.static # "null" /\ ((item.static = "true") <=> old.static)
          /\ old.static \in BOOLEAN
      BY DEF Assigned, EntryT
    <2>2. (item.static = "true") = old.static
      BY <2>1
    <2>3. Stored(item, old, overwrite)
              = [group |-> item.group, desc |-> item.desc, static |-> item.static = "true"]
      BY <1>2, <2>1 DEF Stored
    <2>4. old = [group |-> old.group, desc |-> old.desc, static |-> old.static]
      BY DEF EntryT
    <2> QED BY <2>2, <2>3, <2>4
  <1> QED BY <1>1, <1>2

\* The items are stored one after the other, each or not.
LEMMA ServeBulkIs ==
    ASSUME BulkOK, ise \in IseT, ServeBulk
    PROVE  /\ ise' \in IseT
           /\ \A m \in Macs : /\ ise[m] = bulk.of[m] /\ Exportable(ise[m])
                              /\ AllExportable(bulk.of)
                              /\ \A i \in DOMAIN bulk.items : bulk.items[i].group # NoGroup
                              => ise'[m] = ise[m]
  <1>1. PICK done \in SUBSET DOMAIN bulk.items :
            ise' = FoldLeft(LAMBDA held, i :
                       IF i \in done
                       THEN [held EXCEPT ![bulk.items[i].mac] =
                                 Stored(bulk.items[i], @, bulk.overwrite)]
                       ELSE held, ise, [i \in DOMAIN bulk.items |-> i])
    BY DEF ServeBulk
  <1>2. PICK idx : idx = [i \in DOMAIN bulk.items |-> i]
    OBVIOUS
  <1>3. ise' = Fold(Storing(done), ise, idx)
    BY <1>1, <1>2, BulkFold
  <1>4. Len(bulk.items) \in Nat /\ DOMAIN bulk.items = 1..Len(bulk.items)
        /\ (\A i \in DOMAIN bulk.items : bulk.items[i] \in BulkItem) /\ bulk.overwrite \in BOOLEAN
    BY DEF BulkOK
  <1>5. idx \in Seq(DOMAIN bulk.items)
    <2>1. idx \in [1..Len(bulk.items) -> DOMAIN bulk.items]
      BY <1>2, <1>4
    <2> QED BY <1>4, <2>1, IsSeq
  <1>6. ASSUME NEW h \in IseT, NEW i \in DOMAIN bulk.items
        PROVE  /\ Step(Storing(done), h, i) \in IseT
               /\ \A m \in Macs : \/ Step(Storing(done), h, i)[m] = h[m]
                                  \/ /\ bulk.items[i].mac = m
                                     /\ Step(Storing(done), h, i)[m]
                                          = Stored(bulk.items[i], h[m], bulk.overwrite)
    <2>1. PICK item : item = bulk.items[i]
      OBVIOUS
    <2>2. item \in BulkItem /\ item.mac \in Macs
      BY <1>4, <2>1 DEF BulkItem
    <2>3. PICK g : g = [h EXCEPT ![item.mac] = Stored(item, h[item.mac], bulk.overwrite)]
      OBVIOUS
    <2>4. Step(Storing(done), h, i) = IF i \in done THEN g ELSE h
      BY <2>1, <2>3 DEF Step, Storing
    <2>5. h[item.mac] \in EntryT \union {Absent} /\ DOMAIN h = Macs
      BY <2>2 DEF IseT
    <2>6. Stored(item, h[item.mac], bulk.overwrite) \in EntryT \union {Absent}
      BY <1>4, <2>2, <2>5, StoredTyped
    <2>7. g \in IseT
      BY <2>2, <2>3, <2>6 DEF IseT
    <2>8. \A m \in Macs : \/ g[m] = h[m]
                          \/ item.mac = m /\ g[m] = Stored(item, h[m], bulk.overwrite)
      BY <2>2, <2>3, <2>5
    <2> QED BY <2>1, <2>4, <2>7, <2>8
  <1>7. ise' \in IseT
    <2>1. \A h \in IseT, i \in DOMAIN bulk.items : Step(Storing(done), h, i) \in IseT
      BY <1>6
    <2>2. Fold(Storing(done), ise, idx) \in IseT
      BY <1>5, <2>1, FoldTyped
    <2> QED BY <1>3, <2>2
  <1>8. ASSUME NEW m \in Macs, ise[m] = bulk.of[m], Exportable(ise[m]), AllExportable(bulk.of),
               \A i \in DOMAIN bulk.items : bulk.items[i].group # NoGroup
        PROVE  ise'[m] = ise[m]
    <2>1. PICK X : X = {h \in IseT : h[m] = ise[m]}
      OBVIOUS
    <2>2. ASSUME NEW h \in X, NEW i \in DOMAIN bulk.items PROVE Step(Storing(done), h, i) \in X
      <3>1. h \in IseT /\ h[m] = ise[m] /\ ise[m] \in EntryT /\ ise[m] # Absent
        BY <1>8, <2>1 DEF IseT, Exportable
      <3>2. PICK item : item = bulk.items[i]
        OBVIOUS
      <3>3. item.mac = m => Stored(item, h[m], bulk.overwrite) = h[m]
        <4>1. ASSUME item.mac = m PROVE Stored(item, h[m], bulk.overwrite) = h[m]
          <5>1. OwnItem(item, bulk.of) /\ item.group # NoGroup /\ item \in BulkItem
            BY <1>4, <1>8, <3>2 DEF BulkOK
          <5>2. PICK old : old = ise[m]
            OBVIOUS
          <5>3. /\ old \in EntryT /\ old # Absent /\ item.group = old.group
                /\ item.group # NoGroup
                /\ item.desc = old.desc /\ item.static = Assigned(old)
            BY <1>8, <3>1, <4>1, <5>1, <5>2 DEF OwnItem
          <5>4. Stored(item, old, bulk.overwrite) = old
            BY <1>4, <5>1, <5>3, StoredSame
          <5> QED BY <3>1, <5>2, <5>4
        <4> QED BY <4>1
      <3>4. Step(Storing(done), h, i)[m] = h[m] /\ Step(Storing(done), h, i) \in IseT
        BY <1>6, <3>1, <3>2, <3>3
      <3> QED BY <2>1, <3>1, <3>4
    <2>3. ise \in X
      BY <2>1
    <2>4. Fold(Storing(done), ise, idx) \in X
      BY <1>5, <2>2, <2>3, FoldTyped
    <2> QED BY <1>3, <2>1, <2>4
  <1> QED BY <1>7, <1>8

\* Registering changes ISE only by the endpoints it makes.
LEMMA RegisterIse == ise \in IseT /\ RegisterNext => ise' \in IseT
  <1> SUFFICES ASSUME ise \in IseT, RegisterNext PROVE ise' \in IseT
    OBVIOUS
  <1>1. CASE Open \/ Fill \/ LoadAgain
    BY <1>1 DEF Open, Fill, LoadAgain, Click, TypeMac, Scanned, LookupVendor, VendorShown,
                ApplyPlatform, ApplyTemplate, AskFor, KeyGenerated, TemplateSaved, ToggleMine,
                MineLoaded, Scan, CameraGranted, CameraDenied, ScanCancelled, queueVars
  <1>2. CASE ListsLoaded \/ SubmitForm \/ Leave \/ Load \/ ReconnectDead
    BY <1>2 DEF ListsLoaded, ShowBanner, SubmitForm, Submit, Leave, LeaveQueue, Load, ReloadQueue,
                ReconnectDead
  <1>3. CASE \E c \in calls : SubmitDone(c) \/ SubmitQueued(c)
    BY <1>3 DEF SubmitDone, SubmitQueued, SubmitAnswered, Enqueue
  <1>4. CASE Beneath /\ ~\E c \in calls : Serve(c)
    BY <1>4 DEF Beneath, FlushClicked, FlushAnswered, FlushSent, FlushRefused, FlushStopped,
                GhostLost, GoOffline, GoOnline
  <1>5. CASE \E c \in calls : Serve(c)
    <2>1. PICK c \in calls : ise' = ise \/ ise' = [ise EXCEPT ![macOf[c.reg]] = NewEntry]
      BY <1>5 DEF Serve
    <2>2. NewEntry \in EntryT
      BY EntriesAssumption, EntryAssumption, TextAssumption DEF Entry, EntryT
    <2> QED BY <2>1, <2>2 DEF IseT
  <1> QED BY <1>1, <1>2, <1>3, <1>4, <1>5 DEF RegisterNext

\* It holds at the start.
LEMMA CsvStarts == Init => CsvOK
  <1> SUFFICES ASSUME Init PROVE CsvOK
    OBVIOUS
  <1>1. Entries \subseteq EntryT
    BY EntryAssumption, TextAssumption DEF Entry, EntryT
  <1>2. ise \in IseT
    BY <1>1, EntriesAssumption DEF Init, QueueInit, IseT
  <1>3. Handmade \in IseT /\ ~AllExportable(Handmade)
    BY DEF Handmade, IseT, AllExportable
  <1>4. PICK e : e = <<>>
    OBVIOUS
  <1>5. e \in Seq(Word) /\ e \in Seq(Item) /\ e \in Seq(BulkItem)
    BY <1>4
  <1>6. file = [text |-> e, of |-> Handmade] /\ parsed = [rows |-> e, of |-> Handmade]
        /\ bulk = [items |-> e, of |-> Handmade, overwrite |-> FALSE, st |-> "none"]
    BY <1>4 DEF Init, CsvInit, NoFile, NoRows, NoBulk
  <1>7. FileOK
    BY <1>3, <1>5, <1>6 DEF FileOK
  <1>8. ParsedOK
    BY <1>3, <1>5, <1>6 DEF ParsedOK
  <1>9. BulkOK
    BY <1>3, <1>5, <1>6 DEF BulkOK
  <1>10. ColumnsOK(template)
    BY DefaultColumns DEF Init, CsvInit
  <1> QED BY <1>2, <1>7, <1>8, <1>9, <1>10 DEF CsvOK

\* A template that is imported is one.
LEMMA TemplateKeeps ==
    ASSUME CsvOK, ImportTemplate
    PROVE  ColumnsOK(template')
  <1>1. PICK text \in TemplateFiles :
            template' = extendTemplateWithPortalColumns(
                            [i \in DOMAIN parseTemplateHeader(text)
                                |-> parseTemplateHeader(text)[i][1]])
    BY DEF ImportTemplate
  <1>2. PICK columns : columns = parseTemplateHeader(text)
    OBVIOUS
  <1>3. columns \in Seq(Name)
    <2>1. text \in Seq(Word)
      BY TextAssumption
    <2> QED BY <1>2, <2>1, NamesRead
  <1>4. PICK firsts : firsts = [i \in DOMAIN columns |-> columns[i][1]]
    OBVIOUS
  <1>5. firsts \in Seq(Word \ Spaces)
    <2>1. Len(columns) \in Nat /\ DOMAIN columns = 1..Len(columns)
          /\ \A i \in 1..Len(columns) : columns[i] \in Name
      BY <1>3
    <2>2. firsts \in [1..Len(columns) -> Word \ Spaces]
      BY <1>4, <2>1 DEF Name
    <2> QED BY <2>1, <2>2, IsSeq
  <1>6. ColumnsOK(extendTemplateWithPortalColumns(firsts))
    BY <1>5, ExtendedColumns
  <1> QED BY <1>1, <1>2, <1>4, <1>6

\* What is exported reads as what ISE holds.
LEMMA ExportKeeps ==
    ASSUME CsvOK, ExportCsv
    PROVE  FileOK'
  <1>1. PICK ms : ms = SetToSeq(Endpoints)
    OBVIOUS
  <1>2. PICK text : text = toIseCsv(ms)
    OBVIOUS
  <1>3. file'.text = text /\ file'.of = ise
    BY <1>1, <1>2 DEF ExportCsv, Endpoints
  <1>4. ms \in Seq(Endpoints) /\ text \in Seq(Word)
    BY <1>1, <1>2, ExportTyped DEF CsvOK, IseT
  <1>5. ASSUME AllExportable(ise)
        PROVE  \A k \in DOMAIN parseCsv(text) : OwnRow(parseCsv(text)[k], ise)
    <2>1. \A m \in Endpoints : Exportable(ise[m])
      BY <1>5 DEF AllExportable, Endpoints
    <2> QED BY <1>2, <1>4, <2>1, ExportReads DEF CsvOK, IseT
  <1>6. ise \in IseT
    BY DEF CsvOK
  <1>7. FileOK' = (/\ file'.text \in Seq(Word) /\ file'.of \in IseT
                   /\ AllExportable(file'.of) =>
                         \A k \in DOMAIN parseCsv(file'.text) :
                             OwnRow(parseCsv(file'.text)[k], file'.of))
    BY DEF FileOK
  <1> QED BY <1>3, <1>4, <1>5, <1>6, <1>7

\* Previewed rows say what the file says,
LEMMA PreviewKeeps ==
    ASSUME CsvOK, Preview
    PROVE  ParsedOK'
  <1>1. PICK text : text = file.text
    OBVIOUS
  <1>2. parsed'.rows = parseCsv(text) /\ parsed'.of = file.of
    BY <1>1 DEF Preview
  <1>3. text \in Seq(Word) /\ file.of \in IseT
    BY <1>1 DEF CsvOK, FileOK
  <1>4. parseCsv(text) \in Seq(Item)
    BY <1>3, ParseTyped
  <1>5. AllExportable(file.of) => \A k \in DOMAIN parseCsv(text) :
            OwnRow(parseCsv(text)[k], file.of)
    BY <1>1 DEF CsvOK, FileOK
  <1>6. ParsedOK' = (/\ parsed'.rows \in Seq(Item) /\ parsed'.of \in IseT
                     /\ AllExportable(parsed'.of) =>
                           \A k \in DOMAIN parsed'.rows : OwnRow(parsed'.rows[k], parsed'.of))
    BY DEF ParsedOK
  <1> QED BY <1>2, <1>3, <1>4, <1>5, <1>6

\* and the items what the rows do.
LEMMA ImportKeeps ==
    ASSUME CsvOK, NEW overwrite \in BOOLEAN, Import(overwrite)
    PROVE  BulkOK'
  <1>1. PICK places : places = {i \in DOMAIN parsed.rows : Valid(parsed.rows[i])}
    OBVIOUS
  <1>2. PICK rows : rows = Kept(parsed.rows, places)
    OBVIOUS
  <1>3. parsed.rows \in Seq(Item) /\ parsed.of \in IseT
    BY DEF CsvOK, ParsedOK
  <1>4. rows \in Seq(Item)
    BY <1>2, <1>3, KeptOf
  <1>5. \A k \in DOMAIN rows :
           \E i \in DOMAIN parsed.rows : i \in places /\ rows[k] = parsed.rows[i]
    BY <1>2, <1>3, KeptOf
  <1>5a. PICK known \in {{}, Groups} :
           \E fallback \in IF known = {} THEN {NoGroup} ELSE known :
              bulk' = [items |-> [i \in DOMAIN rows |->
                         [mac |-> rows[i].mac[1], desc |-> rows[i].desc,
                          static |-> rows[i].static,
                          group |-> GroupOf(rows[i].group, fallback, known)]],
                      of |-> parsed.of, overwrite |-> overwrite, st |-> "out"]
    BY <1>1, <1>2 DEF Import
  <1>6. PICK fallback \in IF known = {} THEN {NoGroup} ELSE known :
           bulk' = [items |-> [i \in DOMAIN rows |->
                      [mac |-> rows[i].mac[1], desc |-> rows[i].desc, static |-> rows[i].static,
                       group |-> GroupOf(rows[i].group, fallback, known)]],
                   of |-> parsed.of, overwrite |-> overwrite, st |-> "out"]
    BY <1>5a
  <1>7. PICK items : items = [i \in DOMAIN rows |->
                      [mac |-> rows[i].mac[1], desc |-> rows[i].desc, static |-> rows[i].static,
                       group |-> GroupOf(rows[i].group, fallback, known)]]
    OBVIOUS
  <1>8. ASSUME NEW i \in DOMAIN rows
        PROVE  /\ items[i] \in BulkItem
               /\ AllExportable(parsed.of) => OwnItem(items[i], parsed.of)
    <2>1. PICK row : row = rows[i]
      OBVIOUS
    <2>2. row \in Item /\ Valid(row) /\ (AllExportable(parsed.of) => OwnRow(row, parsed.of))
      <3>1. row \in Item
        BY <1>4, <2>1
      <3>2. PICK j \in DOMAIN parsed.rows : j \in places /\ row = parsed.rows[j]
        BY <1>5, <2>1
      <3>3. Valid(row)
        BY <1>1, <3>2
      <3>4. AllExportable(parsed.of) => OwnRow(row, parsed.of)
        BY <3>2 DEF CsvOK, ParsedOK
      <3> QED BY <3>1, <3>3, <3>4
    <2>3. items[i] = [mac |-> row.mac[1], desc |-> row.desc, static |-> row.static,
                      group |-> GroupOf(row.group, fallback, known)]
      BY <1>7, <2>1
    <2> QED BY <1>3, <2>2, <2>3, ItemIs
  <1>9. items \in Seq(BulkItem) /\ DOMAIN items = DOMAIN rows
    <2>1. Len(rows) \in Nat /\ DOMAIN rows = 1..Len(rows)
      BY <1>4
    <2>2. items \in [1..Len(rows) -> BulkItem]
      BY <1>7, <1>8, <2>1
    <2> QED BY <2>1, <2>2, IsSeq
  <1>10. bulk' = [items |-> items, of |-> parsed.of, overwrite |-> overwrite, st |-> "out"]
    BY <1>6, <1>7
  <1>11. /\ bulk'.items = items /\ bulk'.of = parsed.of
         /\ bulk' \in [items : Seq(BulkItem), of : IseT, overwrite : BOOLEAN,
                       st : {"none", "out", "answered"}]
    BY <1>3, <1>9, <1>10
  <1>12. BulkOK' = (/\ bulk' \in [items : Seq(BulkItem), of : IseT, overwrite : BOOLEAN,
                                  st : {"none", "out", "answered"}]
                    /\ AllExportable(bulk'.of) =>
                          \A i \in DOMAIN bulk'.items : OwnItem(bulk'.items[i], bulk'.of))
    BY DEF BulkOK
  <1> QED BY <1>8, <1>9, <1>11, <1>12

\* An answer leaves the items, or removes them.
LEMMA AnsweredKeeps == CsvOK /\ bulk' \in {NoBulk, [bulk EXCEPT !.st = "answered"]} => BulkOK'
  <1> SUFFICES ASSUME CsvOK, bulk' \in {NoBulk, [bulk EXCEPT !.st = "answered"]} PROVE BulkOK'
    OBVIOUS
  <1>1. BulkOK' = (/\ bulk' \in [items : Seq(BulkItem), of : IseT, overwrite : BOOLEAN,
                                 st : {"none", "out", "answered"}]
                   /\ AllExportable(bulk'.of) =>
                         \A i \in DOMAIN bulk'.items : OwnItem(bulk'.items[i], bulk'.of))
    BY DEF BulkOK
  <1>2. CASE bulk' = NoBulk
    <2>1. PICK e : e = <<>>
      OBVIOUS
    <2>2. e \in Seq(BulkItem) /\ Handmade \in IseT /\ ~AllExportable(Handmade)
      BY <2>1 DEF Handmade, IseT, AllExportable
    <2>3. bulk' = [items |-> e, of |-> Handmade, overwrite |-> FALSE, st |-> "none"]
      BY <1>2, <2>1 DEF NoBulk
    <2> QED BY <1>1, <2>2, <2>3
  <1>3. CASE bulk' = [bulk EXCEPT !.st = "answered"]
    <2>1. /\ bulk \in [items : Seq(BulkItem), of : IseT, overwrite : BOOLEAN,
                       st : {"none", "out", "answered"}]
          /\ AllExportable(bulk.of) => \A i \in DOMAIN bulk.items :
                 OwnItem(bulk.items[i], bulk.of)
      BY DEF CsvOK, BulkOK
    <2>2. /\ bulk'.items = bulk.items /\ bulk'.of = bulk.of
          /\ bulk' \in [items : Seq(BulkItem), of : IseT, overwrite : BOOLEAN,
                        st : {"none", "out", "answered"}]
      BY <1>3, <2>1
    <2> QED BY <1>1, <2>1, <2>2
  <1> QED BY <1>2, <1>3

\* A step of the import, or none it sees.
TripStep ==
    bulk.st = "out" /\ bulk'.st = "answered" /\
    (\A i \in DOMAIN bulk.items : bulk.items[i].group # NoGroup)
    => \A m \in Macs : /\ ise[m] = bulk.of[m] /\ Exportable(ise[m])
                       /\ (\A n \in Macs : bulk.of[n] # Absent => Exportable(bulk.of[n]))
                       => ise'[m] = ise[m]

\* What a step leaves alone.
LEMMA UnchangedKeeps ==
    /\ CsvOK /\ UNCHANGED template => ColumnsOK(template')
    /\ CsvOK /\ UNCHANGED file => FileOK'
    /\ CsvOK /\ UNCHANGED parsed => ParsedOK'
    /\ CsvOK /\ UNCHANGED bulk => BulkOK' /\ TripStep
  <1>1. CsvOK /\ UNCHANGED template => ColumnsOK(template')
    BY DEF CsvOK
  <1>2. CsvOK /\ UNCHANGED file => FileOK'
    BY DEF CsvOK, FileOK
  <1>3. CsvOK /\ UNCHANGED parsed => ParsedOK'
    BY DEF CsvOK, ParsedOK
  <1>4. CsvOK /\ UNCHANGED bulk => BulkOK'
    BY DEF CsvOK, BulkOK
  <1>5. UNCHANGED bulk => TripStep
    BY DEF TripStep
  <1> QED BY <1>1, <1>2, <1>3, <1>4, <1>5

\* Every step keeps the invariant, and an import of what is there changes nothing.
LEMMA CsvStep == CsvOK /\ [Next]_vars => CsvOK' /\ TripStep
  <1> SUFFICES ASSUME CsvOK, [Next]_vars PROVE CsvOK' /\ TripStep
    OBVIOUS
  <1>0. CsvOK' = (ise' \in IseT /\ ColumnsOK(template') /\ FileOK' /\ ParsedOK' /\ BulkOK')
    BY DEF CsvOK
  <1>1. CASE RegisterNext /\ UNCHANGED csvVars
    <2>1. UNCHANGED <<template, file, parsed, bulk>>
      BY <1>1 DEF csvVars
    <2>2. ise' \in IseT
      BY <1>1, RegisterIse DEF CsvOK
    <2> QED BY <1>0, <2>1, <2>2, UnchangedKeeps
  <1>2. CASE ImportTemplate
    <2>1. UNCHANGED <<file, parsed, bulk, ise>>
      BY <1>2 DEF ImportTemplate, queueVars
    <2>2. ise' \in IseT
      BY <2>1 DEF CsvOK
    <2> QED BY <1>0, <1>2, <2>1, <2>2, TemplateKeeps, UnchangedKeeps
  <1>3. CASE ResetTemplate
    <2>1. UNCHANGED <<file, parsed, bulk, ise>> /\ template' = DefaultTemplate
      BY <1>3 DEF ResetTemplate, queueVars
    <2>2. ise' \in IseT
      BY <2>1 DEF CsvOK
    <2> QED BY <1>0, <2>1, <2>2, DefaultColumns, UnchangedKeeps
  <1>4. CASE ExportCsv
    <2>1. UNCHANGED <<template, parsed, bulk, ise>>
      BY <1>4 DEF ExportCsv, queueVars
    <2>2. ise' \in IseT
      BY <2>1 DEF CsvOK
    <2> QED BY <1>0, <1>4, <2>1, <2>2, ExportKeeps, UnchangedKeeps
  <1>5. CASE PasteFile
    <2>1. UNCHANGED <<template, parsed, bulk, ise>>
      BY <1>5 DEF PasteFile, queueVars
    <2>2. PICK text \in SimpleFiles : file' = [text |-> text, of |-> Handmade]
      BY <1>5 DEF PasteFile
    <2>3. ise' \in IseT
      BY <2>1 DEF CsvOK
    <2>4. Handmade \in IseT /\ ~AllExportable(Handmade)
      BY DEF Handmade, IseT, AllExportable
    <2>5. FileOK'
      BY <2>2, <2>4, TextAssumption DEF FileOK
    <2> QED BY <1>0, <2>1, <2>3, <2>5, UnchangedKeeps
  <1>6. CASE Preview
    <2>1. UNCHANGED <<template, file, bulk, ise>>
      BY <1>6 DEF Preview, queueVars
    <2>2. ise' \in IseT
      BY <2>1 DEF CsvOK
    <2> QED BY <1>0, <1>6, <2>1, <2>2, PreviewKeeps, UnchangedKeeps
  <1>7. CASE \E overwrite \in BOOLEAN : Import(overwrite)
    <2>1. PICK overwrite \in BOOLEAN : Import(overwrite)
      BY <1>7
    <2>2. UNCHANGED <<template, file, parsed, ise>> /\ bulk.st = "none"
      BY <2>1 DEF Import, queueVars, NoBulk
    <2>3. ise' \in IseT
      BY <2>2 DEF CsvOK
    <2>4. BulkOK'
      BY <2>1, ImportKeeps
    <2>5. TripStep
      BY <2>2 DEF TripStep
    <2> QED BY <1>0, <2>2, <2>3, <2>4, <2>5, UnchangedKeeps
  <1>8. CASE ServeBulk
    <2>1. UNCHANGED <<template, file, parsed>> /\ bulk' = [bulk EXCEPT !.st = "answered"]
      BY <1>8 DEF ServeBulk
    <2>2. BulkOK'
      BY <2>1, AnsweredKeeps
    <2>3. ise' \in IseT
      BY <1>8, ServeBulkIs DEF CsvOK
    <2>4. TripStep
      <3>1. ASSUME NEW m \in Macs, ise[m] = bulk.of[m], Exportable(ise[m]),
                   \A n \in Macs : bulk.of[n] # Absent => Exportable(bulk.of[n]),
                   \A i \in DOMAIN bulk.items : bulk.items[i].group # NoGroup
            PROVE  ise'[m] = ise[m]
        <4>1. AllExportable(bulk.of)
          BY <3>1 DEF AllExportable, Exportable
        <4> QED BY <1>8, <3>1, <4>1, ServeBulkIs DEF CsvOK
      <3> QED BY <3>1 DEF TripStep
    <2> QED BY <1>0, <2>1, <2>2, <2>3, <2>4, UnchangedKeeps
  <1>9. CASE BulkAnswered
    <2>1. UNCHANGED <<template, file, parsed, ise>> /\ bulk' = NoBulk
      BY <1>9 DEF BulkAnswered, queueVars
    <2>2. BulkOK'
      BY <2>1, AnsweredKeeps
    <2>3. ise' \in IseT
      BY <2>1 DEF CsvOK
    <2>4. TripStep
      BY <2>1 DEF TripStep, NoBulk
    <2> QED BY <1>0, <2>1, <2>2, <2>3, <2>4, UnchangedKeeps
  <1>10. CASE UNCHANGED vars
    <2>1. UNCHANGED <<template, file, parsed, bulk, ise>>
      BY <1>10 DEF vars, csvVars, queueVars
    <2>2. ise' \in IseT
      BY <2>1 DEF CsvOK
    <2> QED BY <1>0, <2>1, <2>2, UnchangedKeeps
  <1> QED BY <1>1, <1>2, <1>3, <1>4, <1>5, <1>6, <1>7, <1>8, <1>9, <1>10
      DEF Next, ChooseFile, Importing

\* What an export says is imported as it was, for any devices, groups, descriptions,
\* templates and texts: the code's csvQuote, parseCsv and the import of its rows.
THEOREM ImportsRoundTrip == Spec => RoundTrip
  <1>1. CsvOK /\ [Next]_vars => CsvOK'
    BY CsvStep
  <1>2. CsvOK /\ [Next]_vars => [TripStep]_vars
    BY CsvStep
  <1>3. [TripStep]_vars <=> [bulk.st = "out" /\ bulk'.st = "answered" /\
       (\A i \in DOMAIN bulk.items : bulk.items[i].group # NoGroup)
       => \A m \in Macs : /\ ise[m] = bulk.of[m] /\ Exportable(ise[m])
                          /\ (\A n \in Macs : bulk.of[n] # Absent => Exportable(bulk.of[n]))
                          => ise'[m] = ise[m]]_vars
    BY DEF TripStep
  <1> QED BY <1>1, <1>2, <1>3, CsvStarts, PTL DEF Spec, RoundTrip
=============================================================================
