---------------------------- MODULE OfflineQueue ----------------------------
\* The queue of registrations in localStorage (offline_queue.js), the flushes
\* that empty it, the network they run over and the backend that answers.
\* A registration is a number given in the order of submission, as the queue's
\* ids (a time and a random part) are.
EXTENDS Naturals, FiniteSets

CONSTANTS Macs,       \* the devices
          Entries,    \* what ISE may hold of a device
          NewEntry,   \* what a registration makes of it
          Held,       \* bound: what ISE may hold of a device at the start
          Absent,     \* ISE does not hold the device
          MaxRegs,    \* bound: submissions
          Flushers,   \* bound: flushes at the same time
          MaxFaults   \* bound: losses of the connection or of one request

ASSUME MacsAssumption == Macs # {}
ASSUME EntriesAssumption == NewEntry \in Entries /\ Absent \notin Entries /\ Held \subseteq Entries
ASSUME MaxRegsAssumption == MaxRegs \in Nat
ASSUME MaxFaultsAssumption == MaxFaults \in Nat

VARIABLES
    online,    \* the browser has a connection
    faults,    \* losses so far
    regs,      \* registrations submitted so far
    macOf,     \* the device each registers
    queue,     \* localStorage: the queued registrations
    todo,      \* per flush: the items it loaded and has not dealt with
    sent,      \* per flush: how many were sent
    origin,    \* per flush: what started it
    calls,     \* POST /api/endpoints requests that are out
    ise,       \* what ISE holds of each device
    made,      \* history: registrations that made an endpoint in ISE
    refused,   \* history: queued registrations an answer ended
    ready,     \* the register view is shown and has loaded its lists
    banner     \* the number its banner shows, 0: hidden

queueVars == <<online, faults, regs, macOf, queue, todo, sent, origin, calls,
               ise, made, refused, ready, banner>>

Regs == 1..MaxRegs
Form == "form"          \* the register view's form
LeftForm == "left"      \* that of a view the user has left
Nobody == "nobody"      \* the page is gone or has given up
ASSUME FlushersAssumption == Flushers \cap {Form, LeftForm, Nobody} = {}
Senders == Flushers \union {Form, LeftForm, Nobody}
Origins == {"online", "button", "left"}   \* left: the button of a view that is gone
States == {"out", "unsent", "ok", "refusal"}
Call == [by : Senders, reg : Regs, st : States]

\* fetch fails at once without a connection, else the request is on its way.
Request(s, r) == [by |-> s, reg |-> r, st |-> IF online THEN "out" ELSE "unsent"]

First(S) == CHOOSE r \in S : \A s \in S : r <= s

Size == Cardinality(queue)

QueueInit ==
    /\ online = TRUE /\ faults = 0
    /\ regs = 0
    /\ macOf = [r \in Regs |-> CHOOSE m \in Macs : TRUE]
    /\ queue = {}
    /\ todo = [f \in Flushers |-> {}]
    /\ sent = [f \in Flushers |-> 0]
    /\ origin = [f \in Flushers |-> "online"]
    /\ calls = {}
    /\ ise \in [Macs -> Held \union {Absent}]
    /\ made = {} /\ refused = {}
    /\ ready = FALSE /\ banner = 0

----------------------------------------------------------------------------
\* flushAll loads the items once and sends them one at a time.
CanFlush == \E f \in Flushers : todo[f] = {}

Flush(by) ==
    LET f == CHOOSE g \in Flushers : todo[g] = {} IN
    /\ todo' = [todo EXCEPT ![f] = queue]
    /\ origin' = [origin EXCEPT ![f] = by]
    /\ calls' = calls \union {[by |-> f, reg |-> First(queue), st |-> IF online' THEN "out" ELSE "unsent"]}
    /\ UNCHANGED sent

\* The loop goes on with the rest and the next request, or ends.
GoOn(f, rest, n, waiting) ==
    /\ todo' = [todo EXCEPT ![f] = rest]
    /\ sent' = [sent EXCEPT ![f] = IF rest = {} THEN 0 ELSE n]
    /\ origin' = [origin EXCEPT ![f] = IF rest = {} THEN "online" ELSE @]
    /\ calls' = waiting \union (IF rest = {} THEN {} ELSE {Request(f, First(rest))})

Redraw(drawn, n) == banner' = IF ready /\ drawn THEN n ELSE banner

\* A flush that ends draws the banner of the view its button is in; one that
\* the connection started draws it only if it sent something.
Draws(f, n) == origin[f] = "button" \/ (origin[f] = "online" /\ n > 0)

\* The button of the banner; an empty queue leaves only a banner to hide.
FlushClicked ==
    /\ banner > 0 /\ CanFlush
    /\ UNCHANGED <<online, faults, regs, macOf, queue, ise, made, refused, ready>>
    /\ IF queue = {}
       THEN banner' = 0 /\ UNCHANGED <<todo, sent, origin, calls>>
       ELSE Flush("button") /\ UNCHANGED banner

\* Variant: what is saved is the list the flush loaded.
FlushSentStale(c) ==
    LET n == sent[c.by] + 1
        rest == todo[c.by] \ {c.reg}
    IN
    /\ c.st = "ok"
    /\ queue' = rest
    /\ GoOn(c.by, rest, n, calls \ {c})
    /\ Redraw(rest = {} /\ Draws(c.by, n), Cardinality(queue'))
    /\ UNCHANGED <<online, faults, regs, macOf, ise, made, refused, ready>>

FlushSent(c) ==
    LET n == sent[c.by] + 1
        rest == todo[c.by] \ {c.reg}
    IN
    /\ c.st = "ok"
    /\ queue' = queue \ {c.reg}
    /\ GoOn(c.by, rest, n, calls \ {c})
    /\ Redraw(rest = {} /\ Draws(c.by, n), Cardinality(queue'))
    /\ UNCHANGED <<online, faults, regs, macOf, ise, made, refused, ready>>

\* Variant: the item stays in the queue.
FlushRefusedKeeps(c) ==
    LET rest == todo[c.by] \ {c.reg} IN
    /\ c.st = "refusal"
    /\ GoOn(c.by, rest, sent[c.by], calls \ {c})
    /\ Redraw(rest = {} /\ Draws(c.by, sent[c.by]), Size)
    /\ UNCHANGED <<online, faults, regs, macOf, queue, refused, ise, made, ready>>

\* Any answer that is not a success, a 401 or a 503 too, ends the item.
FlushRefused(c) ==
    LET rest == todo[c.by] \ {c.reg} IN
    /\ c.st = "refusal"
    /\ queue' = queue \ {c.reg}
    /\ refused' = IF c.reg \in queue THEN refused \union {c.reg} ELSE refused
    /\ GoOn(c.by, rest, sent[c.by], calls \ {c})
    /\ Redraw(rest = {} /\ Draws(c.by, sent[c.by]), Cardinality(queue'))
    /\ UNCHANGED <<online, faults, regs, macOf, ise, made, ready>>

\* The browser gives up on a request, which may still be under way.
Lost(c) ==
    /\ c.st # "unsent" => faults < MaxFaults
    /\ faults' = IF c.st = "unsent" THEN faults ELSE faults + 1
Ghosts(c) == {{}} \union IF c.st = "out" THEN {{[c EXCEPT !.by = Nobody]}} ELSE {}

\* A network error stops the flush, the rest keeps its place.
FlushStopped(c) ==
    /\ Lost(c)
    /\ \E ghost \in Ghosts(c) : GoOn(c.by, {}, 0, (calls \ {c}) \union ghost)
    /\ Redraw(Draws(c.by, sent[c.by]), Size)
    /\ UNCHANGED <<online, regs, macOf, queue, ise, made, refused, ready>>

FlushAnswered == \E c \in calls : c.by \in Flushers /\
                     (FlushSent(c) \/ FlushRefused(c) \/ FlushStopped(c))

----------------------------------------------------------------------------
\* The form's own request: what fails for want of a connection is queued.

Submit(m) ==
    /\ ready /\ regs < MaxRegs
    /\ \A c \in calls : c.by \notin {Form, LeftForm}
    /\ regs' = regs + 1
    /\ macOf' = [macOf EXCEPT ![regs + 1] = m]
    /\ calls' = calls \union {Request(Form, regs + 1)}
    /\ UNCHANGED <<online, faults, queue, todo, sent, origin, ise, made, refused, ready, banner>>

\* A success, or an error the form shows: nothing is kept.
SubmitAnswered(c) ==
    /\ c \in calls /\ c.by \in {Form, LeftForm} /\ c.st \in {"ok", "refusal"}
    /\ calls' = calls \ {c}
    /\ UNCHANGED <<online, faults, regs, macOf, queue, todo, sent, origin, ise, made, refused, ready, banner>>

Enqueue(c) ==
    /\ c \in calls /\ c.by \in {Form, LeftForm}
    /\ Lost(c)
    /\ \E ghost \in Ghosts(c) : calls' = (calls \ {c}) \union ghost
    /\ queue' = queue \union {c.reg}
    /\ Redraw(c.by = Form, Cardinality(queue'))
    /\ UNCHANGED <<online, regs, macOf, todo, sent, origin, ise, made, refused, ready>>

----------------------------------------------------------------------------
\* The backend and the network.

\* The endpoint is made unless ISE has it; an answer may report a failure
\* (a session that ended, a timeout behind the backend) in either case.
Serve(c) ==
    /\ c \in calls /\ c.st = "out"
    /\ \E done \in {FALSE} \union {ise[macOf[c.reg]] = Absent}, st \in {"ok", "refusal"} :
        /\ st = "ok" => done
        /\ ise' = IF done THEN [ise EXCEPT ![macOf[c.reg]] = NewEntry] ELSE ise
        /\ made' = IF done THEN made \union {c.reg} ELSE made
        /\ calls' = (calls \ {c}) \union
                    (IF c.by = Nobody THEN {} ELSE {[c EXCEPT !.st = st]})
    /\ UNCHANGED <<online, faults, regs, macOf, queue, todo, sent, origin, refused, ready, banner>>

GhostLost(c) ==
    /\ c \in calls /\ c.by = Nobody
    /\ calls' = calls \ {c}
    /\ UNCHANGED <<online, faults, regs, macOf, queue, todo, sent, origin, ise, made, refused, ready, banner>>

GoOffline ==
    /\ online /\ faults < MaxFaults
    /\ online' = FALSE /\ faults' = faults + 1
    /\ UNCHANGED <<regs, macOf, queue, todo, sent, origin, calls, ise, made, refused, ready, banner>>

\* The 'online' event flushes a queue that is not empty.
GoOnline ==
    /\ ~online /\ online' = TRUE
    /\ IF queue # {} /\ CanFlush THEN Flush("online") ELSE UNCHANGED <<todo, sent, origin, calls>>
    /\ UNCHANGED <<faults, regs, macOf, queue, ise, made, refused, ready, banner>>

\* The user leaves the register view: its answers draw nothing any more.
LeaveQueue ==
    /\ ready' = FALSE /\ banner' = 0
    /\ origin' = [f \in Flushers |-> IF origin[f] = "button" THEN "left" ELSE origin[f]]
    /\ calls' = {IF c.by = Form THEN [c EXCEPT !.by = LeftForm] ELSE c : c \in calls}
    /\ UNCHANGED <<online, faults, regs, macOf, queue, todo, sent, ise, made, refused>>

\* The page is closed or loaded anew: requests go on without anyone waiting.
ReloadQueue ==
    /\ faults < MaxFaults /\ faults' = faults + 1
    /\ todo' = [f \in Flushers |-> {}]
    /\ sent' = [f \in Flushers |-> 0]
    /\ origin' = [f \in Flushers |-> "online"]
    /\ \E keep \in SUBSET {c \in calls : c.st = "out"} :
          calls' = {[c EXCEPT !.by = Nobody] : c \in keep}
    /\ ready' = FALSE /\ banner' = 0
    /\ UNCHANGED <<online, regs, macOf, queue, ise, made, refused>>

\* The register view draws the banner when it has loaded its lists.
ShowBanner ==
    /\ ready' = TRUE /\ banner' = Size
    /\ UNCHANGED <<online, faults, regs, macOf, queue, todo, sent, origin, calls, ise, made, refused>>
=============================================================================
