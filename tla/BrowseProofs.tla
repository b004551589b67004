--------------------------- MODULE BrowseProofs ----------------------------
\* The Browse view for any number of endpoints, page sizes, dimensions and
\* requests: its table, its tree and its detail dialog.
\*
\* Table: text typed into a marked row stays; once all is quiet, the rows tell
\* the truth and the filter has found every endpoint.  Tree: the layout that was
\* made is the one that is kept, and merged branches stand as one.  Dialog: no
\* endpoint is saved with the values of another or loses a role, and what is shown
\* of it is true.
\*
\* The three have no variable in common: each part is about a specification of
\* its own.
EXTENDS BrowseTable, BrowseTree, BrowseDetail, WellFoundedInduction,
        SequenceTheorems, FiniteSetTheorems, TLAPS

-----------------------------------------------------------------------------
(* Text typed into a row                                                   *)
(*                                                                         *)
(* EditsSurvive speaks of rows that are marked as unsaved.  It is kept     *)
(* because of what holds of the others too: an input that was typed into   *)
(* shows what was typed until its row is drawn anew, whether or not a      *)
(* save, a load or an undo has taken the mark away meanwhile (TypedShows). *)

TypedShows ==
    \A e \in In(table) : /\ typed[e] = "yes" => table[e].text = TRUE
                         /\ typed[e] = "no" => table[e].text = FALSE

\* What is on screen.
TableOK ==
    /\ table \in [Endpoints -> Shown]
    /\ typed \in [Endpoints -> {None, "yes", "no"}]
    /\ TypedShows

\* The backend, and the rows in memory.
RowsOK == server \in Rows /\ rows \in Rows /\ cache \in Rows

\* Of a request only its kind, what it carries of the table and what it brings.
Fields == {"op", "ids", "id", "did", "sent", "page", "size", "then", "served", "ok", "got",
           "total"}
CallOK(c) ==
    /\ DOMAIN c = Fields /\ c.op \in Ops
    /\ c.got \in Rows /\ c.sent \in Values
CallsOK == \A c \in calls : CallOK(c)

\* The types, and what holds of typed text.
IInv == TableOK /\ RowsOK /\ CallsOK

-----------------------------------------------------------------------------
(* Rows and requests *)

\* Types of rows and requests.
LEMMA EmptyRows == NoRows \in Rows
  BY DEF NoRows, Rows

LEMMA AskIsOK ==
    ASSUME NEW o \in Ops, NEW ids
    PROVE  CallOK(Ask(o, ids))
  BY EmptyRows DEF Ask, CallOK, Fields, Blank, Values

LEMMA OutdatedRows ==
    ASSUME NEW r \in Rows, NEW S
    PROVE  OutdateRows(r, S) \in Rows
  BY DEF OutdateRows, Rows, Row

LEMMA OutdatedCalls ==
    ASSUME NEW C, NEW S, \A c \in C : CallOK(c)
    PROVE  \A c \in Outdate(C, S) : CallOK(c)
  <1> SUFFICES ASSUME NEW c \in C, c.served
               PROVE  CallOK([c EXCEPT !.got = [e \in Endpoints |->
                         IF e \in S /\ @[e] # Gone THEN [@[e] EXCEPT !.old = TRUE] ELSE @[e]]])
    BY DEF Outdate
  <1> DEFINE g == [e \in Endpoints |->
                   IF e \in S /\ c.got[e] # Gone THEN [c.got[e] EXCEPT !.old = TRUE] ELSE c.got[e]]
  <1>1. CallOK(c)
    OBVIOUS
  <1>2. g \in Rows
    <2>1. c.got \in Rows
      BY <1>1 DEF CallOK
    <2> QED BY <2>1 DEF Rows, Row
  <1>3. CallOK([c EXCEPT !.got = g])
    <2> HIDE DEF g
    <2> QED BY <1>1, <1>2 DEF CallOK
  <1> QED BY <1>3

\* A row is no Gone, nor are its values.
LEMMA RowFields ==
    ASSUME NEW x \in Row
    PROVE  /\ x # Gone /\ x.vals \in Values /\ x.vals # Gone
           /\ x.decomm \in BOOLEAN /\ x.old \in BOOLEAN /\ x.switched \in BOOLEAN
  BY TableAssumption DEF Row, Values

\* Values as they were before a change of status, which writes the active attribute
\* and may set the authorization; and an endpoint that is active unless it is
\* decommissioned.
Agrees(v, u) == v.guest = u.guest /\ (DecommSetAuthz \/ v.text = u.text)
Settled(x) == x.vals.active = ~x.decomm

\* What a write does to one endpoint.
LEMMA WrittenRow ==
    ASSUME server \in Rows, NEW c, CallOK(c), c.op \notin Reads, NEW S, NEW e \in Endpoints
    PROVE  LET y == Written(c, S)[e]
           IN  /\ y \in Row \cup {Gone}
               /\ e \notin S => y = server[e]
               /\ server[e] = Gone => y = Gone
               /\ e \in S /\ server[e] # Gone =>
                    /\ c.op = "delete" => y = Gone
                    /\ c.op # "delete" =>
                         /\ y # Gone /\ y.old = server[e].old /\ y.switched = server[e].switched
                         /\ c.op \in {"save", "template"} =>
                              /\ y.decomm = server[e].decomm
                              /\ Settled(server[e]) => Settled(y)
                         /\ c.op \in {"decommission", "undecommission"} =>
                              /\ y.decomm = (c.op = "decommission")
                              /\ Agrees(server[e].vals, y.vals) /\ Settled(y)
  <1> DEFINE x == server[e]
             y == Written(c, S)[e]
  <1>1. y = IF e \notin S \/ x = Gone THEN x
            ELSE CASE c.op = "save"     -> [x EXCEPT !.vals.text = c.sent.text,
                                                     !.vals.guest = c.sent.guest]
                   [] c.op = "delete"   -> Gone
                   [] c.op = "template" -> [x EXCEPT !.vals.text = TRUE]
                   [] c.op = "decommission" ->
                        [x EXCEPT !.decomm = TRUE, !.vals.active = FALSE,
                                  !.vals.text = @ \/ DecommSetAuthz]
                   [] c.op = "undecommission" ->
                        [x EXCEPT !.decomm = FALSE, !.vals.active = TRUE]
    BY DEF Written
  <1>2. x = Gone \/ x \in Row
    BY DEF Rows
  <1>3. /\ c.sent \in Values
        /\ c.op \in {"save", "delete", "decommission", "undecommission", "template"}
    BY DEF CallOK, Ops, Reads
  <1> HIDE DEF x, y
  <1>4. ASSUME e \in S, x # Gone, c.op # "delete"
        PROVE  /\ y \in Row /\ y.old = x.old /\ y.switched = x.switched
               /\ c.op \in {"save", "template"} =>
                    /\ y.decomm = x.decomm
                    /\ Settled(x) => Settled(y)
               /\ c.op \in {"decommission", "undecommission"} =>
                    /\ y.decomm = (c.op = "decommission")
                    /\ Agrees(x.vals, y.vals) /\ Settled(y)
    <2>1. x \in Row
      BY <1>2, <1>4
    <2>2. CASE c.op = "save"
      <3>1. y = [x EXCEPT !.vals.text = c.sent.text, !.vals.guest = c.sent.guest]
        BY <1>1, <1>4, <2>2
      <3> QED BY <1>3, <2>1, <2>2, <3>1 DEF Row, Values, Settled
    <2>3. CASE c.op = "template"
      <3>1. y = [x EXCEPT !.vals.text = TRUE]
        BY <1>1, <1>4, <2>3
      <3> QED BY <2>1, <2>3, <3>1 DEF Row, Values, Settled
    <2>4. CASE c.op = "decommission"
      <3> DEFINE v == x.vals.text \/ DecommSetAuthz
      <3>1. y = [x EXCEPT !.decomm = TRUE, !.vals.active = FALSE, !.vals.text = v]
        BY <1>1, <1>4, <2>4
      <3>2. v \in BOOLEAN /\ (DecommSetAuthz \/ x.vals.text = v)
        BY <2>1, TableAssumption DEF Row, Values
      <3> HIDE DEF v
      <3> QED BY <2>1, <2>4, <3>1, <3>2 DEF Row, Values, Settled, Agrees
    <2>5. CASE c.op = "undecommission"
      <3>1. y = [x EXCEPT !.decomm = FALSE, !.vals.active = TRUE]
        BY <1>1, <1>4, <2>5
      <3> QED BY <2>1, <2>5, <3>1 DEF Row, Values, Settled, Agrees
    <2> QED BY <1>3, <1>4, <2>2, <2>3, <2>4, <2>5
  <1>5. /\ e \notin S => y = x
        /\ x = Gone => y = Gone
        /\ e \in S /\ c.op = "delete" => y = Gone
    BY <1>1
  <1> QED BY <1>2, <1>4, <1>5, RowFields DEF x, y

\* A set of endpoints has a first one.
LEMMA FirstIsIn ==
    ASSUME NEW S \in SUBSET Endpoints, S # {}
    PROVE  First(S) \in S
  <1>1. Endpoints \subseteq Nat
    BY TableAssumption DEF Endpoints
  <1> DEFINE R == OpToRel(<, Nat)
  <1>2. R = {ss \in Nat \X Nat : ss[1] < ss[2]}
    BY DEF OpToRel
  <1>3. PICK x \in S : \A y \in S : <<y, x>> \notin R
    <2>1. IsWellFoundedOn(R, Nat)
      BY NatLessThanWellFounded
    <2> HIDE DEF R
    <2> QED BY <1>1, <2>1, WFMin
  <1>4. ASSUME NEW y \in S PROVE x <= y
    <2>1. ~(y < x)
      <3> SUFFICES ASSUME y < x PROVE FALSE
        OBVIOUS
      <3>1. <<y, x>> \in Nat \X Nat /\ <<y, x>>[1] < <<y, x>>[2]
        BY <1>1
      <3> QED BY <3>1, <1>2, <1>3
    <2> QED BY <2>1, <1>1
  <1> QED BY <1>4 DEF First

-----------------------------------------------------------------------------
(* Drawing the rows *)

\* Whatever rows there are now, drawing some of them keeps what was typed into
\* those that are still marked, and forgets the rest.
LEMMA Drawn ==
    ASSUME TableOK, rows' \in Rows, NEW S, S \subseteq In(rows'), renderRows(S)
    PROVE  TableOK'
  <1>1. \A e \in S : e \in Endpoints /\ rows'[e] \in Row
    BY DEF In, Rows
  <1>2. table' \in [Endpoints -> Shown]
    BY <1>1 DEF renderRows, TableOK, Shown, Row, Values
  <1>3. typed' \in [Endpoints -> {None, "yes", "no"}]
    BY DEF renderRows, TableOK
  <1>4. TypedShows'
    <2> SUFFICES ASSUME NEW e \in Endpoints, table'[e] # Gone, typed'[e] # None
                 PROVE  /\ typed'[e] = "yes" => table'[e].text = TRUE
                        /\ typed'[e] = "no" => table'[e].text = FALSE
      BY DEF TypedShows, In, None
    <2>1. e \in S /\ e \in dirty' /\ table[e] # Gone /\ typed'[e] = typed[e]
      BY DEF renderRows
    <2>2. table'[e] = [rows'[e].vals EXCEPT !.text = table[e].text]
      BY <2>1 DEF renderRows
    <2>3. table'[e].text = table[e].text
      BY <1>1, <2>1, <2>2 DEF Row, Values
    <2> QED BY <2>1, <2>3 DEF TableOK, TypedShows, In
  <1> QED BY <1>2, <1>3, <1>4 DEF TableOK

LEMMA Filtered ==
    ASSUME TableOK, rows' \in Rows, NEW p, NEW n, applyFilter(p, n)
    PROVE  TableOK'
  <1>1. Visible(rows') \subseteq In(rows')
    BY DEF Visible
  <1>2. \A q : Slice(applyFiltersToRows(rows'), q, size') \subseteq In(rows')
    BY DEF Slice, applyFiltersToRows
  <1>3. PICK S : S \subseteq In(rows') /\ renderRows(S)
    BY <1>1, <1>2 DEF applyFilter
  <1> QED BY <1>3, Drawn

\* A table emptied, or left alone.
LEMMA Cleared == ASSUME NEW error, ClearTable(error) PROVE TableOK'
  BY DEF ClearTable, TableOK, TypedShows, In, Shown

LEMMA ScreenKept == ASSUME TableOK, UNCHANGED screen PROVE TableOK'
  BY DEF screen, TableOK, TypedShows, In

\* The two ways to ask for rows again.
LEMMA Loads ==
    ASSUME IInv, NEW silent \in BOOLEAN, NEW p, load(silent, p)
    PROVE  TableOK' /\ rows' \in Rows /\ cache' \in Rows /\ CallsOK'
  <1> DEFINE d == [Ask("load", {}) EXCEPT !.page = p, !.size = size']
  <1>1. CallOK(d)
    BY AskIsOK DEF Ops, Reads, Fields, CallOK
  <1>2. calls' = calls \cup {d}
    BY DEF load
  <1>3. CallsOK'
    <2> HIDE DEF d
    <2> QED BY <1>1, <1>2 DEF IInv, CallsOK
  <1>4. TableOK'
    BY ScreenKept, Cleared DEF load, IInv
  <1> QED BY <1>3, <1>4, EmptyRows DEF load, IInv, RowsOK

LEMMA FilterModeEntered ==
    ASSUME IInv, NEW r \in Rows, NEW C, C \subseteq calls, NEW then, NEW n,
           enterFilterMode(r, C, then, n)
    PROVE  TableOK' /\ rows' \in Rows /\ cache' \in Rows /\ CallsOK'
  <1> DEFINE d == [Ask("all", {}) EXCEPT !.then = then]
  <1>1. CallOK(d)
    BY AskIsOK DEF Ops, Reads, Fields, CallOK
  <1>2. CASE calls' = C \cup {d} /\ rows' = r /\ ClearTable(FALSE) /\ cache' = cache
    <2>1. CallsOK'
      <3> HIDE DEF d
      <3> QED BY <1>1, <1>2 DEF IInv, CallsOK
    <2> QED BY <1>2, <2>1, Cleared DEF IInv, RowsOK
  <1>3. CASE /\ calls' = C /\ rows' = (IF loadingAll THEN r ELSE cache) /\ cache' = cache
             /\ \/ \E p : applyFilter(p, n)
                \/ UNCHANGED screen
    BY <1>3, Filtered, ScreenKept DEF IInv, RowsOK, CallsOK
  <1> QED BY <1>2, <1>3 DEF enterFilterMode

-----------------------------------------------------------------------------
(* Answers *)

\* Each answer keeps the types and the typed text.
LEMMA Handled == ASSUME IInv, Handle PROVE IInv'
  <1>a. TableOK /\ RowsOK /\ CallsOK /\ server \in Rows /\ rows \in Rows /\ cache \in Rows
        /\ server' = server
    BY DEF IInv, RowsOK, Handle
  <1> PICK c \in calls :
        \/ LoadDone(c) \/ LoadFails(c) \/ AllDone(c) \/ AllFails(c) \/ ExportDone(c)
        \/ FreshDone(c) \/ SaveDone(c) \/ DeleteDone(c) \/ StatusDone(c)
        \/ TemplateDone(c)
    BY DEF Handle
  <1>b. c.got \in Rows
    BY <1>a DEF CallsOK, CallOK
  <1>0. ASSUME TableOK', rows' \in Rows, cache' \in Rows, CallsOK' PROVE IInv'
    BY <1>0, <1>a DEF IInv, RowsOK
  <1>1. CASE LoadDone(c)
    <2>1. CASE needsFilterMode
      <3>1. enterFilterMode(c.got, calls \ {c}, "load", c.total)
        BY <1>1, <2>1 DEF LoadDone
      <3> QED BY <3>1, <1>b, <1>0, FilterModeEntered
    <2>2. CASE ~needsFilterMode
      BY <1>1, <2>2, <1>a, <1>b, <1>0, Filtered DEF LoadDone, CallsOK
    <2> QED BY <2>1, <2>2
  <1>2. CASE LoadFails(c)
    BY <1>2, <1>a, <1>0, Cleared, OutdatedRows DEF LoadFails, CallsOK
  <1>3. CASE AllDone(c)
    BY <1>3, <1>a, <1>b, <1>0, Filtered, ScreenKept DEF AllDone, CallsOK
  <1>4. CASE AllFails(c)
    BY <1>4, <1>a, <1>0, Filtered, ScreenKept DEF AllFails, CallsOK
  <1>5. CASE ExportDone(c)
    BY <1>5, <1>a, <1>b, <1>0, ScreenKept DEF ExportDone, CallsOK
  <1>6. CASE FreshDone(c)
    <2> DEFINE upd(r) == [e \in Endpoints |->
                 IF r[e] = Gone \/ e \notin c.ids THEN r[e]
                 ELSE IF c.got[e] # Gone THEN c.got[e] ELSE [r[e] EXCEPT !.old = TRUE]]
    <2>1. \A r \in Rows : upd(r) \in Rows
      BY <1>b DEF Rows, Row
    <2>2. rows' = upd(rows) /\ cache' = upd(cache)
      BY <1>6 DEF FreshDone
    <2> HIDE DEF upd
    <2> QED BY <1>6, <1>a, <1>0, <2>1, <2>2, Filtered, ScreenKept DEF FreshDone, CallsOK
  <1>7. CASE SaveDone(c)
    <2>1. PICK did : calls' = SaveNext(c, c.ids, did, calls \ {c})
      BY <1>7 DEF SaveDone
    <2>2. CallsOK'
      <3> DEFINE todo == c.ids \cap In(table)
                 d == [Ask("save", {x \in c.ids : x > First(todo)}) EXCEPT
                         !.id = First(todo), !.did = did, !.sent = table[First(todo)]]
      <3>1. todo # {} => CallOK(d)
        <4> SUFFICES ASSUME todo # {} PROVE CallOK(d)
          OBVIOUS
        <4>1. First(todo) \in todo
          BY FirstIsIn DEF In
        <4>2. table[First(todo)] \in Values
          BY <4>1, <1>a DEF In, TableOK, Shown
        <4> HIDE DEF todo
        <4> QED BY <4>2, AskIsOK DEF Ops, Reads, Fields, CallOK
      <3>2. calls' \subseteq (calls \cup (IF todo # {} THEN {d} ELSE {})) \cup {Ask("fresh", did)}
        BY <2>1 DEF SaveNext
      <3> HIDE DEF d, todo
      <3> QED BY <3>1, <3>2, <1>a, AskIsOK DEF Ops, Reads, Fields, CallsOK
    <2> QED BY <1>7, <1>a, <1>0, <2>2, ScreenKept DEF SaveDone, list
  <1>8. CASE DeleteDone(c)
    <2> DEFINE del(r) == IF c.ok THEN [r EXCEPT ![c.id] = Gone] ELSE r
               d == [Ask("delete", c.ids \ {First(c.ids)}) EXCEPT !.id = First(c.ids)]
    <2>1. \A r \in Rows : del(r) \in Rows
      BY DEF Rows
    <2>2. rows' = del(rows) /\ cache' = del(cache)
      BY <1>8 DEF DeleteDone
    <2>3. CallOK(d)
      BY AskIsOK DEF Ops, Reads, Fields, CallOK
    <2>4. calls' \subseteq calls \cup {d}
      BY <1>8 DEF DeleteDone
    <2> HIDE DEF del, d
    <2>5. CallsOK'
      BY <2>3, <2>4, <1>a DEF CallsOK
    <2> QED BY <1>8, <1>a, <1>0, <2>1, <2>2, <2>5, Filtered, ScreenKept DEF DeleteDone
  <1>9. CASE StatusDone(c)
    <2> DEFINE upd(r) == [e \in Endpoints |->
                 IF e \notin c.did \/ r[e] = Gone THEN r[e]
                 ELSE [r[e] EXCEPT !.decomm = (c.op = "decommission"),
                                   !.switched = TRUE,
                                   !.old = @ \/ (c.got[e] # Gone /\ c.got[e].old)]]
    <2>1. \A r \in Rows : upd(r) \in Rows
      BY <1>b DEF Rows, Row
    <2>2. rows' = upd(rows) /\ cache' = upd(cache)
      BY <1>9 DEF StatusDone
    <2> HIDE DEF upd
    <2> QED BY <1>9, <1>a, <1>0, <2>1, <2>2, Filtered, ScreenKept DEF StatusDone, CallsOK
  <1>10. CASE TemplateDone(c)
    <2>1. calls' \subseteq calls \cup {Ask("load", {})}
      BY <1>10 DEF TemplateDone
    <2>2. CallsOK'
      BY <2>1, <1>a, AskIsOK DEF Ops, Reads, Fields, CallsOK
    <2>3. rows' \in Rows /\ cache' \in Rows
      BY <1>10, <1>a, EmptyRows DEF TemplateDone, list
    <2>4. TableOK'
      BY <1>10, <1>a, Cleared, ScreenKept DEF TemplateDone
    <2> QED BY <1>0, <2>2, <2>3, <2>4
  <1> QED BY <1>1, <1>2, <1>3, <1>4, <1>5, <1>6, <1>7, <1>8, <1>9, <1>10

-----------------------------------------------------------------------------
(* The backend *)

\* So does each step of the backend,
LEMMA Served == ASSUME IInv, Serve PROVE IInv'
  <1>a. TableOK /\ RowsOK /\ CallsOK /\ server \in Rows /\ rows \in Rows /\ cache \in Rows
    BY DEF IInv, RowsOK
  <1>b. TableOK'
    BY <1>a, ScreenKept DEF Serve
  <1> PICK c \in calls : ~c.served /\ (ServeRead(c) \/ ServeWrite(c))
    BY DEF Serve
  <1>c. CallOK(c) /\ c.sent \in Values
    BY <1>a DEF CallsOK, CallOK
  <1>1. CASE ServeRead(c)
    <2> DEFINE Got(ok, has) ==
                 IF ok THEN [e \in Endpoints |-> IF e \in has THEN server[e] ELSE Gone] ELSE NoRows
               d(ok, has, n) == [c EXCEPT !.served = TRUE, !.ok = ok, !.got = Got(ok, has),
                                          !.total = n]
    <2>1. \A ok, has : Got(ok, has) \in Rows
      BY <1>a, EmptyRows DEF Rows
    <2>2. ASSUME NEW ok, NEW has, NEW n PROVE CallOK(d(ok, has, n))
      <3> HIDE DEF Got
      <3> QED BY <2>1, <1>c DEF CallOK
    <2>3. \E ok, has, n : calls' = (calls \ {c}) \cup {d(ok, has, n)}
      <3>1. PICK ok \in BOOLEAN, S \in SUBSET c.ids :
              LET all == In(server)
                  has == CASE c.op = "load"  -> Slice(all, c.page, c.size)
                           [] c.op = "all"   -> all
                           [] c.op = "fresh" -> S \cap all
              IN  calls' = (calls \ {c}) \cup {[c EXCEPT !.served = TRUE, !.ok = ok,
                    !.got = IF ok THEN [e \in Endpoints |-> IF e \in has THEN server[e] ELSE Gone]
                                  ELSE NoRows,
                    !.total = IF ok THEN Cardinality(all) ELSE 0]}
        BY <1>1, Zenon DEF ServeRead
      <3> QED BY <3>1, Zenon
    <2> HIDE DEF d
    <2>4. CallsOK'
      BY <2>2, <2>3, <1>a DEF CallsOK
    <2>5. UNCHANGED <<server, rows, cache>>
      BY <1>1 DEF ServeRead
    <2> QED BY <1>a, <1>b, <2>4, <2>5 DEF IInv, RowsOK
  <1>2. CASE ServeWrite(c)
    <2>1. PICK S \in SUBSET (IF c.op \in {"save", "delete"} THEN {c.id} ELSE c.ids),
               lost \in BOOLEAN :
            LET reported == IF lost THEN {} ELSE S \cap In(server)
                after    == Written(c, S)
            IN  /\ lost => S # {}
                /\ server' = after
                /\ calls' = Outdate(calls \ {c}, S) \cup
                     {[c EXCEPT !.served = TRUE, !.ok = (reported # {}),
                       !.did = IF c.op = "save" THEN @ ELSE reported,
                       !.got = IF c.op \in {"decommission", "undecommission"}
                               THEN [e \in Endpoints |-> IF e \in reported THEN after[e] ELSE Gone]
                               ELSE NoRows]}
                /\ rows' = OutdateRows(rows, IF lost THEN S ELSE {})
                /\ cache' = OutdateRows(cache, IF lost THEN S ELSE {})
      BY <1>2, Zenon DEF ServeWrite
    <2>2. Written(c, S) \in Rows
      <3>1. \A e \in Endpoints : Written(c, S)[e] \in Row \cup {Gone}
        BY <1>a, <1>c, <1>2, WrittenRow DEF ServeWrite
      <3> QED BY <3>1 DEF Written, Rows
    <2> DEFINE reported == IF lost THEN {} ELSE S \cap In(server)
               got == IF c.op \in {"decommission", "undecommission"}
                      THEN [e \in Endpoints |-> IF e \in reported THEN Written(c, S)[e] ELSE Gone]
                      ELSE NoRows
               did == IF c.op = "save" THEN c.did ELSE reported
               d == [c EXCEPT !.served = TRUE, !.ok = (reported # {}), !.did = did, !.got = got]
    <2>3. got \in Rows
      BY <2>2, EmptyRows DEF Rows
    <2>4. CallOK(d)
      <3> HIDE DEF got, did, reported
      <3> QED BY <2>3, <1>c DEF CallOK
    <2>5. calls' = Outdate(calls \ {c}, S) \cup {d}
      BY <2>1
    <2> HIDE DEF d
    <2>6. \A x \in Outdate(calls \ {c}, S) : CallOK(x)
      BY <1>a, OutdatedCalls DEF CallsOK
    <2>7. CallsOK'
      BY <2>4, <2>5, <2>6 DEF CallsOK
    <2>8. server' \in Rows /\ rows' \in Rows /\ cache' \in Rows
      BY <2>1, <2>2, <1>a, OutdatedRows
    <2> QED BY <1>b, <2>7, <2>8 DEF IInv, RowsOK
  <1> QED BY <1>1, <1>2

-----------------------------------------------------------------------------
(* Users, timers and events *)

\* an edit,
LEMMA Edited ==
    ASSUME TableOK, NEW S, NEW f \in {"text", "guest"}, NEW v \in BOOLEAN, Edit(S, f, v)
    PROVE  TableOK'
  <1>1. \A e \in S : e \in Endpoints /\ table[e] \in Values
    BY DEF Edit, TableOK, In, Shown
  <1>2. table' \in [Endpoints -> Shown]
    BY <1>1 DEF Edit, TableOK, Shown, Values
  <1>3. typed' \in [Endpoints -> {None, "yes", "no"}]
    BY DEF Edit, TableOK
  <1>4. TypedShows'
    <2> SUFFICES ASSUME NEW e \in Endpoints, table'[e] # Gone
                 PROVE  /\ typed'[e] = "yes" => table'[e].text = TRUE
                        /\ typed'[e] = "no" => table'[e].text = FALSE
      BY DEF TypedShows, In
    <2>1. CASE e \notin S
      BY <2>1 DEF Edit, TableOK, TypedShows, In
    <2>2. CASE e \in S /\ f = "text"
      <3>1. table'[e].text = v /\ typed'[e] = (IF v THEN "yes" ELSE "no")
        BY <2>2, <1>1 DEF Edit, Values, TableOK
      <3> QED BY <3>1
    <2>3. CASE e \in S /\ f = "guest"
      <3>1. table'[e].text = table[e].text /\ typed'[e] = typed[e] /\ table[e] # Gone
        BY <2>3, <1>1 DEF Edit, Values, TableOK, In
      <3> QED BY <3>1 DEF TableOK, TypedShows, In
    <2> QED BY <2>1, <2>2, <2>3
  <1> QED BY <1>2, <1>3, <1>4 DEF TableOK

\* an undo,
LEMMA Undone == ASSUME TableOK, RowsOK, Undo PROVE TableOK'
  <1> DEFINE S == dirty \cap In(rows) \cap In(table)
  <1>1. /\ table' = [e \in Endpoints |->
                      IF e \in S THEN [rows[e].vals EXCEPT !.active = table[e].active]
                      ELSE table[e]]
        /\ typed' = [e \in Endpoints |-> IF e \in S THEN None ELSE typed[e]]
    BY DEF Undo
  <1>2. \A e \in S : rows[e] \in Row /\ table[e] \in Values
    BY DEF RowsOK, Rows, In, TableOK, Shown
  <1> HIDE DEF S
  <1>3. table' \in [Endpoints -> Shown] /\ typed' \in [Endpoints -> {None, "yes", "no"}]
    <2>1. \A e \in S : [rows[e].vals EXCEPT !.active = table[e].active] \in Values
      BY <1>2 DEF Row, Values
    <2> QED BY <1>1, <2>1 DEF TableOK, Shown
  <1>4. TypedShows'
    BY <1>1 DEF TableOK, TypedShows, In, None
  <1> QED BY <1>3, <1>4 DEF TableOK

\* the first request of a save,
LEMMA SaveStarts ==
    ASSUME IInv, NEW ids, Save(ids)
    PROVE  CallsOK'
  <1> DEFINE todo == ids \cap In(table)
             d == [Ask("save", {x \in ids : x > First(todo)}) EXCEPT
                     !.id = First(todo), !.did = {}, !.sent = table[First(todo)]]
  <1>1. todo # {} => CallOK(d)
    <2> SUFFICES ASSUME todo # {} PROVE CallOK(d)
      OBVIOUS
    <2>1. First(todo) \in todo
      BY FirstIsIn DEF In
    <2>2. table[First(todo)] \in Values
      BY <2>1 DEF IInv, In, TableOK, Shown
    <2> HIDE DEF todo
    <2> QED BY <2>2, AskIsOK DEF Ops, Reads, Fields, CallOK
  <1>2. calls' \subseteq (calls \cup (IF todo # {} THEN {d} ELSE {}))
    BY DEF Save, SaveNext
  <1> HIDE DEF d, todo
  <1> QED BY <1>1, <1>2 DEF IInv, CallsOK

\* turning a page,
LEMMA Goes == ASSUME IInv, NEW p, NEW s, Goto(p, s) PROVE IInv'
  <1>1. CASE filterMode
    BY <1>1, Filtered DEF Goto, IInv, RowsOK, CallsOK
  <1>2. CASE ~filterMode
    BY <1>2, Loads DEF Goto, IInv, RowsOK
  <1> QED BY <1>1, <1>2

\* and every step.
LEMMA Steps == IInv /\ [Next]_vars => IInv'
  <1> SUFFICES ASSUME IInv, [Next]_vars PROVE IInv'
    OBVIOUS
  <1>a. TableOK /\ RowsOK /\ CallsOK /\ server \in Rows /\ rows \in Rows /\ cache \in Rows
    BY DEF IInv, RowsOK
  \* What most actions leave alone.
  <1>0. ASSUME TableOK', UNCHANGED <<server, rows, cache>>, CallsOK' PROVE IInv'
    BY <1>0, <1>a DEF IInv, RowsOK
  <1>1. CASE Serve
    BY <1>1, Served
  <1>2. CASE Handle
    BY <1>2, Handled
  <1>3. CASE Redraw
    BY <1>3, <1>a, <1>0, Filtered DEF Redraw, CallsOK
  <1>4. CASE FilterTimer
    <2>1. CASE needsFilterMode
      <3>1. enterFilterMode(rows, calls, "filter", total) /\ server' = server
        BY <1>4, <2>1 DEF FilterTimer
      <3> QED BY <3>1, <1>a, FilterModeEntered DEF IInv, RowsOK
    <2>2. CASE ~needsFilterMode /\ filterMode
      BY <1>4, <2>2, <1>a, Loads DEF FilterTimer, IInv, RowsOK
    <2>3. CASE ~needsFilterMode /\ ~filterMode
      BY <1>4, <2>3, <1>a, <1>0, Filtered DEF FilterTimer, CallsOK
    <2> QED BY <2>1, <2>2, <2>3
  <1>5. CASE ReloadTimer
    <2>1. CASE dirty = {}
      BY <1>5, <2>1, <1>a, Loads DEF ReloadTimer, IInv, RowsOK
    <2>2. CASE dirty # {}
      BY <1>5, <2>2, <1>a, <1>0, ScreenKept DEF ReloadTimer, list, CallsOK
    <2> QED BY <2>1, <2>2
  <1>6. ASSUME NEW e \in Endpoints, OtherWrite(e) PROVE IInv'
    <2>1. server' \in Rows
      <3>1. server[e] \in Row
        BY <1>6, <1>a DEF OtherWrite, Rows
      <3>2. /\ [server[e] EXCEPT !.vals.text = ~@] \in Row
            /\ [server[e] EXCEPT !.vals.active = ~@] \in Row
        BY <3>1 DEF Row, Values
      <3>3. \/ server' = [server EXCEPT ![e] = [server[e] EXCEPT !.vals.text = ~@]]
            \/ server' = [server EXCEPT ![e] = [server[e] EXCEPT !.vals.active = ~@]]
        BY <1>6, <1>a DEF OtherWrite, Rows
      <3> QED BY <3>2, <3>3, <1>a DEF Rows
    <2>2. rows' \in Rows /\ cache' \in Rows
      BY <1>6, <1>a, OutdatedRows DEF OtherWrite
    <2>3. CallsOK'
      BY <1>6, <1>a, OutdatedCalls DEF OtherWrite, CallsOK
    <2>4. TableOK'
      BY <1>6, <1>a, ScreenKept DEF OtherWrite
    <2> QED BY <2>1, <2>2, <2>3, <2>4 DEF IInv, RowsOK
  <1>7. ASSUME NEW S, NEW f \in {"text", "guest"}, NEW v \in BOOLEAN, Edit(S, f, v) PROVE IInv'
    BY <1>7, <1>a, <1>0, Edited DEF Edit, list, CallsOK
  <1>8. ASSUME NEW e \in Endpoints, EditRow(e) PROVE IInv'
    <2>1. PICK f \in {"text", "guest"} : table[e] # Gone /\ Edit({e}, f, ~table[e][f])
      BY <1>8 DEF EditRow
    <2>2. table[e] \in Values
      BY <2>1, <1>a DEF TableOK, Shown
    <2>3. (~table[e][f]) \in BOOLEAN
      BY <2>2 DEF Values
    <2> QED BY <2>1, <2>3, <1>7
  <1>9. ASSUME NEW e \in Endpoints, Tick(e) PROVE IInv'
    BY <1>9, <1>a, <1>0 DEF Tick, list, TableOK, TypedShows, In, CallsOK
  <1>10. CASE BulkEdit
    BY <1>10, <1>7 DEF BulkEdit
  <1>11. CASE Undo
    BY <1>11, <1>a, <1>0, Undone DEF Undo, list, CallsOK
  <1>12. ASSUME NEW ids, Save(ids) PROVE IInv'
    BY <1>12, <1>a, <1>0, SaveStarts, ScreenKept DEF Save, list
  <1>13. ASSUME NEW o \in Ops, Bulk(o) PROVE IInv'
    <2> DEFINE d == [Ask(o, checked \ {First(checked)}) EXCEPT !.id = First(checked)]
    <2>1. CallOK(d) /\ CallOK(Ask(o, checked))
      BY AskIsOK DEF Ops, Reads, Fields, CallOK
    <2>2. calls' \subseteq calls \cup {d, Ask(o, checked)}
      BY <1>13 DEF Bulk
    <2> HIDE DEF d
    <2>3. CallsOK'
      BY <2>1, <2>2, <1>a DEF CallsOK
    <2> QED BY <1>13, <2>3, <1>a, <1>0, ScreenKept DEF Bulk, list
  <1>14. CASE PagePrev \/ PageNext \/ PageSize
    BY <1>14, Goes DEF PagePrev, PageNext, PageSize
  <1>15. CASE Refresh
    BY <1>15, <1>a, Loads DEF Refresh, IInv, RowsOK
  <1>16. ASSUME NEW S, FilterInput(S) PROVE IInv'
    BY <1>16, <1>a, <1>0, ScreenKept DEF FilterInput, list, CallsOK
  <1>17. CASE FilterClear
    <2>1. CASE filterMode
      BY <1>17, <2>1, <1>a, Loads DEF FilterClear, IInv, RowsOK
    <2>2. CASE ~filterMode
      BY <1>17, <2>2, <1>a, Filtered, EmptyRows DEF FilterClear, IInv, RowsOK, CallsOK
    <2> QED BY <2>1, <2>2
  <1>18. CASE Export
    <2> DEFINE d == [Ask("all", {}) EXCEPT !.then = "export"]
    <2>1. CallOK(d)
      BY AskIsOK DEF Ops, Reads, Fields, CallOK
    <2>2. calls' = calls \cup {d}
      BY <1>18 DEF Export
    <2> HIDE DEF d
    <2>3. CallsOK'
      BY <2>1, <2>2, <1>a DEF CallsOK
    <2> QED BY <1>18, <2>3, <1>a, <1>0, ScreenKept DEF Export, list
  <1>19. CASE EndpointEvent
    BY <1>19, <1>a, <1>0, ScreenKept DEF EndpointEvent, list, CallsOK
  <1>20. CASE DecommChip
    BY <1>20, <1>a, <1>0, ScreenKept DEF DecommChip, CallsOK
  <1>21. CASE UNCHANGED vars
    BY <1>21, <1>a, <1>0, ScreenKept DEF vars, screen, CallsOK
  <1> QED
    BY <1>1, <1>2, <1>3, <1>4, <1>5, <1>6, <1>8, <1>9, <1>10, <1>11, <1>12, <1>13, <1>14,
       <1>15, <1>16, <1>17, <1>18, <1>19, <1>20, <1>21 DEF Next

-----------------------------------------------------------------------------

\* At the start nothing was typed.
LEMMA Starts == Init => IInv
  <1> SUFFICES ASSUME Init PROVE IInv
    OBVIOUS
  <1>1. server \in Rows
    <2>1. \A a, d \in BOOLEAN : [vals |-> [Blank EXCEPT !.active = a], decomm |-> d,
                                 old |-> FALSE, switched |-> FALSE] \in Row
      BY DEF Row, Blank, Values
    <2> QED BY <2>1 DEF Init, Rows
  <1>2. CallsOK
    BY AskIsOK DEF Ops, Reads, Fields, Init, CallsOK
  <1>3. TableOK
    BY DEF Init, TableOK, TypedShows, In, Shown
  <1> QED BY <1>1, <1>2, <1>3, EmptyRows DEF Init, IInv, RowsOK

\* Text typed into a row stays there as long as the row is on screen and marked
\* as unsaved (browse-table.js: renderRows, runSaveLoop, load), whatever events,
\* lookups, saves and answers draw the rows anew.
THEOREM TypedTextStays == Spec => []EditsSurvive
  <1>1. IInv => EditsSurvive
    <2> SUFFICES ASSUME IInv, NEW e \in dirty \cap In(table), typed[e] # None
                 PROVE  table[e].text = (typed[e] = "yes")
      BY DEF EditsSurvive
    <2>1. e \in Endpoints /\ typed[e] \in {"yes", "no"}
      BY DEF IInv, TableOK, In
    <2>2. CASE typed[e] = "yes"
      <3>1. table[e].text = TRUE
        BY <2>2 DEF IInv, TableOK, TypedShows
      <3> QED BY <3>1, <2>2
    <2>3. CASE typed[e] = "no"
      <3>1. table[e].text = FALSE
        BY <2>3 DEF IInv, TableOK, TypedShows
      <3>2. (typed[e] = "yes") = FALSE
        BY <2>3
      <3> QED BY <3>1, <3>2
    <2> QED BY <2>1, <2>2, <2>3
  <1>2. Spec => []IInv
    BY Starts, Steps, PTL DEF Spec
  <1> QED BY <1>1, <1>2, PTL

-----------------------------------------------------------------------------
(* A table that tells the truth                                            *)
(*                                                                         *)
(* TableTellsTruth and FilterFindsAll speak of the moment when everything  *)
(* is answered.  What holds at every moment, and gives them then, is that  *)
(* every difference has somebody on the way who will remove it:            *)
(*   - between the backend and a row in memory that is not old: an answer  *)
(*     that tells of it, the read after a save, or a load (MemoryOK);      *)
(*     but what a change of status writes beside the status is told by no  *)
(*     answer, and the row remembers only that there was one (Agrees);     *)
(*   - between a row in memory and on screen: the read after a save, or    *)
(*     something that draws the rows anew (ScreenOK, FilterOK);            *)
(*   - between the list and all there is: the full list, which is asked    *)
(*     for at most once, or a filter still to come (ListOK, AnswersOK).    *)
(* An answer is taken out of the requests only by a step that does what it *)
(* tells, or leaves another one that tells the same (GoesOn).              *)

\* A load, or a bulk deletion, is out: either ends with rows drawn anew.
Reloading == \E c \in calls : c.op = "load"
Deletion == \E c \in calls : c.op = "delete"

\* The answers, out or to come, that will tell the table of a change of e: of its
\* values, of its status, of its end.
Saves(c, e) ==
    \/ c.op = "save" /\ (e \in c.did \/ (c.served /\ c.ok /\ c.id = e))
    \/ c.op = "fresh" /\ e \in c.ids
    \/ c.op = "template" /\ c.served /\ e \in c.did
Switches(c, e) == c.op \in {"decommission", "undecommission"} /\ c.served /\ e \in c.did
Deletes(c, e) == c.op = "delete" /\ c.served /\ c.ok /\ c.id = e
Saving(e) == \E c \in calls : Saves(c, e)
Switching(e) == \E c \in calls : Switches(c, e)
Deleting(e) == \E c \in calls : Deletes(c, e)

\* A row that is not old is what the backend holds, but for what is on its way; and
\* but for what a change of its status wrote into the backend alone, which the row
\* is not told (Agrees): then the active attribute follows the status (Settled).
RowTrue(x, e, w) ==
    x # Gone /\ ~x.old =>
      /\ server[e] # Gone \/ Deleting(e)
      /\ server[e] # Gone => /\ \/ x.vals = server[e].vals
                                \/ Agrees(x.vals, server[e].vals) /\ (x.switched \/ Switching(e))
                                \/ Saving(e)
                                \/ w
                             /\ x.decomm = server[e].decomm \/ Switching(e)
                             /\ x.switched => Settled(server[e])
MemoryOK ==
    /\ \A e \in In(server) : ~server[e].old /\ ~server[e].switched
    /\ \A e \in Endpoints : RowTrue(rows[e], e, Reloading) /\ RowTrue(cache[e], e, FALSE)

\* The full list is asked for once.
Full(c) == c.op = "all" /\ c.then # "export"
OneFull == \A c, d \in calls : Full(c) /\ Full(d) => loadingAll /\ c = d

\* All there is has a row.
Complete(r) == \A e \in In(server) : r[e] # Gone

\* What an answer brings is as the backend has it now, unless it is marked as old;
\* and what it reports was done.
AnswerOK(c) ==
    /\ \A e \in In(c.got) : c.served /\ (c.got[e].old \/ c.got[e] = server[e])
    /\ c.served /\ c.op \in {"decommission", "undecommission"} =>
         \A e \in c.did : /\ e \in In(c.got) /\ c.got[e].decomm = (c.op = "decommission")
                          /\ c.got[e].old \/ Settled(server[e])
    /\ c.served /\ c.op = "delete" /\ c.ok => c.id \in Endpoints \ In(server)
    /\ c.served /\ c.op = "all" /\ c.ok => Complete(c.got)
AnswersOK == OneFull /\ \A c \in calls : AnswerOK(c)

\* What is on screen are rows of the list, unless they are about to be drawn.
RowShown(e) ==
    /\ rows[e] # Gone /\ (filterMode \/ ~rows[e].decomm)
    /\ \/ rows[e].old
       \/ Saving(e)
       \/ /\ table[e].active = rows[e].vals.active
          /\ e \notin dirty => table[e] = rows[e].vals
ScreenOK == macs \/ Reloading \/ Deletion \/ \A e \in In(table) : RowShown(e)

\* What is kept as the full list is complete; filter mode has it, and shows it or will.
ListOK ==
    /\ cached => Complete(cache)
    /\ filterMode => cached /\ ~loadingAll /\ (Complete(rows) \/ debounce \/ ~needsFilterMode)

\* In filter mode the page shows the rows that pass, unless it is about to be drawn.
FilterOK ==
    filterMode /\ ~failed =>
      macs \/ debounce \/ Deletion \/ In(table) = Slice(applyFiltersToRows(rows), page, size)

\* What holds at every moment.
TruthInv == AnswersOK /\ MemoryOK /\ ListOK /\ ScreenOK /\ FilterOK

-----------------------------------------------------------------------------

\* New requests that bring nothing yet.
LEMMA AskedCall ==
    ASSUME NEW o \in Ops, NEW ids
    PROVE  LET d == Ask(o, ids) IN
           /\ DOMAIN d = Fields /\ d.op = o /\ d.ids = ids /\ ~d.served /\ In(d.got) = {}
           /\ d.did = {} /\ d.then = "load" /\ d.got = NoRows
  BY DEF Ask, Fields, In, NoRows

\* Requests come and go, the backend and the list flag stay.
LEMMA AnswersStay ==
    ASSUME AnswersOK, UNCHANGED <<server, loadingAll>>,
           \A c \in calls' : c \in calls \/ (~c.served /\ In(c.got) = {} /\ ~Full(c))
    PROVE  AnswersOK'
  <1>1. OneFull'
    BY DEF AnswersOK, OneFull
  <1>2. ASSUME NEW c \in calls' PROVE AnswerOK(c)'
    <2>1. c \in calls => AnswerOK(c)
      BY DEF AnswersOK
    <2> QED BY <2>1 DEF AnswerOK, Complete, In
  <1> QED BY <1>1, <1>2 DEF AnswersOK

\* An answer taken out of the requests, with nothing more to tell of e, or with
\* a request that goes on telling it.
GoesOn(c, e) ==
    /\ Saves(c, e) => Saving(e)'
    /\ Switches(c, e) => Switching(e)'
    /\ Deletes(c, e) => Deleting(e)'

\* Every row stays, or is one that is right by itself.
LEMMA MemoryStays ==
    ASSUME MemoryOK, server' = server, NEW c, calls \ {c} \subseteq calls',
           \A e \in Endpoints :
             \/ rows'[e] = Gone \/ rows'[e].old \/ rows'[e] = server[e]
             \/ /\ GoesOn(c, e)
                /\ rows'[e] = cache[e] \/ (rows'[e] = rows[e] /\ (c.op = "load" => Reloading'))
             \/ c.op = "template" /\ Reloading' /\ rows'[e] = rows[e],
           \A e \in Endpoints :
             \/ cache'[e] = Gone \/ cache'[e].old \/ cache'[e] = server[e]
             \/ GoesOn(c, e) /\ cache'[e] = cache[e]
    PROVE  MemoryOK'
  <1>1. ASSUME NEW e, GoesOn(c, e)
        PROVE  /\ Saving(e) => Saving(e)'
               /\ Switching(e) => Switching(e)'
               /\ Deleting(e) => Deleting(e)'
    BY <1>1 DEF GoesOn, Saving, Switching, Deleting
  <1>2. c.op = "load" \/ (Reloading => Reloading')
    BY DEF Reloading
  <1>3. ASSUME NEW e \in Endpoints PROVE RowTrue(rows[e], e, Reloading)'
    <2>1. CASE rows'[e] = Gone \/ rows'[e].old \/ rows'[e] = server[e]
      BY <2>1 DEF RowTrue, MemoryOK, In
    <2>2. CASE GoesOn(c, e) /\ rows'[e] = cache[e]
      BY <1>1, <2>2 DEF MemoryOK, RowTrue
    <2>3. CASE GoesOn(c, e) /\ rows'[e] = rows[e] /\ (c.op = "load" => Reloading')
      BY <1>1, <1>2, <2>3 DEF MemoryOK, RowTrue
    <2>4. CASE c.op = "template" /\ Reloading' /\ rows'[e] = rows[e]
      <3>1. (Switching(e) => Switching(e)') /\ (Deleting(e) => Deleting(e)')
        BY <2>4 DEF Switching, Deleting, Switches, Deletes
      <3> QED BY <2>4, <3>1 DEF MemoryOK, RowTrue
    <2> QED BY <2>1, <2>2, <2>3, <2>4
  <1>4. ASSUME NEW e \in Endpoints PROVE RowTrue(cache[e], e, FALSE)'
    <2>1. CASE cache'[e] = Gone \/ cache'[e].old \/ cache'[e] = server[e]
      BY <2>1 DEF RowTrue, MemoryOK, In
    <2>2. CASE GoesOn(c, e) /\ cache'[e] = cache[e]
      BY <1>1, <2>2 DEF MemoryOK, RowTrue
    <2> QED BY <2>1, <2>2
  <1>5. (\A e \in In(server) : ~server[e].old /\ ~server[e].switched)'
    BY DEF MemoryOK, In
  <1> QED BY <1>3, <1>4, <1>5 DEF MemoryOK, RowTrue

-----------------------------------------------------------------------------
(* The screen *)

\* Rows drawn from the list show it.
LEMMA DrawnShows ==
    ASSUME TableOK, rows' \in Rows, NEW S, S \subseteq In(rows'), renderRows(S),
           filterMode' \/ S \subseteq Visible(rows')
    PROVE  In(table') = S /\ ScreenOK' /\ ~failed'
  <1>1. \A e \in S : e \in Endpoints /\ rows'[e] \in Row /\ (filterMode' \/ ~rows'[e].decomm)
    BY DEF Visible, In, Rows
  <1>2. ASSUME NEW e \in S
        PROVE  /\ table'[e] # Gone /\ table'[e].active = rows'[e].vals.active
               /\ e \notin dirty' => table'[e] = rows'[e].vals
    <2>1. rows'[e].vals \in Values /\ rows'[e].vals # Gone
      BY <1>1, RowFields
    <2>2. CASE e \in dirty' /\ table[e] # Gone
      <3>1. table[e].text \in BOOLEAN
        BY <1>1, <2>2 DEF TableOK, Shown, Values
      <3>2. [rows'[e].vals EXCEPT !.text = table[e].text] \in Values
        BY <2>1, <3>1 DEF Values
      <3> QED BY <1>1, <2>2, <3>2, TableAssumption DEF renderRows, Values
    <2>3. CASE ~(e \in dirty' /\ table[e] # Gone)
      BY <1>1, <2>1, <2>3 DEF renderRows
    <2> QED BY <2>2, <2>3
  <1>3. \A e \in Endpoints \ S : table'[e] = Gone
    BY DEF renderRows
  <1>4. In(table') = S
    BY <1>1, <1>2, <1>3 DEF In
  <1>5. ASSUME NEW e \in In(table') PROVE RowShown(e)'
    <2>1. /\ e \in S /\ rows'[e] # Gone /\ (filterMode' \/ ~rows'[e].decomm)
          /\ table'[e].active = rows'[e].vals.active
          /\ e \notin dirty' => table'[e] = rows'[e].vals
      BY <1>1, <1>2, <1>4, <1>5, RowFields
    <2> QED BY <2>1 DEF RowShown
  <1>6. ScreenOK'
    <2>1. \A e \in In(table)' : RowShown(e)'
      BY <1>5 DEF In
    <2> QED BY <2>1 DEF ScreenOK
  <1> QED BY <1>4, <1>6 DEF renderRows

\* So does applyFilter, and pages what passes,
LEMMA FilteredShows ==
    ASSUME TableOK, rows' \in Rows, NEW p, NEW n, applyFilter(p, n),
           filter' = filter \/ ~filterMode'
    PROVE  ScreenOK' /\ FilterOK'
  <1>1. CASE filterMode'
    <2>1. PICK q : page' = q /\ renderRows(Slice(applyFiltersToRows(rows'), q, size'))
      BY <1>1 DEF applyFilter
    <2>2. Slice(applyFiltersToRows(rows'), q, size') \subseteq In(rows')
      BY DEF Slice, applyFiltersToRows
    <2>3. ScreenOK' /\ In(table') = Slice(applyFiltersToRows(rows'), q, size')
      BY <1>1, <2>1, <2>2, DrawnShows
    <2>4. applyFiltersToRows(rows)' = applyFiltersToRows(rows')
      BY <1>1 DEF applyFiltersToRows, In
    <2> DEFINE A == applyFiltersToRows(rows)
    <2> HIDE DEF A
    <2>5. Slice(A, page, size)' = Slice(A', page', size')
      BY DEF Slice
    <2>6. In(table)' = Slice(A, page, size)'
      BY <2>1, <2>3, <2>4, <2>5 DEF In, A
    <2> QED BY <2>3, <2>6 DEF FilterOK, A
  <1>2. CASE ~filterMode'
    <2>1. renderRows(Visible(rows')) /\ Visible(rows') \subseteq In(rows')
      BY <1>2 DEF applyFilter, Visible
    <2> QED BY <1>2, <2>1, DrawnShows DEF FilterOK
  <1> QED BY <1>1, <1>2

\* and an empty table shows nothing wrong,
LEMMA ClearedShows ==
    ASSUME NEW error, ClearTable(error), ~filterMode' \/ error
    PROVE  ScreenOK' /\ FilterOK'
  <1>1. In(table)' = {}
    BY DEF ClearTable, In
  <1> QED BY <1>1 DEF ScreenOK, FilterOK, ClearTable

\* or something will draw the rows anew.
LEMMA DueShows ==
    ASSUME macs' \/ Deletion'
    PROVE  ScreenOK' /\ FilterOK'
  BY DEF ScreenOK, FilterOK

\* The rows of the list are the ones they were, though some may be old now.
SameRows ==
    \A e \in Endpoints :
      \/ rows'[e] = Gone /\ rows[e] = Gone
      \/ /\ rows'[e] # Gone /\ rows[e] # Gone
         /\ rows'[e].vals = rows[e].vals /\ rows'[e].decomm = rows[e].decomm
         /\ rows[e].old => rows'[e].old

\* The same rows pass the filter then.
LEMMA SamePass ==
    ASSUME SameRows, filter' = filter
    PROVE  applyFiltersToRows(rows)' = applyFiltersToRows(rows)
  <1>1. \A e \in Endpoints : (rows'[e] # Gone <=> rows[e] # Gone)
                             /\ (rows[e] # Gone => rows'[e].decomm = rows[e].decomm)
    BY DEF SameRows
  <1> QED BY <1>1 DEF applyFiltersToRows, In

\* An answer or an action that leaves the rows on screen as they are.
LEMMA ScreenStays ==
    ASSUME ScreenOK, SameRows, In(table') = In(table), macs => macs',
           NEW c, calls \ {c} \subseteq calls',
           c.op = "load" => Reloading', c.op = "delete" => Deletion',
           \A e \in Endpoints : Saves(c, e) => Saving(e)' \/ rows'[e].old \/ rows'[e] = Gone,
           filterMode => filterMode',
           \A e \in In(table) :
             /\ table'[e] = table[e]
             /\ e \notin dirty' => e \notin dirty \/ Saving(e)'
    PROVE  ScreenOK'
  <1>1. (Reloading => Reloading') /\ (Deletion => Deletion')
    BY DEF Reloading, Deletion
  <1>2. \A e \in Endpoints : Saving(e) => Saving(e)' \/ rows'[e].old \/ rows'[e] = Gone
    BY DEF Saving
  <1>3. ASSUME NEW e \in In(table), RowShown(e) PROVE RowShown(e)'
    BY <1>2, <1>3 DEF RowShown, SameRows, In
  <1>4. In(table)' = In(table)
    BY DEF In
  <1> QED BY <1>1, <1>3, <1>4 DEF ScreenOK

\* The page stays what it was.
LEMMA FilterStays ==
    ASSUME FilterOK, SameRows, In(table') = In(table), UNCHANGED <<filter, page, size, failed>>,
           filterMode' => filterMode, macs => macs', debounce => debounce',
           Deletion => Deletion'
    PROVE  FilterOK'
  <1>1. applyFiltersToRows(rows)' = applyFiltersToRows(rows)
    BY SamePass
  <1>2. Slice(applyFiltersToRows(rows), page, size)' = Slice(applyFiltersToRows(rows), page, size)
    <2> DEFINE A == applyFiltersToRows(rows)
    <2>1. A' = A
      BY <1>1
    <2> HIDE DEF A
    <2>2. Slice(A, page, size)' = Slice(A', page', size')
      BY DEF Slice
    <2>3. page' = page /\ size' = size
      OBVIOUS
    <2>4. Slice(A, page, size)' = Slice(A, page, size)
      BY <2>1, <2>2, <2>3
    <2> QED BY <2>4 DEF A
  <1>3. In(table)' = In(table)
    BY DEF In
  <1> QED BY <1>2, <1>3 DEF FilterOK

-----------------------------------------------------------------------------
(* Answers *)

\* Nobody waits for a full list but the one who asked for it.
LEMMA NoFull == ASSUME AnswersOK, ~loadingAll PROVE \A c \in calls : ~Full(c)
  BY DEF AnswersOK, OneFull

\* What an answer brings is right by itself.
LEMMA Brought ==
    ASSUME AnswersOK, NEW c \in calls
    PROVE  \A e \in Endpoints : c.got[e] = Gone \/ c.got[e].old \/ c.got[e] = server[e]
  BY DEF AnswersOK, AnswerOK, In

\* Loads and lists tell of no endpoint by themselves.
LEMMA TellsNothing ==
    ASSUME NEW c, c.op \in {"load", "all", "none"}
    PROVE  \A e : GoesOn(c, e) /\ ~Saves(c, e)
  BY DEF GoesOn, Saves, Switches, Deletes

\* An empty list has no rows.
LEMMA EmptyComplete == \A e \in Endpoints : NoRows[e] = Gone
  BY DEF NoRows

\* enterFilterMode asks for the full list and shows nothing, or has it and shows it.
LEMMA Entered ==
    ASSUME IInv, TruthInv, UNCHANGED <<server, filter>>, NEW r, NEW C, NEW then \in {"load", "filter"},
           NEW n, enterFilterMode(r, C, then, n), NEW c, C \subseteq calls, calls \ {c} \subseteq C,
           c.op \in {"load", "none"},
           \A e \in Endpoints : \/ r[e] = Gone \/ r[e].old \/ r[e] = server[e]
                                \/ r[e] = rows[e] /\ c.op = "none"
    PROVE  TruthInv'
  <1> DEFINE d == [Ask("all", {}) EXCEPT !.then = then]
  <1>a. d.op = "all" /\ d.then = then /\ ~d.served /\ In(d.got) = {}
    BY AskedCall DEF Ops, Reads, Fields
  <1>b. AnswersOK /\ MemoryOK /\ ListOK /\ \A e : GoesOn(c, e)
    BY TellsNothing DEF TruthInv
  <1>1. CASE /\ ~loadingAll /\ ~cached /\ loadingAll' = TRUE /\ calls' = C \cup {d} /\ rows' = r
             /\ ClearTable(FALSE) /\ UNCHANGED <<cache, cached, filterMode>>
    <2> HIDE DEF d
    <2>1. AnswersOK'
      <3>1. OneFull'
        BY <1>a, <1>b, <1>1, NoFull DEF OneFull
      <3>2. ASSUME NEW x \in calls' PROVE AnswerOK(x)'
        <4>1. x \in calls => AnswerOK(x)
          BY <1>b DEF AnswersOK
        <4> QED BY <1>a, <1>1, <3>2, <4>1 DEF AnswerOK, Complete, In
      <3> QED BY <3>1, <3>2 DEF AnswersOK
    <2>2. MemoryOK'
      BY <1>b, <1>1, MemoryStays
    <2>3. ~filterMode'
      BY <1>b, <1>1 DEF ListOK
    <2>4. ListOK'
      BY <1>1, <2>3 DEF ListOK
    <2> QED BY <1>1, <2>1, <2>2, <2>3, <2>4, ClearedShows DEF TruthInv
  <1>2. CASE /\ loadingAll \/ cached
             /\ calls' = C /\ macs' = TRUE /\ rows' = (IF loadingAll THEN r ELSE cache)
             /\ filterMode' = (IF loadingAll THEN filterMode ELSE TRUE)
             /\ UNCHANGED <<cache, cached, loadingAll>>
    <2>1. AnswersOK'
      BY <1>b, <1>2, AnswersStay
    <2>2. MemoryOK'
      BY <1>b, <1>2, MemoryStays
    <2>3. ListOK'
      BY <1>b, <1>2 DEF ListOK, Complete, In
    <2> QED BY <1>2, <2>1, <2>2, <2>3, DueShows DEF TruthInv
  <1> QED BY <1>1, <1>2 DEF enterFilterMode

\* A page of the list, or its failure (LoadDone, LoadFails).
LEMMA LoadTold ==
    ASSUME IInv, TruthInv, NEW c \in calls, LoadDone(c) \/ LoadFails(c),
           UNCHANGED <<server, filter, debounce>>
    PROVE  TruthInv'
  <1>0. c.op = "load"
    BY DEF LoadDone, LoadFails
  <1>a. AnswersOK /\ MemoryOK /\ ListOK /\ c.op = "load" /\ \A e : GoesOn(c, e)
    BY <1>0, TellsNothing DEF TruthInv
  <1>1. CASE LoadDone(c) /\ needsFilterMode
    <2>1. enterFilterMode(c.got, calls \ {c}, "load", c.total)
      BY <1>1 DEF LoadDone
    <2>2. \A e \in Endpoints : c.got[e] = Gone \/ c.got[e].old \/ c.got[e] = server[e]
      BY <1>a, Brought
    <2> QED BY <1>a, <2>1, <2>2, Entered
  <1>2. CASE LoadDone(c) /\ ~needsFilterMode
    <2>1. /\ calls' = calls \ {c} /\ rows' = c.got /\ macs' = TRUE
          /\ UNCHANGED <<cache, cached, filterMode, loadingAll>>
      BY <1>2 DEF LoadDone
    <2>2. AnswersOK'
      BY <1>a, <2>1, AnswersStay
    <2>3. MemoryOK'
      BY <1>a, <2>1, Brought, MemoryStays
    <2>4. ListOK'
      BY <1>a, <1>2, <2>1 DEF ListOK, Complete, In, needsFilterMode
    <2> QED BY <2>1, <2>2, <2>3, <2>4, DueShows DEF TruthInv
  <1>3. CASE LoadFails(c)
    <2>1. /\ calls' = calls \ {c} /\ ClearTable(TRUE) /\ rows' = OutdateRows(rows, Endpoints)
          /\ UNCHANGED <<cache, cached, filterMode, loadingAll>>
      BY <1>3 DEF LoadFails
    <2>2. AnswersOK'
      BY <1>a, <2>1, AnswersStay
    <2>3. \A e \in Endpoints : \/ rows[e] = Gone /\ rows'[e] = Gone
                               \/ rows'[e].old /\ rows'[e] # Gone /\ rows[e] # Gone
      <3>1. rows \in Rows /\ rows' \in Rows
        BY <2>1, OutdatedRows DEF IInv, RowsOK
      <3> QED BY <2>1, <3>1, RowFields DEF OutdateRows, Rows, Row
    <2>4. MemoryOK'
      BY <1>a, <2>1, <2>3, MemoryStays
    <2>5. ListOK'
      BY <1>a, <2>1, <2>3 DEF ListOK, Complete, In, needsFilterMode
    <2> QED BY <2>1, <2>2, <2>4, <2>5, ClearedShows DEF TruthInv
  <1> QED BY <1>1, <1>2, <1>3

\* The full list, or its failure (AllDone, AllFails).
LEMMA AllTold ==
    ASSUME IInv, TruthInv, NEW c \in calls, c.served, AllDone(c) \/ AllFails(c),
           UNCHANGED <<server, filter, debounce>>
    PROVE  TruthInv'
  <1>a. /\ AnswersOK /\ MemoryOK /\ ListOK /\ c.op = "all" /\ \A e : GoesOn(c, e)
        /\ Full(c) /\ calls' = calls \ {c} /\ loadingAll' = FALSE /\ macs' = TRUE
    BY TellsNothing DEF TruthInv, AllDone, AllFails, Full
  <1>b. loadingAll /\ \A x \in calls' : x \in calls /\ ~Full(x)
    BY <1>a DEF AnswersOK, OneFull
  <1>1. AnswersOK'
    <2>1. ASSUME NEW x \in calls' PROVE AnswerOK(x)'
      BY <1>a, <1>b DEF AnswersOK, AnswerOK, Complete, In
    <2> QED BY <1>b, <2>1 DEF AnswersOK, OneFull
  <1>2. MemoryOK' /\ ListOK'
    <2>1. CASE AllDone(c)
      <3>1. rows' = c.got /\ cache' = c.got /\ cached' = TRUE /\ c.ok
        BY <2>1 DEF AllDone
      <3>2. Complete(c.got)
        BY <1>a, <3>1 DEF AnswersOK, AnswerOK
      <3>3. MemoryOK'
        BY <1>a, <3>1, Brought, MemoryStays
      <3>4. ListOK'
        BY <1>a, <3>1, <3>2 DEF ListOK, Complete, In
      <3> QED BY <3>3, <3>4
    <2>2. CASE AllFails(c)
      <3>1. UNCHANGED <<rows, cache, cached, filterMode>>
        BY <2>2 DEF AllFails
      <3>2. MemoryOK'
        BY <1>a, <3>1, MemoryStays
      <3>3. ListOK'
        BY <1>a, <1>b, <3>1 DEF ListOK, Complete, In
      <3> QED BY <3>2, <3>3
    <2> QED BY <2>1, <2>2
  <1> QED BY <1>a, <1>1, <1>2, DueShows DEF TruthInv

\* The list an export asked for is kept for the filter (ExportDone).
LEMMA ExportTold ==
    ASSUME IInv, TruthInv, NEW c \in calls, c.served, ExportDone(c),
           UNCHANGED <<server, filter, size, debounce>>
    PROVE  TruthInv'
  <1>a. /\ AnswersOK /\ MemoryOK /\ ListOK /\ c.op = "all" /\ \A e : GoesOn(c, e) /\ ~Saves(c, e)
        /\ calls' = calls \ {c} /\ UNCHANGED <<table, failed, dirty, rows, filterMode, loadingAll, page, macs>>
        /\ cached' = (cached \/ c.ok) /\ cache' = IF c.ok THEN c.got ELSE cache
    BY TellsNothing DEF TruthInv, ExportDone, screen
  <1>1. AnswersOK'
    BY <1>a, AnswersStay
  <1>2. MemoryOK'
    BY <1>a, Brought, MemoryStays
  <1>3. ListOK'
    <2>1. c.ok => Complete(c.got)
      BY <1>a DEF AnswersOK, AnswerOK
    <2> QED BY <1>a, <2>1 DEF ListOK, Complete, In, needsFilterMode
  <1>4. SameRows /\ In(table') = In(table)
    BY <1>a DEF SameRows, In
  <1>5. ScreenOK'
    BY <1>a, <1>4, ScreenStays DEF TruthInv
  <1>6. FilterOK'
    BY <1>a, <1>4, FilterStays DEF TruthInv, Deletion
  <1> QED BY <1>1, <1>2, <1>3, <1>5, <1>6 DEF TruthInv

\* The endpoints of a list are there or not, and complete, as before.
LEMMA ListStays ==
    ASSUME ListOK, In(server') \subseteq In(server), UNCHANGED <<cached, filterMode, loadingAll>>,
           In(cache) \cap In(server') \subseteq In(cache'), In(rows) \cap In(server') \subseteq In(rows'),
           UNCHANGED filter, debounce => debounce'
    PROVE  ListOK'
  <1>1. ASSUME Complete(cache) PROVE Complete(cache)'
    BY <1>1 DEF Complete, In
  <1>2. ASSUME Complete(rows) PROVE Complete(rows)'
    BY <1>2 DEF Complete, In
  <1> QED BY <1>1, <1>2 DEF ListOK, needsFilterMode

\* The rows read after a save: those that could not be read are old (FreshDone).
LEMMA FreshTold ==
    ASSUME IInv, TruthInv, NEW c \in calls, FreshDone(c), rows' \in Rows,
           UNCHANGED <<server, filter, size, debounce>>
    PROVE  TruthInv'
  <1> DEFINE upd(r) == [e \in Endpoints |->
               IF r[e] = Gone \/ e \notin c.ids THEN r[e]
               ELSE IF c.got[e] # Gone THEN c.got[e] ELSE [r[e] EXCEPT !.old = TRUE]]
  <1>a. /\ AnswersOK /\ MemoryOK /\ ListOK /\ c.op = "fresh"
        /\ calls' = calls \ {c} /\ rows' = upd(rows) /\ cache' = upd(cache)
        /\ dirty' = dirty \ In(c.got) /\ UNCHANGED <<cached, filterMode, loadingAll, macs>>
    BY DEF TruthInv, FreshDone
  <1>b. /\ rows \in Rows /\ cache \in Rows /\ c.got \in Rows /\ TableOK
    BY DEF IInv, RowsOK, CallsOK, CallOK
  <1>1. ASSUME NEW r \in Rows, NEW e \in Endpoints
        PROVE  /\ r[e] = Gone => upd(r)[e] = Gone
               /\ r[e] # Gone => upd(r)[e] # Gone
               /\ e \notin c.ids => upd(r)[e] = r[e]
               /\ e \in c.ids => upd(r)[e] = Gone \/ upd(r)[e] = c.got[e] \/ upd(r)[e].old
               /\ c.got[e] = Gone /\ r[e] # Gone =>
                    /\ upd(r)[e].vals = r[e].vals /\ upd(r)[e].decomm = r[e].decomm
                    /\ r[e].old => upd(r)[e].old
    <2>1. r[e] = Gone \/ r[e] \in Row
      BY DEF Rows
    <2>2. ASSUME NEW x \in Row
          PROVE  LET y == [x EXCEPT !.old = TRUE] IN
                 y \in Row /\ y.old /\ y.vals = x.vals /\ y.decomm = x.decomm
      BY DEF Row
    <2>3. upd(r)[e] = IF r[e] = Gone \/ e \notin c.ids THEN r[e]
                      ELSE IF c.got[e] # Gone THEN c.got[e] ELSE [r[e] EXCEPT !.old = TRUE]
      OBVIOUS
    <2> HIDE DEF upd
    <2> QED BY <2>1, <2>2, <2>3, RowFields
  <1> HIDE DEF upd
  <1>2. AnswersOK'
    BY <1>a, AnswersStay
  <1>3. \A e \in Endpoints \ c.ids : GoesOn(c, e) /\ ~Saves(c, e)
    BY <1>a DEF GoesOn, Saves, Switches, Deletes
  <1>4. MemoryOK'
    <2>1. \A e \in Endpoints : c.got[e] = Gone \/ c.got[e].old \/ c.got[e] = server[e]
      BY <1>a, Brought
    <2> QED BY <1>a, <1>b, <1>1, <1>3, <2>1, MemoryStays
  <1>5. ListOK'
    BY <1>a, <1>b, <1>1, ListStays DEF In
  <1>6. CASE In(c.got) # {}
    BY <1>2, <1>4, <1>5, <1>6, <1>b, FilteredShows DEF FreshDone, TruthInv
  <1>7. CASE In(c.got) = {}
    <2>1. UNCHANGED <<table, failed, page>> /\ dirty' = dirty /\ In(table') = In(table)
      BY <1>7, <1>a DEF FreshDone, screen, In
    <2>2. SameRows
      BY <1>7, <1>a, <1>b, <1>1 DEF SameRows, In
    <2>3. \A e \in Endpoints : Saves(c, e) => rows'[e].old \/ rows'[e] = Gone
      BY <1>7, <1>a, <1>b, <1>1, <1>3 DEF In
    <2>4. ScreenOK'
      BY <1>a, <2>1, <2>2, <2>3, ScreenStays DEF TruthInv
    <2>5. Deletion => Deletion'
      BY <1>a DEF Deletion
    <2>6. FilterOK'
      BY <1>a, <2>1, <2>2, <2>5, FilterStays DEF TruthInv
    <2> QED BY <1>2, <1>4, <1>5, <2>4, <2>6 DEF TruthInv
  <1> QED BY <1>6, <1>7

\* The request a loop makes next goes on telling of those it has done.
LEMMA LoopGoesOn ==
    ASSUME NEW c, NEW ids, NEW did, NEW C, NEW S, S = SaveNext(c, ids, did, C)
    PROVE  /\ C \subseteq S
           /\ \A x \in S : x \in C \/ (~x.served /\ In(x.got) = {} /\ x.op \in {"save", "fresh"})
           /\ \A e \in did : \E x \in S : Saves(x, e)
  <1> DEFINE todo == ids \cap In(table)
             d == [Ask("save", {x \in ids : x > First(todo)}) EXCEPT
                     !.id = First(todo), !.did = did, !.sent = table[First(todo)]]
             f == Ask("fresh", did)
  <1>1. d.op = "save" /\ d.did = did /\ ~d.served /\ In(d.got) = {}
    BY AskedCall DEF Ops, Reads, Fields
  <1>2. f.op = "fresh" /\ f.ids = did /\ ~f.served /\ In(f.got) = {}
    BY AskedCall DEF Ops, Reads
  <1>3. S = IF todo # {} THEN C \cup {d} ELSE IF did # {} THEN C \cup {f} ELSE C
    BY DEF SaveNext
  <1> HIDE DEF todo, d, f
  <1> QED BY <1>1, <1>2, <1>3 DEF Saves

\* One save of a loop: the next request goes on telling (SaveDone).
LEMMA SaveTold ==
    ASSUME IInv, TruthInv, NEW c \in calls, c.served, SaveDone(c),
           UNCHANGED <<server, filter, size, debounce>>
    PROVE  TruthInv'
  <1> DEFINE did == IF c.ok THEN c.did \cup {c.id} ELSE c.did
  <1>a. /\ AnswersOK /\ MemoryOK /\ ListOK /\ c.op = "save"
        /\ calls' = SaveNext(c, c.ids, did, calls \ {c})
        /\ dirty' = (IF c.ok THEN dirty \ {c.id} ELSE dirty)
        /\ UNCHANGED <<table, failed, rows, cache, cached, filterMode, loadingAll, page, macs>>
    BY DEF TruthInv, SaveDone, screen, list
  <1> HIDE DEF did
  <1>0. /\ calls \ {c} \subseteq calls'
        /\ \A x \in calls' : \/ x \in calls \ {c}
                             \/ ~x.served /\ In(x.got) = {} /\ x.op \in {"save", "fresh"}
        /\ \A e \in did : \E x \in calls' : Saves(x, e)
    <2> DEFINE C == calls \ {c}
               ids == c.ids
               S == calls'
    <2>1. S = SaveNext(c, ids, did, C)
      BY <1>a
    <2> HIDE DEF C, ids, S
    <2>2. /\ C \subseteq S
          /\ \A x \in S : x \in C \/ (~x.served /\ In(x.got) = {} /\ x.op \in {"save", "fresh"})
          /\ \A e \in did : \E x \in S : Saves(x, e)
      BY <2>1, LoopGoesOn
    <2> QED BY <2>2 DEF C, S
  <1>1. /\ calls \ {c} \subseteq calls'
        /\ \A x \in calls' : x \in calls \/ (~x.served /\ In(x.got) = {} /\ ~Full(x))
        /\ \A e \in did : Saving(e)'
    <2>1. \A x \in calls' : x \in calls \/ (~x.served /\ In(x.got) = {} /\ ~Full(x))
      BY <1>0 DEF Full
    <2>2. \A e \in did : Saving(e)'
      BY <1>0 DEF Saving, Saves
    <2> QED BY <1>0, <2>1, <2>2
  <1>2. AnswersOK'
    BY <1>a, <1>1, AnswersStay
  <1>3. \A e \in Endpoints : GoesOn(c, e) /\ (Saves(c, e) => Saving(e)')
    BY <1>a, <1>1 DEF GoesOn, Saves, Switches, Deletes, did
  <1>4. MemoryOK'
    BY <1>a, <1>1, <1>3, MemoryStays
  <1>5. SameRows /\ In(table') = In(table)
    BY <1>a DEF SameRows, In
  <1>6. ListOK'
    BY <1>a, ListStays
  <1>7. \A e \in dirty \ dirty' : Saving(e)'
    BY <1>a, <1>1 DEF did
  <1>8. ScreenOK'
    BY <1>a, <1>1, <1>3, <1>5, <1>7, ScreenStays DEF TruthInv
  <1>9. Deletion => Deletion'
    BY <1>a, <1>1 DEF Deletion
  <1>10. FilterOK'
    BY <1>a, <1>5, <1>9, FilterStays DEF TruthInv
  <1> QED BY <1>2, <1>4, <1>6, <1>8, <1>10 DEF TruthInv

\* One deletion of a bulk: its row goes, and the last draws the rest (DeleteDone).
LEMMA DeleteTold ==
    ASSUME IInv, TruthInv, NEW c \in calls, c.served, DeleteDone(c), rows' \in Rows,
           UNCHANGED <<server, filter, size, debounce>>
    PROVE  TruthInv'
  <1> DEFINE del(r) == IF c.ok THEN [r EXCEPT ![c.id] = Gone] ELSE r
             d == [Ask("delete", c.ids \ {First(c.ids)}) EXCEPT !.id = First(c.ids)]
  <1>a. /\ AnswersOK /\ MemoryOK /\ ListOK /\ TableOK /\ c.op = "delete"
        /\ rows' = del(rows) /\ cache' = del(cache)
        /\ calls' = (calls \ {c}) \cup (IF c.ids = {} THEN {} ELSE {d})
        /\ UNCHANGED <<cached, filterMode, loadingAll, macs>>
    BY DEF TruthInv, DeleteDone, IInv
  <1>b. d.op = "delete" /\ ~d.served /\ In(d.got) = {}
    BY AskedCall DEF Ops, Reads, Fields
  <1> HIDE DEF d
  <1>c. c.ok => server[c.id] = Gone
    BY <1>a DEF AnswersOK, AnswerOK, In
  <1>1. ASSUME NEW r \in Rows, NEW e \in Endpoints
        PROVE  del(r)[e] = IF c.ok /\ e = c.id THEN Gone ELSE r[e]
    BY DEF Rows
  <1>d. rows \in Rows /\ cache \in Rows
    BY DEF IInv, RowsOK
  <1> HIDE DEF del
  <1>2. AnswersOK'
    BY <1>a, <1>b, AnswersStay DEF Full
  <1>3. \A e \in Endpoints : (c.ok /\ e = c.id) \/ GoesOn(c, e)
    BY <1>a DEF GoesOn, Saves, Switches, Deletes
  <1>4. MemoryOK'
    BY <1>a, <1>d, <1>1, <1>3, MemoryStays
  <1>5. ListOK'
    BY <1>a, <1>c, <1>d, <1>1, ListStays DEF In
  <1>6. CASE c.ids = {}
    BY <1>2, <1>4, <1>5, <1>6, <1>a, FilteredShows DEF DeleteDone, TruthInv
  <1>7. CASE c.ids # {}
    <2>1. Deletion'
      BY <1>a, <1>b, <1>7 DEF Deletion
    <2> QED BY <1>2, <1>4, <1>5, <2>1, DueShows DEF TruthInv
  <1> QED BY <1>6, <1>7

\* What the backend reports decommissioned or reactivated (StatusDone).
LEMMA StatusTold ==
    ASSUME IInv, TruthInv, NEW c \in calls, c.served, StatusDone(c), rows' \in Rows,
           UNCHANGED <<server, filter, size, debounce>>
    PROVE  TruthInv'
  <1> DEFINE upd(r) == [e \in Endpoints |->
               IF e \notin c.did \/ r[e] = Gone THEN r[e]
               ELSE [r[e] EXCEPT !.decomm = (c.op = "decommission"),
                                 !.switched = TRUE,
                                 !.old = @ \/ (c.got[e] # Gone /\ c.got[e].old)]]
  <1>a. /\ AnswersOK /\ MemoryOK /\ ListOK /\ TableOK /\ c.op \in {"decommission", "undecommission"}
        /\ rows' = upd(rows) /\ cache' = upd(cache) /\ calls' = calls \ {c}
        /\ UNCHANGED <<cached, filterMode, loadingAll, macs, dirty>>
    BY DEF TruthInv, StatusDone, IInv
  <1>b. rows \in Rows /\ cache \in Rows /\ server \in Rows
    BY DEF IInv, RowsOK
  <1>c. \A e \in c.did : /\ c.got[e] # Gone /\ c.got[e].decomm = (c.op = "decommission")
                         /\ c.got[e].old \/ (c.got[e] = server[e] /\ Settled(server[e]))
    BY <1>a DEF AnswersOK, AnswerOK, In
  <1>1. ASSUME NEW r \in Rows, NEW e \in Endpoints
        PROVE  /\ r[e] = Gone => upd(r)[e] = Gone
               /\ e \notin c.did => upd(r)[e] = r[e]
               /\ e \in c.did /\ r[e] # Gone =>
                    LET x == upd(r)[e]
                    IN  /\ x # Gone /\ x.vals = r[e].vals /\ x.decomm = (c.op = "decommission")
                        /\ x.switched
                        /\ ~x.old => ~r[e].old /\ ~c.got[e].old
    <2>1. r[e] = Gone \/ r[e] \in Row
      BY DEF Rows
    <2> DEFINE b == c.op = "decommission"
               o == c.got[e] # Gone /\ c.got[e].old
    <2>3. b \in BOOLEAN /\ o \in BOOLEAN /\ (e \in c.did => o = c.got[e].old)
      <3>1. c.got[e] = Gone \/ c.got[e] \in Row
        BY DEF IInv, CallsOK, CallOK, Rows
      <3> QED BY <3>1, <1>c, RowFields
    <2>4. upd(r)[e] = IF e \notin c.did \/ r[e] = Gone THEN r[e]
                      ELSE [r[e] EXCEPT !.decomm = b, !.switched = TRUE, !.old = @ \/ o]
      OBVIOUS
    <2>5. b = (c.op = "decommission")
      OBVIOUS
    <2> HIDE DEF upd, b, o
    <2>6. CASE e \in c.did /\ r[e] # Gone
      <3>1. /\ upd(r)[e] = [r[e] EXCEPT !.decomm = b, !.switched = TRUE, !.old = @ \/ o]
            /\ r[e] \in Row
        BY <2>1, <2>4, <2>6
      <3> DEFINE x == r[e]
                 v == x.old \/ o
      <3>2. /\ v \in BOOLEAN /\ x \in Row
            /\ upd(r)[e] = [x EXCEPT !.decomm = b, !.switched = TRUE, !.old = v]
        BY <2>3, <3>1 DEF Row
      <3>3. v <=> r[e].old \/ o
        OBVIOUS
      <3> HIDE DEF v, x
      <3>4. /\ upd(r)[e] \in Row /\ upd(r)[e].vals = x.vals /\ upd(r)[e].decomm = b
            /\ upd(r)[e].old = v /\ upd(r)[e].switched
        BY <2>3, <3>2 DEF Row
      <3> QED BY <2>3, <2>5, <2>6, <3>3, <3>4, RowFields DEF x
    <2> QED BY <2>4, <2>6
  <1> HIDE DEF upd
  <1>2. AnswersOK'
    BY <1>a, AnswersStay
  <1>3. /\ \A e : (Saving(e) => Saving(e)') /\ (Deleting(e) => Deleting(e)')
        /\ \A e : e \notin c.did => (Switching(e) => Switching(e)')
        /\ Reloading => Reloading'
        /\ Deletion => Deletion'
    BY <1>a DEF Saving, Deleting, Switching, Reloading, Deletion, Saves, Deletes, Switches
  <1>4. ASSUME NEW r \in Rows, NEW e \in Endpoints, NEW w, NEW v, w => v, RowTrue(r[e], e, w)
        PROVE  LET x == upd(r)[e]
               IN  x # Gone /\ ~x.old =>
                     /\ server[e] # Gone \/ Deleting(e)'
                     /\ server[e] # Gone =>
                          /\ \/ x.vals = server[e].vals
                             \/ Agrees(x.vals, server[e].vals) /\ (x.switched \/ Switching(e)')
                             \/ Saving(e)'
                             \/ v
                          /\ x.decomm = server[e].decomm \/ Switching(e)'
                          /\ x.switched => Settled(server[e])
    <2>1. CASE e \in c.did
      BY <1>1, <1>3, <1>4, <1>c, <2>1 DEF RowTrue
    <2>2. CASE e \notin c.did
      BY <1>1, <1>3, <1>4, <2>2 DEF RowTrue
    <2> QED BY <2>1, <2>2
  <1>5. MemoryOK'
    <2>1. \A e \in Endpoints : RowTrue(rows[e], e, Reloading)' /\ RowTrue(cache[e], e, FALSE)'
      BY <1>a, <1>b, <1>3, <1>4 DEF MemoryOK, RowTrue, Settled
    <2>2. (\A e \in In(server) : ~server[e].old /\ ~server[e].switched)'
      BY DEF TruthInv, MemoryOK, In
    <2> QED BY <2>1, <2>2 DEF MemoryOK
  <1>6. ListOK'
    BY <1>a, <1>b, <1>1, ListStays DEF In
  <1>7. CASE c.did # {}
    BY <1>2, <1>5, <1>6, <1>7, <1>a, FilteredShows DEF StatusDone, TruthInv
  <1>8. CASE c.did = {}
    <2>1. UNCHANGED <<table, failed, page>> /\ In(table') = In(table)
      BY <1>8 DEF StatusDone, screen, In
    <2>2. SameRows
      BY <1>8, <1>a, <1>b, <1>1 DEF SameRows
    <2>3. \A e \in Endpoints : ~Saves(c, e)
      BY <1>a DEF Saves
    <2>4. ScreenOK'
      BY <1>a, <2>1, <2>2, <2>3, ScreenStays DEF TruthInv
    <2>5. FilterOK'
      BY <1>a, <1>3, <2>1, <2>2, FilterStays DEF TruthInv
    <2> QED BY <1>2, <1>5, <1>6, <2>4, <2>5 DEF TruthInv
  <1> QED BY <1>7, <1>8

\* A template that was applied loads the list again (TemplateDone).
LEMMA TemplateTold ==
    ASSUME IInv, TruthInv, NEW c \in calls, TemplateDone(c),
           UNCHANGED <<server, filter, size, debounce>>
    PROVE  TruthInv'
  <1>a. AnswersOK /\ MemoryOK /\ ListOK /\ c.op = "template" /\ macs' = macs
    BY DEF TruthInv, TemplateDone
  <1>1. CASE c.did = {}
    <2>1. /\ calls' = calls \ {c}
          /\ UNCHANGED <<table, failed, rows, cache, cached, filterMode, loadingAll, page, dirty>>
      BY <1>1 DEF TemplateDone, screen, list
    <2>2. \A e \in Endpoints : GoesOn(c, e) /\ ~Saves(c, e)
      BY <1>a, <1>1 DEF GoesOn, Saves, Switches, Deletes
    <2>3. AnswersOK' /\ MemoryOK' /\ ListOK'
      BY <1>a, <2>1, <2>2, AnswersStay, MemoryStays, ListStays
    <2>4. SameRows /\ In(table') = In(table)
      BY <2>1 DEF SameRows, In
    <2>5. ScreenOK'
      BY <1>a, <2>1, <2>2, <2>4, ScreenStays DEF TruthInv
    <2>6. Deletion => Deletion'
      BY <1>a, <2>1 DEF Deletion
    <2>7. FilterOK'
      BY <1>a, <2>1, <2>4, <2>6, FilterStays DEF TruthInv
    <2> QED BY <2>3, <2>5, <2>7 DEF TruthInv
  <1>2. CASE c.did # {}
    <2> DEFINE d == Ask("load", {})
    <2>0. d.op = "load" /\ ~d.served /\ In(d.got) = {}
      BY AskedCall DEF Ops, Reads
    <2>1. /\ calls' = (calls \ {c}) \cup {d} /\ filterMode' = FALSE /\ cached' = FALSE
          /\ cache' = NoRows /\ ClearTable(FALSE) /\ UNCHANGED <<rows, loadingAll>>
      BY <1>2 DEF TemplateDone
    <2> HIDE DEF d
    <2>2. AnswersOK'
      BY <1>a, <2>0, <2>1, AnswersStay DEF Full
    <2>3. MemoryOK'
      BY <1>a, <2>0, <2>1, EmptyComplete, MemoryStays DEF Reloading
    <2>4. ListOK'
      BY <2>1 DEF ListOK
    <2> QED BY <2>1, <2>2, <2>3, <2>4, ClearedShows DEF TruthInv
  <1> QED BY <1>1, <1>2

\* Every answer.
LEMMA HandledTruly == ASSUME IInv, IInv', TruthInv, Handle PROVE TruthInv'
  <1> PICK c \in calls : c.served /\
        (\/ LoadDone(c) \/ LoadFails(c) \/ AllDone(c) \/ AllFails(c) \/ ExportDone(c)
         \/ FreshDone(c) \/ SaveDone(c) \/ DeleteDone(c) \/ StatusDone(c)
         \/ TemplateDone(c))
    BY DEF Handle
  <1>1. UNCHANGED <<server, filter, size, debounce>> /\ rows' \in Rows
    BY DEF Handle, IInv, RowsOK
  <1> QED BY <1>1, LoadTold, AllTold, ExportTold, FreshTold, SaveTold,
             DeleteTold, StatusTold, TemplateTold

-----------------------------------------------------------------------------
(* The backend *)

\* What a change of the endpoints S makes of an answer.
Outdated(x, S) ==
    IF x.served THEN [x EXCEPT !.got = [e \in Endpoints |->
                        IF e \in S /\ @[e] # Gone THEN [@[e] EXCEPT !.old = TRUE] ELSE @[e]]]
    ELSE x

\* It is the same answer, and what it brings of S is old.
LEMMA OutdatedCall ==
    ASSUME NEW x, CallOK(x), NEW S
    PROVE  LET y == Outdated(x, S)
           IN  /\ y.op = x.op /\ y.ids = x.ids /\ y.id = x.id /\ y.did = x.did /\ y.then = x.then
               /\ y.served = x.served /\ y.ok = x.ok /\ In(y.got) = In(x.got)
               /\ \A e \in In(x.got) : /\ y.got[e].decomm = x.got[e].decomm
                                       /\ x.got[e].old => y.got[e].old
                                       /\ e \notin S => y.got[e] = x.got[e]
                                       /\ e \in S /\ x.served => y.got[e].old
  <1>1. CASE ~x.served
    BY <1>1 DEF Outdated
  <1>2. CASE x.served
    <2> DEFINE g == [e \in Endpoints |->
                 IF e \in S /\ x.got[e] # Gone THEN [x.got[e] EXCEPT !.old = TRUE] ELSE x.got[e]]
    <2>1. \A e \in Endpoints : x.got[e] \in Row \/ x.got[e] = Gone
      BY DEF CallOK, Rows
    <2>2. ASSUME NEW z \in Row
          PROVE  LET y == [z EXCEPT !.old = TRUE] IN y \in Row /\ y.old /\ y.decomm = z.decomm
      BY DEF Row
    <2>3. \A e \in Endpoints :
            g[e] = IF e \in S /\ x.got[e] # Gone THEN [x.got[e] EXCEPT !.old = TRUE] ELSE x.got[e]
      OBVIOUS
    <2>4. Outdated(x, S) = [x EXCEPT !.got = g]
      BY <1>2 DEF Outdated
    <2> HIDE DEF g
    <2>5. \A e \in Endpoints : /\ g[e] = Gone <=> x.got[e] = Gone
                               /\ x.got[e] # Gone => /\ g[e].decomm = x.got[e].decomm
                                                     /\ x.got[e].old => g[e].old
                                                     /\ e \notin S => g[e] = x.got[e]
                                                     /\ e \in S => g[e].old
      <3> SUFFICES ASSUME NEW e \in Endpoints
                   PROVE  /\ g[e] = Gone <=> x.got[e] = Gone
                          /\ x.got[e] # Gone => /\ g[e].decomm = x.got[e].decomm
                                                /\ x.got[e].old => g[e].old
                                                /\ e \notin S => g[e] = x.got[e]
                                                /\ e \in S => g[e].old
        OBVIOUS
      <3> DEFINE z == x.got[e]
      <3>1. g[e] = IF e \in S /\ z # Gone THEN [z EXCEPT !.old = TRUE] ELSE z
        BY <2>3
      <3>2. z \in Row \/ z = Gone
        BY <2>1
      <3> HIDE DEF z
      <3>3. /\ g[e] = Gone <=> z = Gone
            /\ z # Gone => /\ g[e].decomm = z.decomm
                           /\ z.old => g[e].old
                           /\ e \notin S => g[e] = z
                           /\ e \in S => g[e].old
        BY <2>2, <3>1, <3>2, RowFields
      <3> QED BY <3>3 DEF z
    <2>6. LET y == Outdated(x, S)
          IN  /\ y.op = x.op /\ y.ids = x.ids /\ y.id = x.id /\ y.did = x.did /\ y.then = x.then
              /\ y.served = x.served /\ y.ok = x.ok /\ y.got = g
      BY <2>4 DEF CallOK, Fields
    <2> QED BY <2>5, <2>6 DEF In
  <1> QED BY <1>1, <1>2

\* An outdated answer tells of what it told before.
LEMMA OutdatedTells ==
    ASSUME NEW x, CallOK(x), NEW S
    PROVE  LET y == Outdated(x, S)
           IN  /\ Full(y) <=> Full(x)
               /\ \A e : /\ Saves(x, e) <=> Saves(y, e)
                         /\ Switches(x, e) <=> Switches(y, e)
                         /\ Deletes(x, e) <=> Deletes(y, e)
  BY OutdatedCall DEF Full, Saves, Switches, Deletes

\* A row that is made old is otherwise the same.
LEMMA OutdatedRow ==
    ASSUME NEW r \in Rows, NEW S, NEW e \in Endpoints
    PROVE  LET x == OutdateRows(r, S)[e]
           IN  /\ x = Gone <=> r[e] = Gone
               /\ r[e] # Gone => /\ x.vals = r[e].vals /\ x.decomm = r[e].decomm
                                 /\ x.switched = r[e].switched
                                 /\ r[e].old => x.old
                                 /\ e \in S => x.old
               /\ e \notin S => x = r[e]
  <1>1. r[e] \in Row \/ r[e] = Gone
    BY DEF Rows
  <1>2. ASSUME NEW z \in Row
        PROVE  LET y == [z EXCEPT !.old = TRUE]
               IN  /\ y \in Row /\ y.old /\ y.decomm = z.decomm /\ y.vals = z.vals
                   /\ y.switched = z.switched
    BY DEF Row
  <1>3. OutdateRows(r, S)[e] = IF e \in S /\ r[e] # Gone THEN [r[e] EXCEPT !.old = TRUE] ELSE r[e]
    BY DEF OutdateRows
  <1> QED BY <1>1, <1>2, <1>3, RowFields

\* The endpoints of S change: what was read of them before is old, and what the
\* rows in memory say of them is old too, or will be told.
LEMMA ServerChanges ==
    ASSUME IInv, TruthInv, NEW S, NEW L, NEW C \in SUBSET calls, NEW D,
           calls' = Outdate(C, S) \cup D,
           \A x \in D : AnswerOK(x)' /\ ~Full(x),
           \A x \in calls \ C : /\ \A e : GoesOn(x, e)
                                /\ x.op # "load" /\ (x.op = "delete" => Deletion'),
           server' \in Rows, \A e \in Endpoints : e \in S \/ server'[e] = server[e],
           \A e \in In(server') : e \in In(server) /\ ~server'[e].old /\ ~server'[e].switched,
           rows' = OutdateRows(rows, L), cache' = OutdateRows(cache, L),
           \A e \in Endpoints \ L :
             /\ e \in In(server) => e \in In(server') \/ Deleting(e)'
             /\ e \in In(server') =>
                  /\ \/ server'[e].vals = server[e].vals
                     \/ Agrees(server[e].vals, server'[e].vals) /\ Switching(e)'
                     \/ Saving(e)'
                  /\ server'[e].decomm = server[e].decomm \/ Switching(e)'
                  /\ Settled(server[e]) => Settled(server'[e]),
           UNCHANGED <<table, failed, cached, dirty, filter, filterMode, loadingAll, page, size,
                       debounce, macs>>
    PROVE  TruthInv'
  <1>a. AnswersOK /\ MemoryOK /\ ListOK /\ ScreenOK /\ FilterOK
    BY DEF TruthInv
  <1>b. rows \in Rows /\ cache \in Rows /\ \A x \in calls : CallOK(x)
    BY DEF IInv, RowsOK, CallsOK
  <1>c. Outdate(C, S) = {Outdated(x, S) : x \in C}
    BY DEF Outdate, Outdated
  <1>d. \A x \in C : Outdated(x, S) \in calls'
    BY <1>c
  <1>1. /\ \A e : Saving(e) => Saving(e)'
        /\ \A e : Switching(e) => Switching(e)'
        /\ \A e : Deleting(e) => Deleting(e)'
    <2>1. ASSUME NEW x \in calls, NEW e PROVE GoesOn(x, e)
      <3>1. CASE x \in calls \ C
        BY <3>1
      <3>2. CASE x \in C
        BY <1>b, <1>d, <3>2, OutdatedTells DEF GoesOn, Saving, Switching, Deleting, Saves, Switches, Deletes
      <3> QED BY <3>1, <3>2
    <2> QED BY <2>1 DEF GoesOn, Saving, Switching, Deleting
  <1>2. (Reloading => Reloading') /\ (Deletion => Deletion')
    <2>1. ASSUME NEW x \in C PROVE Outdated(x, S).op = x.op /\ Outdated(x, S) \in calls'
      BY <1>b, <1>d, OutdatedCall
    <2> QED BY <2>1 DEF Reloading, Deletion
  <1>3. AnswersOK'
    <2>1. OneFull'
      <3>1. ASSUME NEW y \in calls', Full(y) PROVE \E x \in calls : Full(x) /\ y = Outdated(x, S)
        BY <1>b, <1>c, <3>1, OutdatedTells
      <3> QED BY <1>a, <3>1 DEF AnswersOK, OneFull
    <2>2. ASSUME NEW x \in C PROVE AnswerOK(Outdated(x, S))'
      <3> DEFINE y == Outdated(x, S)
      <3>1. CallOK(x) /\ AnswerOK(x)
        BY <1>a, <1>b DEF AnswersOK
      <3>2. /\ y.op = x.op /\ y.id = x.id /\ y.did = x.did
            /\ y.served = x.served /\ y.ok = x.ok /\ In(y.got) = In(x.got)
        BY <3>1, OutdatedCall
      <3>3. \A e \in In(x.got) : /\ y.got[e].decomm = x.got[e].decomm
                                 /\ x.got[e].old => y.got[e].old
                                 /\ e \notin S => y.got[e] = x.got[e]
                                 /\ e \in S /\ x.served => y.got[e].old
        BY <3>1, OutdatedCall
      <3> HIDE DEF y
      <3>4. In(server') \subseteq In(server) /\ In(server)' = In(server')
        BY DEF In
      <3>5. \A e \in In(y.got) : y.served /\ (y.got[e].old \/ y.got[e] = server'[e])
        BY <3>1, <3>2, <3>3 DEF AnswerOK, In
      <3>6. y.served /\ y.op = "all" /\ y.ok => \A e \in In(server') : y.got[e] # Gone
        BY <3>1, <3>2, <3>4 DEF AnswerOK, Complete, In
      <3>7. y.served /\ y.op = "delete" /\ y.ok => y.id \in Endpoints \ In(server')
        BY <3>1, <3>2, <3>4 DEF AnswerOK
      <3>8. y.served /\ y.op \in {"decommission", "undecommission"} =>
              \A e \in y.did : /\ e \in In(y.got) /\ y.got[e].decomm = (y.op = "decommission")
                               /\ y.got[e].old \/ Settled(server'[e])
        BY <3>1, <3>2, <3>3 DEF AnswerOK, In
      <3>9. AnswerOK(y)'
        BY <3>4, <3>5, <3>6, <3>7, <3>8 DEF AnswerOK, Complete, In, Settled
      <3> QED BY <3>9 DEF y
    <2>3. \A y \in calls' : AnswerOK(y)'
      BY <1>c, <2>2
    <2> QED BY <2>1, <2>3 DEF AnswersOK
  <1>4. ASSUME NEW r \in Rows, NEW e \in Endpoints, NEW w, NEW v, w => v, RowTrue(r[e], e, w)
        PROVE  LET x == OutdateRows(r, L)[e]
               IN  x # Gone /\ ~x.old =>
                     /\ server'[e] # Gone \/ Deleting(e)'
                     /\ server'[e] # Gone =>
                          /\ \/ x.vals = server'[e].vals
                             \/ Agrees(x.vals, server'[e].vals) /\ (x.switched \/ Switching(e)')
                             \/ Saving(e)'
                             \/ v
                          /\ x.decomm = server'[e].decomm \/ Switching(e)'
                          /\ x.switched => Settled(server'[e])
    <2>1. CASE e \in L
      BY <2>1, OutdatedRow
    <2>2. CASE e \notin L
      BY <1>1, <1>4, <2>2, OutdatedRow DEF RowTrue, In, Agrees
    <2> QED BY <2>1, <2>2
  <1>5. MemoryOK'
    <2>1. \A e \in Endpoints : RowTrue(rows[e], e, Reloading)' /\ RowTrue(cache[e], e, FALSE)'
      BY <1>a, <1>b, <1>2, <1>4 DEF MemoryOK, RowTrue, Settled
    <2>2. (\A e \in In(server) : ~server[e].old /\ ~server[e].switched)'
      BY DEF In
    <2> QED BY <2>1, <2>2 DEF MemoryOK
  <1>6. ListOK'
    <2>1. In(cache) = In(cache') /\ In(rows) = In(rows')
      BY <1>b, OutdatedRow DEF In
    <2> QED BY <1>a, <2>1, ListStays
  <1>7. SameRows
    BY <1>b, OutdatedRow DEF SameRows
  <1>8. ScreenOK'
    <2>1. ASSUME NEW e \in In(table), RowShown(e) PROVE RowShown(e)'
      BY <1>1, <1>7, <2>1 DEF RowShown, SameRows, In
    <2>2. In(table)' = In(table)
      BY DEF In
    <2> QED BY <1>a, <1>2, <2>1, <2>2 DEF ScreenOK
  <1>9. FilterOK'
    <2>1. In(table') = In(table)
      BY DEF In
    <2> QED BY <1>a, <1>2, <1>7, <2>1, FilterStays
  <1> QED BY <1>3, <1>5, <1>6, <1>8, <1>9 DEF TruthInv

\* Another user changes an endpoint: the copies here are old from then on.
LEMMA OthersWrite == ASSUME IInv, IInv', TruthInv, NEW e \in Endpoints, OtherWrite(e) PROVE TruthInv'
  <1> DEFINE S == {e}
             C == calls
             D == {}
  <1>1. /\ calls' = Outdate(C, S) \cup D /\ server' \in Rows
        /\ rows' = OutdateRows(rows, S) /\ cache' = OutdateRows(cache, S)
        /\ UNCHANGED <<table, failed, cached, dirty, filter, filterMode, loadingAll, page, size,
                       debounce, macs>>
    BY DEF OtherWrite, IInv, RowsOK, screen
  <1>2. server[e] \in Row /\ ~server[e].old /\ ~server[e].switched /\ server \in Rows
    BY DEF OtherWrite, IInv, RowsOK, Rows, TruthInv, MemoryOK, In
  <1>3. server'[e] # Gone /\ ~server'[e].old /\ ~server'[e].switched
    <2> DEFINE x == server[e]
    <2>1. \/ server' = [server EXCEPT ![e] = [x EXCEPT !.vals.text = ~@]]
          \/ server' = [server EXCEPT ![e] = [x EXCEPT !.vals.active = ~@]]
      BY <1>2 DEF OtherWrite, Rows
    <2>2. /\ \/ server'[e] = [x EXCEPT !.vals.text = ~@]
             \/ server'[e] = [x EXCEPT !.vals.active = ~@]
          /\ x \in Row /\ ~x.old /\ ~x.switched
      BY <1>2, <2>1 DEF Rows
    <2> HIDE DEF x
    <2>3. ASSUME NEW z \in Row
          PROVE  /\ LET y == [z EXCEPT !.vals.text = ~@]
                    IN  y \in Row /\ y.old = z.old /\ y.switched = z.switched
                 /\ LET y == [z EXCEPT !.vals.active = ~@]
                    IN  y \in Row /\ y.old = z.old /\ y.switched = z.switched
      BY DEF Row, Values
    <2>4. CASE server'[e] = [x EXCEPT !.vals.text = ~@]
      BY <2>2, <2>3, <2>4, RowFields
    <2>5. CASE server'[e] = [x EXCEPT !.vals.active = ~@]
      BY <2>2, <2>3, <2>5, RowFields
    <2> QED BY <2>2, <2>4, <2>5
  <1>4. \A a \in Endpoints : a \in S \/ server'[a] = server[a]
    BY <1>2 DEF OtherWrite, Rows
  <1>5. \A a \in In(server') : a \in In(server) /\ ~server'[a].old /\ ~server'[a].switched
    BY <1>2, <1>3, <1>4 DEF TruthInv, MemoryOK, In, OtherWrite
  <1>6. \A a \in Endpoints \ S :
          /\ a \in In(server) => a \in In(server') \/ Deleting(a)'
          /\ a \in In(server') =>
               /\ \/ server'[a].vals = server[a].vals
                  \/ Agrees(server[a].vals, server'[a].vals) /\ Switching(a)'
                  \/ Saving(a)'
               /\ server'[a].decomm = server[a].decomm \/ Switching(a)'
               /\ Settled(server[a]) => Settled(server'[a])
    BY <1>4 DEF In
  <1>7. /\ \A x \in D : AnswerOK(x)' /\ ~Full(x)
        /\ \A x \in calls \ C : /\ \A a : GoesOn(x, a)
                                /\ x.op # "load" /\ (x.op = "delete" => Deletion')
        /\ C \in SUBSET calls
    OBVIOUS
  <1> HIDE DEF S, C, D
  <1> QED BY <1>1, <1>4, <1>5, <1>6, <1>7, ServerChanges

\* A read brings the backend as it is (ServeRead).
LEMMA Reading ==
    ASSUME IInv, TruthInv, NEW c \in calls, ~c.served, ServeRead(c),
           UNCHANGED <<screen, cached, dirty, filter, filterMode, loadingAll, page, size, total,
                       debounce, macs>>
    PROVE  TruthInv'
  <1> DEFINE Got(ok, has) ==
               IF ok THEN [e \in Endpoints |-> IF e \in has THEN server[e] ELSE Gone] ELSE NoRows
             D(ok, has, n) == [c EXCEPT !.served = TRUE, !.ok = ok, !.got = Got(ok, has),
                                        !.total = n]
  <1>a. /\ c.op \in Reads /\ CallOK(c) /\ AnswersOK /\ MemoryOK /\ ListOK /\ ScreenOK /\ FilterOK
        /\ UNCHANGED <<server, rows, cache, table, failed, page>>
    BY DEF IInv, CallsOK, TruthInv, ServeRead, screen
  <1>b. server' = server
    BY DEF ServeRead
  <1>1. PICK ok, has, n : /\ calls' = (calls \ {c}) \cup {D(ok, has, n)}
                          /\ c.op = "all" => has = In(server)
    <2>1. PICK ok \in BOOLEAN, S \in SUBSET c.ids :
            LET all == In(server)
                has == CASE c.op = "load"  -> Slice(all, c.page, c.size)
                         [] c.op = "all"   -> all
                         [] c.op = "fresh" -> S \cap all
            IN  calls' = (calls \ {c}) \cup {[c EXCEPT !.served = TRUE, !.ok = ok,
                  !.got = IF ok THEN [e \in Endpoints |-> IF e \in has THEN server[e] ELSE Gone]
                                ELSE NoRows,
                  !.total = IF ok THEN Cardinality(all) ELSE 0]}
      BY Zenon DEF ServeRead
    <2> DEFINE has == CASE c.op = "load"  -> Slice(In(server), c.page, c.size)
                        [] c.op = "all"   -> In(server)
                        [] c.op = "fresh" -> S \cap In(server)
    <2>2. c.op = "all" => has = In(server)
      OBVIOUS
    <2>3. calls' = (calls \ {c}) \cup {D(ok, has, IF ok THEN Cardinality(In(server)) ELSE 0)}
      BY <2>1
    <2> HIDE DEF has, D
    <2> QED BY <2>2, <2>3
  <1> PICK g : g = Got(ok, has)
    OBVIOUS
  <1> PICK d : d = D(ok, has, n)
    OBVIOUS
  <1>2. /\ \A e \in In(g) : e \in In(server) /\ g[e] = server[e]
        /\ ok /\ c.op = "all" => Complete(g)
    <2>1. \A e \in Endpoints : g[e] = IF ok /\ e \in has THEN server[e] ELSE Gone
      BY DEF NoRows
    <2> QED BY <1>1, <2>1 DEF In, Complete
  <1>3. /\ d.op = c.op /\ d.ids = c.ids /\ d.id = c.id /\ d.did = c.did /\ d.then = c.then
        /\ d.served = TRUE /\ d.ok = ok /\ d.got = g
    <2> HIDE DEF Got
    <2> QED BY <1>a DEF CallOK, Fields
  <1>4. calls' = (calls \ {c}) \cup {d}
    BY <1>1
  <1> HIDE DEF D, Got
  <1>5. AnswersOK'
    <2>1. Full(d) <=> Full(c)
      BY <1>3 DEF Full
    <2>2. OneFull'
      BY <1>a, <1>4, <2>1 DEF AnswersOK, OneFull
    <2>3. AnswerOK(d)'
      <3>1. \A e \in In(d.got) : d.served /\ d.got[e] = server[e]
        BY <1>2, <1>3
      <3>2. d.served /\ d.op = "all" /\ d.ok => Complete(d.got)
        BY <1>2, <1>3
      <3>3. d.op \notin {"decommission", "undecommission"} /\ d.op # "delete"
        BY <1>a, <1>3 DEF Reads
      <3>4. AnswerOK(d)
        BY <3>1, <3>2, <3>3 DEF AnswerOK
      <3> QED BY <1>b, <3>4 DEF AnswerOK, Complete, In
    <2>4. ASSUME NEW x \in calls PROVE AnswerOK(x)'
      <3>1. AnswerOK(x)
        BY <1>a DEF AnswersOK
      <3> QED BY <1>b, <3>1 DEF AnswerOK, Complete, In
    <2> QED BY <1>4, <2>2, <2>3, <2>4 DEF AnswersOK
  <1>6. \A e : GoesOn(c, e) /\ (Saves(c, e) => Saving(e)')
    <2>1. \A e : Saves(c, e) => Saves(d, e)
      BY <1>a, <1>3 DEF Saves, Reads
    <2>2. \A e : ~Switches(c, e) /\ ~Deletes(c, e)
      BY DEF Switches, Deletes
    <2> QED BY <1>4, <2>1, <2>2 DEF GoesOn, Saving
  <1>7. (c.op = "load" => Reloading') /\ c.op # "delete" /\ (Deletion => Deletion')
    BY <1>a, <1>3, <1>4 DEF Reloading, Deletion, Reads
  <1>8. MemoryOK'
    BY <1>a, <1>4, <1>6, <1>7, MemoryStays
  <1>9. ListOK'
    BY <1>a, ListStays
  <1>10. SameRows /\ In(table') = In(table)
    BY <1>a DEF SameRows, In
  <1>11. ScreenOK'
    BY <1>a, <1>4, <1>6, <1>7, <1>10, ScreenStays
  <1>12. FilterOK'
    BY <1>a, <1>7, <1>10, FilterStays
  <1> QED BY <1>5, <1>8, <1>9, <1>11, <1>12 DEF TruthInv

\* A write that is reported tells of each endpoint it changed; one whose report is
\* lost leaves rows that are old (ServeWrite).
LEMMA Writing ==
    ASSUME IInv, IInv', TruthInv, NEW c \in calls, ~c.served, ServeWrite(c),
           UNCHANGED <<screen, cached, dirty, filter, filterMode, loadingAll, page, size, total,
                       debounce, macs>>
    PROVE  TruthInv'
  <1>a. /\ c.op \notin Reads /\ CallOK(c) /\ server \in Rows /\ server' \in Rows
        /\ \A e \in In(server) : ~server[e].old /\ ~server[e].switched
        /\ UNCHANGED <<table, failed, cached, dirty, filter, filterMode, loadingAll, page, size,
                       debounce, macs>>
    BY DEF IInv, RowsOK, CallsOK, TruthInv, MemoryOK, ServeWrite, screen
  <1>1. PICK S \in SUBSET (IF c.op \in {"save", "delete"} THEN {c.id} ELSE c.ids),
             lost \in BOOLEAN :
          LET reported == IF lost THEN {} ELSE S \cap In(server)
              after    == Written(c, S)
          IN  /\ lost => S # {}
              /\ server' = after
              /\ calls' = Outdate(calls \ {c}, S) \cup
                   {[c EXCEPT !.served = TRUE, !.ok = (reported # {}),
                     !.did = IF c.op = "save" THEN @ ELSE reported,
                     !.got = IF c.op \in {"decommission", "undecommission"}
                             THEN [e \in Endpoints |-> IF e \in reported THEN after[e] ELSE Gone]
                             ELSE NoRows]}
              /\ rows' = OutdateRows(rows, IF lost THEN S ELSE {})
              /\ cache' = OutdateRows(cache, IF lost THEN S ELSE {})
    BY Zenon DEF ServeWrite
  <1> PICK L : L = (IF lost THEN S ELSE {})
    OBVIOUS
  <1> PICK C : C = calls \ {c}
    OBVIOUS
  <1> PICK did : did = (IF lost THEN {} ELSE S \cap In(server))
    OBVIOUS
  <1> PICK got : got = IF c.op \in {"decommission", "undecommission"}
                       THEN [e \in Endpoints |-> IF e \in did THEN Written(c, S)[e] ELSE Gone]
                       ELSE NoRows
    OBVIOUS
  <1> PICK d : d = [c EXCEPT !.served = TRUE, !.ok = (did # {}),
                             !.did = (IF c.op = "save" THEN c.did ELSE did), !.got = got]
    OBVIOUS
  <1>2. /\ d.op = c.op /\ d.ids = c.ids /\ d.id = c.id /\ d.then = c.then /\ d.served
        /\ d.ok <=> did # {}
        /\ d.did = (IF c.op = "save" THEN c.did ELSE did) /\ d.got = got
    BY <1>a DEF CallOK, Fields
  <1>3. /\ server' = Written(c, S) /\ calls' = Outdate(C, S) \cup {d}
        /\ rows' = OutdateRows(rows, L) /\ cache' = OutdateRows(cache, L)
    BY <1>1
  <1>4. did \subseteq In(server) /\ did \subseteq S /\ (c.op \in {"save", "delete"} => S \subseteq {c.id})
    OBVIOUS
  <1>5. \A e \in Endpoints :
          /\ e \notin S => server'[e] = server[e]
          /\ server[e] = Gone => server'[e] = Gone
          /\ e \in S /\ server[e] # Gone =>
               /\ c.op = "delete" => server'[e] = Gone
               /\ c.op # "delete" =>
                    /\ server'[e] # Gone /\ server'[e].old = server[e].old
                    /\ server'[e].switched = server[e].switched
                    /\ c.op \in {"save", "template"} =>
                         /\ server'[e].decomm = server[e].decomm
                         /\ Settled(server[e]) => Settled(server'[e])
                    /\ c.op \in {"decommission", "undecommission"} =>
                         /\ server'[e].decomm = (c.op = "decommission")
                         /\ Agrees(server[e].vals, server'[e].vals) /\ Settled(server'[e])
    <2> SUFFICES ASSUME NEW e \in Endpoints
                 PROVE  /\ e \notin S => server'[e] = server[e]
                        /\ server[e] = Gone => server'[e] = Gone
                        /\ e \in S /\ server[e] # Gone =>
                             /\ c.op = "delete" => server'[e] = Gone
                             /\ c.op # "delete" =>
                                  /\ server'[e] # Gone /\ server'[e].old = server[e].old
                                  /\ server'[e].switched = server[e].switched
                                  /\ c.op \in {"save", "template"} =>
                                       /\ server'[e].decomm = server[e].decomm
                                       /\ Settled(server[e]) => Settled(server'[e])
                                  /\ c.op \in {"decommission", "undecommission"} =>
                                       /\ server'[e].decomm = (c.op = "decommission")
                                       /\ Agrees(server[e].vals, server'[e].vals) /\ Settled(server'[e])
      OBVIOUS
    <2>1. server \in Rows /\ CallOK(c) /\ c.op \notin Reads
      BY <1>a
    <2> DEFINE y == Written(c, S)[e]
    <2>2. /\ e \notin S => y = server[e]
          /\ server[e] = Gone => y = Gone
          /\ e \in S /\ server[e] # Gone =>
               /\ c.op = "delete" => y = Gone
               /\ c.op # "delete" =>
                    /\ y # Gone /\ y.old = server[e].old
                    /\ y.switched = server[e].switched
                    /\ c.op \in {"save", "template"} =>
                         /\ y.decomm = server[e].decomm
                         /\ Settled(server[e]) => Settled(y)
                    /\ c.op \in {"decommission", "undecommission"} =>
                         /\ y.decomm = (c.op = "decommission")
                         /\ Agrees(server[e].vals, y.vals) /\ Settled(y)
      BY <2>1, WrittenRow
    <2>3. server'[e] = y
      BY <1>3
    <2> HIDE DEF y
    <2> QED BY <2>2, <2>3
  <1>6. \A e \in Endpoints : got[e] = IF c.op \in {"decommission", "undecommission"} /\ e \in did
                                      THEN server'[e] ELSE Gone
    BY <1>3 DEF NoRows
  <1>7. AnswerOK(d)' /\ ~Full(d)
    <2>1. \A e \in In(got) : got[e] = server'[e]
      BY <1>6 DEF In
    <2>2. c.op \in {"decommission", "undecommission"} =>
            \A e \in did : /\ e \in In(got) /\ got[e].decomm = (c.op = "decommission")
                           /\ Settled(server'[e])
      BY <1>4, <1>5, <1>6 DEF In
    <2>3. c.op = "delete" /\ d.ok => c.id \in Endpoints /\ server'[c.id] = Gone
      BY <1>2, <1>4, <1>5 DEF In
    <2>4. c.op # "all"
      BY <1>a DEF Reads
    <2>5. AnswerOK(d)'
      <3>1. \A e \in In(d.got) : d.served /\ (d.got[e].old \/ d.got[e] = server'[e])
        BY <1>2, <2>1
      <3>2. d.served /\ d.op \in {"decommission", "undecommission"} =>
              \A e \in d.did : /\ e \in In(d.got) /\ d.got[e].decomm = (d.op = "decommission")
                               /\ Settled(server'[e])
        BY <1>2, <2>2
      <3>3. d.served /\ d.op = "delete" /\ d.ok => d.id \in Endpoints \ In(server')
        BY <1>2, <2>3 DEF In
      <3> QED BY <1>2, <2>4, <3>1, <3>2, <3>3 DEF AnswerOK, In, Settled
    <2> QED BY <1>2, <2>4, <2>5 DEF Full
  <1>8. d \in calls'
    BY <1>3
  <1>9. \A e : GoesOn(c, e)
    <2>1. \A e : Saves(c, e) => Saves(d, e)
      BY <1>a, <1>2 DEF Saves, Reads
    <2>2. \A e : ~Switches(c, e) /\ ~Deletes(c, e)
      BY DEF Switches, Deletes
    <2> QED BY <1>8, <2>1, <2>2 DEF GoesOn, Saving
  <1>10. c.op # "load" /\ (c.op = "delete" => Deletion')
    BY <1>a, <1>2, <1>8 DEF Reads, Deletion
  <1>11. \A e \in Endpoints \ L :
           /\ e \in In(server) => e \in In(server') \/ Deleting(e)'
           /\ e \in In(server') =>
                /\ \/ server'[e].vals = server[e].vals
                   \/ Agrees(server[e].vals, server'[e].vals) /\ Switching(e)'
                   \/ Saving(e)'
                /\ server'[e].decomm = server[e].decomm \/ Switching(e)'
                /\ Settled(server[e]) => Settled(server'[e])
    <2> SUFFICES ASSUME NEW e \in Endpoints, e \notin L, e \in In(server)
                 PROVE  /\ e \in In(server') \/ Deleting(e)'
                        /\ e \in In(server') =>
                             /\ \/ server'[e].vals = server[e].vals
                                \/ Agrees(server[e].vals, server'[e].vals) /\ Switching(e)'
                                \/ Saving(e)'
                             /\ server'[e].decomm = server[e].decomm \/ Switching(e)'
                             /\ Settled(server[e]) => Settled(server'[e])
      BY <1>5 DEF In
    <2>1. CASE e \notin S
      BY <1>5, <2>1 DEF In
    <2>2. CASE e \in S
      <3>1. e \in did
        BY <2>2
      <3>2. /\ c.op = "save" => Saves(d, e)
            /\ c.op = "template" => Saves(d, e)
            /\ c.op \in {"decommission", "undecommission"} => Switches(d, e)
            /\ c.op = "delete" => Deletes(d, e)
        BY <1>2, <1>4, <3>1 DEF Saves, Switches, Deletes
      <3>3. /\ c.op \in {"save", "template"} => Saving(e)'
            /\ c.op \in {"decommission", "undecommission"} => Switching(e)'
            /\ c.op = "delete" => Deleting(e)'
        BY <1>8, <3>2 DEF Saving, Switching, Deleting, Saves, Switches, Deletes
      <3>4. c.op \in {"save", "delete", "decommission", "undecommission", "template"}
        BY <1>a DEF CallOK, Ops
      <3>5. server[e] # Gone
        BY DEF In
      <3>6. CASE c.op = "delete"
        BY <1>5, <2>2, <3>3, <3>5, <3>6 DEF In
      <3>7. CASE c.op \in {"save", "template"}
        BY <1>5, <2>2, <3>3, <3>5, <3>7 DEF In
      <3>8. CASE c.op \in {"decommission", "undecommission"}
        BY <1>5, <2>2, <3>3, <3>5, <3>8 DEF In
      <3> QED BY <3>4, <3>6, <3>7, <3>8
    <2> QED BY <2>1, <2>2
  <1>12. \A e \in In(server') : e \in In(server) /\ ~server'[e].old /\ ~server'[e].switched
    BY <1>a, <1>5 DEF In
  <1> PICK D : D = {d}
    OBVIOUS
  <1>13. \A x \in D : AnswerOK(x)' /\ ~Full(x)
    BY <1>7
  <1>14. /\ calls' = Outdate(C, S) \cup D /\ C \in SUBSET calls
         /\ \A x \in calls \ C : /\ \A e : GoesOn(x, e)
                                 /\ x.op # "load" /\ (x.op = "delete" => Deletion')
    BY <1>3, <1>9, <1>10
  <1>15. \A e \in Endpoints : e \in S \/ server'[e] = server[e]
    BY <1>5
  <1>16. /\ UNCHANGED <<table, failed, cached, dirty, filter, filterMode, loadingAll, page, size,
                        debounce, macs>>
         /\ server' \in Rows /\ rows' = OutdateRows(rows, L) /\ cache' = OutdateRows(cache, L)
    BY <1>a, <1>3
  <1> QED BY <1>11, <1>12, <1>13, <1>14, <1>15, <1>16, ServerChanges

\* Every step of the backend.
LEMMA ServedTruly == ASSUME IInv, IInv', TruthInv, Serve PROVE TruthInv'
  <1> PICK c \in calls : ~c.served /\ (ServeRead(c) \/ ServeWrite(c))
    BY DEF Serve
  <1>1. UNCHANGED <<screen, cached, dirty, filter, filterMode, loadingAll, page, size, total,
                    debounce, macs>>
    BY DEF Serve
  <1> QED BY <1>1, Reading, Writing

-----------------------------------------------------------------------------
(* Users, timers and events *)

\* Rows and lists stay, and what is asked for has nothing to tell yet.
ListsKept ==
    /\ UNCHANGED <<server, rows, cache, cached, filterMode, loadingAll>>
    /\ calls \subseteq calls'
    /\ \A x \in calls' : x \in calls \/ (~x.served /\ In(x.got) = {} /\ ~Full(x))
    /\ debounce' \/ (filter' = filter /\ debounce' = debounce) \/ ~filterMode

\* Then nothing is said of them that was not before.
LEMMA ListsStay ==
    ASSUME TruthInv, ListsKept
    PROVE  AnswersOK' /\ MemoryOK' /\ ListOK'
  <1>a. /\ AnswersOK /\ MemoryOK /\ ListOK /\ UNCHANGED <<server, rows, cache, cached, filterMode, loadingAll>>
        /\ calls \subseteq calls'
        /\ \A x \in calls' : x \in calls \/ (~x.served /\ In(x.got) = {} /\ ~Full(x))
    BY DEF TruthInv, ListsKept
  <1>1. AnswersOK'
    BY <1>a, AnswersStay
  <1>2. MemoryOK'
    <2> PICK c : c = [op |-> "none"]
      OBVIOUS
    <2>1. c.op \in {"load", "all", "none"} /\ c.op # "load"
      OBVIOUS
    <2>2. \A e : GoesOn(c, e)
      BY <2>1, TellsNothing
    <2>3. calls \ {c} \subseteq calls'
      BY <1>a
    <2> QED BY <1>a, <2>1, <2>2, <2>3, MemoryStays
  <1>3. ListOK'
    BY <1>a DEF ListsKept, ListOK, Complete, In, needsFilterMode
  <1> QED BY <1>1, <1>2, <1>3

\* Ticks, inputs and requests: the rows on screen stay there.
LEMMA ScreenInPlace ==
    ASSUME IInv, TruthInv, ListsKept, UNCHANGED <<size, failed, macs>>, In(table') = In(table),
           page' = page \/ debounce',
           \A e \in In(table) :
             \/ /\ table'[e].active = table[e].active
                /\ e \notin dirty' => table'[e] = table[e] /\ e \notin dirty
             \/ table'[e] = [rows[e].vals EXCEPT !.active = table[e].active]
             \/ rows[e] = Gone
    PROVE  TruthInv'
  <1>1. ScreenOK /\ FilterOK /\ rows' = rows /\ filterMode' = filterMode
    BY DEF TruthInv, ListsKept
  <1>2. SameRows
    BY <1>1 DEF SameRows
  <1>3. /\ Reloading => Reloading'
        /\ Deletion => Deletion'
        /\ \A e : Saving(e) => Saving(e)'
    BY DEF ListsKept, Reloading, Deletion, Saving, Saves
  <1>4. ScreenOK'
    <2>1. ASSUME NEW e \in In(table), RowShown(e) PROVE RowShown(e)'
      <3>1. CASE table'[e] = [rows[e].vals EXCEPT !.active = table[e].active]
        <4>1. rows[e].vals \in Values
          BY <2>1, RowFields DEF RowShown, IInv, RowsOK, Rows, In
        <4>2. ASSUME table[e].active = rows[e].vals.active PROVE table'[e] = rows[e].vals
          BY <3>1, <4>1, <4>2 DEF Values
        <4> QED BY <1>1, <1>3, <2>1, <4>2 DEF RowShown
      <3>2. CASE /\ table'[e].active = table[e].active
                 /\ e \notin dirty' => table'[e] = table[e] /\ e \notin dirty
        BY <1>1, <1>3, <2>1, <3>2 DEF RowShown
      <3>3. rows[e] # Gone
        BY <2>1 DEF RowShown
      <3> QED BY <3>1, <3>2, <3>3
    <2>2. In(table)' = In(table)
      BY DEF In
    <2> QED BY <1>1, <1>3, <2>1, <2>2 DEF ScreenOK
  <1>5. FilterOK'
    <2>1. CASE debounce' \/ ~filterMode
      BY <1>1, <2>1 DEF FilterOK
    <2>2. CASE filter' = filter /\ debounce' = debounce /\ page' = page
      <3>1. debounce => debounce'
        BY <2>2
      <3> QED BY <1>1, <1>2, <1>3, <2>2, <3>1, FilterStays
    <2> QED BY <2>1, <2>2 DEF ListsKept
  <1> QED BY <1>4, <1>5, ListsStay DEF TruthInv

\* Rows drawn anew from the same lists.
LEMMA Redrawn ==
    ASSUME IInv, TruthInv, ListsKept, NEW p, NEW n, applyFilter(p, n),
           filter' = filter \/ ~filterMode'
    PROVE  TruthInv'
  <1>1. TableOK /\ rows' \in Rows
    BY DEF IInv, RowsOK, ListsKept
  <1> QED BY <1>1, ListsStay, FilteredShows DEF TruthInv

\* A load gives up the lists; its answer will draw the rows.
LEMMA LoadedAnew ==
    ASSUME TruthInv, server' = server, NEW silent, NEW p, load(silent, p)
    PROVE  TruthInv'
  <1> PICK d : d = [Ask("load", {}) EXCEPT !.page = p, !.size = size']
    OBVIOUS
  <1>1. d.op = "load" /\ ~d.served /\ In(d.got) = {} /\ ~Full(d)
    BY AskedCall DEF Ops, Reads, Fields, Full
  <1>2. /\ calls' = calls \cup {d} /\ filterMode' = FALSE /\ cached' = FALSE /\ cache' = NoRows
        /\ UNCHANGED <<rows, loadingAll>>
    BY DEF load
  <1>3. AnswersOK'
    BY <1>1, <1>2, AnswersStay DEF TruthInv
  <1>4. Reloading'
    BY <1>1, <1>2 DEF Reloading
  <1>5. MemoryOK'
    <2> PICK c : c = [op |-> "none"]
      OBVIOUS
    <2>1. c.op \in {"load", "all", "none"} /\ c.op # "load"
      OBVIOUS
    <2>2. \A e : GoesOn(c, e)
      BY <2>1, TellsNothing
    <2>3. calls \ {c} \subseteq calls' /\ \A e \in Endpoints : cache'[e] = Gone
      BY <1>2, EmptyComplete
    <2> QED BY <1>2, <2>1, <2>2, <2>3, MemoryStays DEF TruthInv
  <1> QED BY <1>2, <1>3, <1>4, <1>5 DEF TruthInv, ListOK, ScreenOK, FilterOK

\* An edit marks the row.
LEMMA EditedTruly ==
    ASSUME IInv, TruthInv, NEW S, NEW f \in {"text", "guest"}, NEW v \in BOOLEAN, Edit(S, f, v)
    PROVE  TruthInv'
  <1>1. ListsKept /\ UNCHANGED <<page, size, failed, macs>>
    BY DEF Edit, ListsKept, list
  <1>2. \A e \in S : e \in Endpoints /\ table[e] \in Values
    BY DEF Edit, IInv, TableOK, In, Shown
  <1>3. ASSUME NEW x \in Values PROVE [x EXCEPT ![f] = v] # Gone
    <2>1. [x EXCEPT ![f] = v] \in Values
      BY DEF Values
    <2> QED BY <2>1, TableAssumption DEF Values
  <1>4. \A e \in Endpoints : /\ e \in S => table'[e] # Gone
                             /\ e \notin S => table'[e] = table[e]
    BY <1>2, <1>3 DEF Edit
  <1>5. In(table') = In(table)
    BY <1>4 DEF Edit, In
  <1>6. ASSUME NEW e \in In(table)
        PROVE  /\ table'[e].active = table[e].active
               /\ e \notin dirty' => table'[e] = table[e] /\ e \notin dirty
    <2>1. CASE e \in S
      BY <1>2, <2>1 DEF Edit, Values
    <2>2. CASE e \notin S
      BY <1>4, <2>2 DEF Edit, In
    <2> QED BY <2>1, <2>2
  <1> QED BY <1>1, <1>5, <1>6, ScreenInPlace

\* An undo puts back the values in memory.
LEMMA UndoneTruly == ASSUME IInv, TruthInv, Undo PROVE TruthInv'
  <1> DEFINE S == dirty \cap In(rows) \cap In(table)
  <1>1. ListsKept /\ UNCHANGED <<page, size, failed, macs>>
    BY DEF Undo, ListsKept, list
  <1>2. \A e \in Endpoints :
          /\ e \in S => table'[e] = [rows[e].vals EXCEPT !.active = table[e].active]
          /\ e \notin S => table'[e] = table[e]
    BY DEF Undo
  <1>3. ASSUME NEW e \in S
        PROVE  [rows[e].vals EXCEPT !.active = table[e].active] # Gone /\ table[e] # Gone
    <2>1. rows[e] \in Row /\ table[e] \in Values
      BY DEF IInv, RowsOK, Rows, TableOK, Shown, In
    <2>2. [rows[e].vals EXCEPT !.active = table[e].active] \in Values
      BY <2>1 DEF Row, Values
    <2> QED BY <2>1, <2>2, TableAssumption DEF Values
  <1>4. In(table') = In(table)
    <2>1. \A e \in Endpoints : table'[e] # Gone <=> table[e] # Gone
      <3> HIDE DEF S
      <3> QED BY <1>2, <1>3
    <2> QED BY <2>1 DEF In
  <1>5. \A e \in In(table) :
          \/ table'[e] = table[e] /\ e \notin dirty
          \/ table'[e] = [rows[e].vals EXCEPT !.active = table[e].active]
          \/ rows[e] = Gone
    BY <1>2 DEF In
  <1> QED BY <1>1, <1>4, <1>5, ScreenInPlace

\* The table does not change, and more may have been asked.
LEMMA MoreAsked ==
    ASSUME IInv, TruthInv, UNCHANGED <<server, screen, list, filter, size, debounce, macs, dirty>>,
           calls \subseteq calls',
           \A x \in calls' : x \in calls \/ (~x.served /\ In(x.got) = {} /\ ~Full(x))
    PROVE  TruthInv'
  <1>1. UNCHANGED <<server, rows, cache, cached, filterMode, loadingAll, page, table, failed>>
    BY DEF screen, list
  <1>2. ListsKept
    BY <1>1 DEF ListsKept
  <1>3. In(table') = In(table) /\ \A e \in In(table) : table'[e] = table[e] /\ (e \notin dirty' => e \notin dirty)
    BY <1>1
  <1> QED BY <1>1, <1>2, <1>3, ScreenInPlace

\* onFilterChange enters filter mode, leaves it, or filters what is there.
LEMMA FilterTimed == ASSUME IInv, TruthInv, FilterTimer PROVE TruthInv'
  <1>1. UNCHANGED <<server, filter>>
    BY DEF FilterTimer
  <1>2. CASE needsFilterMode
    <2>1. enterFilterMode(rows, calls, "filter", total)
      BY <1>2 DEF FilterTimer
    <2> PICK c : c = [op |-> "none"]
      OBVIOUS
    <2>2. c.op \in {"load", "none"} /\ calls \subseteq calls /\ calls \ {c} \subseteq calls
      OBVIOUS
    <2>3. \A e \in Endpoints : rows[e] = rows[e] /\ c.op = "none"
      OBVIOUS
    <2>4. "filter" \in {"load", "filter"}
      OBVIOUS
    <2> DEFINE r == rows
               C == calls
    <2>5. /\ enterFilterMode(r, C, "filter", total)
          /\ C \subseteq calls /\ calls \ {c} \subseteq C
          /\ \A e \in Endpoints : r[e] = rows[e] /\ c.op = "none"
      BY <2>1, <2>2, <2>3
    <2> HIDE DEF r, C
    <2> QED BY <1>1, <2>2, <2>4, <2>5, Entered
  <1>3. CASE ~needsFilterMode /\ filterMode
    BY <1>1, <1>3, LoadedAnew DEF FilterTimer
  <1>4. CASE ~needsFilterMode /\ ~filterMode
    <2>1. ListsKept /\ applyFilter(page, total)
      BY <1>4 DEF FilterTimer, ListsKept
    <2> QED BY <1>1, <2>1, Redrawn
  <1> QED BY <1>2, <1>3, <1>4

\* Clearing the filters gives up the full list.
LEMMA FilterCleared == ASSUME IInv, TruthInv, FilterClear PROVE TruthInv'
  <1>1. CASE filterMode
    BY <1>1, LoadedAnew DEF FilterClear
  <1>2. CASE ~filterMode
    <2>1. /\ UNCHANGED <<server, rows, filterMode, loadingAll, dirty, calls>> /\ cache' = NoRows
          /\ cached' = FALSE /\ applyFilter(page, total)
      BY <1>2 DEF FilterClear
    <2>a. ~filterMode'
      BY <1>2, <2>1
    <2>2. AnswersOK'
      BY <2>1, AnswersStay DEF TruthInv
    <2>3. MemoryOK'
      <3> PICK c : c = [op |-> "none"]
        OBVIOUS
      <3>1. c.op \in {"load", "all", "none"} /\ c.op # "load"
        OBVIOUS
      <3>2. \A e : GoesOn(c, e)
        BY <3>1, TellsNothing
      <3>3. calls \ {c} \subseteq calls' /\ \A e \in Endpoints : cache'[e] = Gone
        BY <2>1, EmptyComplete
      <3> QED BY <2>1, <3>1, <3>2, <3>3, MemoryStays DEF TruthInv
    <2>4. ListOK'
      BY <2>1, <2>a DEF ListOK
    <2>5. TableOK /\ rows' \in Rows
      BY <2>1 DEF IInv, RowsOK
    <2> QED BY <2>1, <2>a, <2>2, <2>3, <2>4, <2>5, FilteredShows DEF TruthInv
  <1> QED BY <1>1, <1>2

\* Turning a page draws it, or loads it.
LEMMA WentTruly == ASSUME IInv, TruthInv, NEW p, NEW s, Goto(p, s) PROVE TruthInv'
  <1>1. CASE filterMode
    <2>1. ListsKept /\ applyFilter(p, total) /\ filter' = filter
      BY <1>1 DEF Goto, ListsKept
    <2> QED BY <2>1, Redrawn
  <1>2. CASE ~filterMode
    BY <1>2, LoadedAnew DEF Goto
  <1> QED BY <1>1, <1>2

\* Every step keeps what holds at every moment,
LEMMA TrueSteps == ASSUME IInv, IInv', TruthInv, [Next]_vars PROVE TruthInv'
  <1>1. CASE Serve
    BY <1>1, ServedTruly
  <1>2. CASE Handle
    BY <1>2, HandledTruly
  <1>3. CASE Redraw
    <2>1. ListsKept /\ applyFilter(page, total) /\ filter' = filter
      BY <1>3 DEF Redraw, ListsKept
    <2> QED BY <2>1, Redrawn
  <1>4. CASE FilterTimer
    BY <1>4, FilterTimed
  <1>5. CASE ReloadTimer
    <2>1. CASE dirty = {}
      BY <1>5, <2>1, LoadedAnew DEF ReloadTimer
    <2>2. CASE dirty # {}
      <3>1. UNCHANGED <<server, screen, list, filter, size, debounce, macs, dirty, calls>>
        BY <1>5, <2>2 DEF ReloadTimer
      <3> QED BY <3>1, MoreAsked
    <2> QED BY <2>1, <2>2
  <1>6. ASSUME NEW e \in Endpoints, OtherWrite(e) PROVE TruthInv'
    BY <1>6, OthersWrite
  <1>7. ASSUME NEW e \in Endpoints, EditRow(e) PROVE TruthInv'
    <2>1. PICK f \in {"text", "guest"} : table[e] # Gone /\ Edit({e}, f, ~table[e][f])
      BY <1>7 DEF EditRow
    <2>2. table[e] \in Values
      BY <2>1 DEF IInv, TableOK, Shown
    <2>3. (~table[e][f]) \in BOOLEAN
      BY <2>2 DEF Values
    <2> QED BY <2>1, <2>3, EditedTruly
  <1>8. ASSUME NEW e \in Endpoints, Tick(e) PROVE TruthInv'
    <2>1. /\ ListsKept /\ UNCHANGED <<page, size, failed, macs, table, dirty>>
      BY <1>8 DEF Tick, ListsKept, list
    <2>2. In(table') = In(table)
      BY <2>1
    <2> QED BY <2>1, <2>2, ScreenInPlace
  <1>9. CASE BulkEdit
    BY <1>9, EditedTruly DEF BulkEdit
  <1>10. CASE Undo
    BY <1>10, UndoneTruly
  <1>11. ASSUME NEW ids, Save(ids) PROVE TruthInv'
    <2> PICK did : did = {}
      OBVIOUS
    <2> PICK c : c = Ask("save", {})
      OBVIOUS
    <2>1. calls' = SaveNext(c, ids, did, calls)
      BY <1>11 DEF Save
    <2> DEFINE C == calls
               S == calls'
    <2>2. S = SaveNext(c, ids, did, C)
      BY <2>1
    <2> HIDE DEF C, S
    <2>3. /\ C \subseteq S
          /\ \A x \in S : x \in C \/ (~x.served /\ In(x.got) = {} /\ x.op \in {"save", "fresh"})
      BY <2>2, LoopGoesOn
    <2>4. /\ calls \subseteq calls'
          /\ \A x \in calls' : x \in calls \/ (~x.served /\ In(x.got) = {} /\ ~Full(x))
      BY <2>3 DEF C, S, Full
    <2>5. UNCHANGED <<server, screen, list, filter, size, debounce, macs, dirty>>
      BY <1>11 DEF Save
    <2> QED BY <2>4, <2>5, MoreAsked
  <1>12. ASSUME NEW o \in Ops \ (Reads \cup {"save"}), Bulk(o) PROVE TruthInv'
    <2> PICK d : d = [Ask(o, checked \ {First(checked)}) EXCEPT !.id = First(checked)]
      OBVIOUS
    <2> PICK f : f = Ask(o, checked)
      OBVIOUS
    <2>1. d.op = o /\ ~d.served /\ In(d.got) = {}
      BY AskedCall DEF Fields
    <2>2. f.op = o /\ ~f.served /\ In(f.got) = {}
      BY AskedCall
    <2>3. calls \subseteq calls' /\ \A x \in calls' : x \in calls \/ x = d \/ x = f
      BY <1>12 DEF Bulk
    <2>4. \A x \in calls' : x \in calls \/ (~x.served /\ In(x.got) = {} /\ ~Full(x))
      BY <2>1, <2>2, <2>3 DEF Full, Reads
    <2>5. UNCHANGED <<server, screen, list, filter, size, debounce, macs, dirty>>
      BY <1>12 DEF Bulk
    <2> QED BY <2>3, <2>4, <2>5, MoreAsked
  <1>13. CASE PagePrev \/ PageNext \/ PageSize
    BY <1>13, WentTruly DEF PagePrev, PageNext, PageSize
  <1>14. CASE Refresh
    BY <1>14, LoadedAnew DEF Refresh
  <1>15. ASSUME NEW S, FilterInput(S) PROVE TruthInv'
    <2>1. ListsKept /\ UNCHANGED <<page, size, failed, macs, table, dirty>>
      BY <1>15 DEF FilterInput, ListsKept, list, screen
    <2>2. In(table') = In(table)
      BY <2>1
    <2> QED BY <2>1, <2>2, ScreenInPlace
  <1>16. CASE FilterClear
    BY <1>16, FilterCleared
  <1>17. CASE Export
    <2> PICK d : d = [Ask("all", {}) EXCEPT !.then = "export"]
      OBVIOUS
    <2>1. ~d.served /\ In(d.got) = {} /\ d.then = "export"
      BY AskedCall DEF Ops, Reads, Fields
    <2>2. calls' = calls \cup {d}
      BY <1>17 DEF Export
    <2>3. \A x \in calls' : x \in calls \/ (~x.served /\ In(x.got) = {} /\ ~Full(x))
      BY <2>1, <2>2 DEF Full
    <2>4. UNCHANGED <<server, screen, list, filter, size, debounce, macs, dirty>>
      BY <1>17 DEF Export
    <2> QED BY <2>2, <2>3, <2>4, MoreAsked
  <1>18. CASE EndpointEvent
    <2>1. UNCHANGED <<server, screen, list, filter, size, debounce, macs, dirty, calls>>
      BY <1>18 DEF EndpointEvent
    <2> QED BY <2>1, MoreAsked
  <1>19. CASE UNCHANGED vars
    <2>1. UNCHANGED <<server, screen, list, filter, size, debounce, macs, dirty, calls>>
      BY <1>19 DEF vars, screen, list
    <2> QED BY <2>1, MoreAsked
  <1>20. CASE DecommChip
    <2>1. /\ ListsKept /\ debounce' = TRUE
          /\ UNCHANGED <<size, failed, macs, table, dirty>>
      BY <1>20 DEF DecommChip, ListsKept, screen
    <2>2. In(table') = In(table)
      BY <2>1
    <2> QED BY <2>1, <2>2, ScreenInPlace
  <1> QED
    BY <1>1, <1>2, <1>3, <1>4, <1>5, <1>6, <1>7, <1>8, <1>9, <1>10, <1>11, <1>12, <1>13, <1>14,
       <1>15, <1>16, <1>17, <1>18, <1>19, <1>20 DEF Next

\* the load that is out at the start makes it hold,
LEMMA TrueStart == Init => TruthInv
  <1> SUFFICES ASSUME Init PROVE TruthInv
    OBVIOUS
  <1> PICK d : d = Ask("load", {})
    OBVIOUS
  <1>1. d.op = "load" /\ ~d.served /\ In(d.got) = {}
    BY AskedCall DEF Ops, Reads
  <1>2. calls = {d} /\ ~filterMode /\ ~cached /\ rows = NoRows /\ cache = NoRows
    BY DEF Init
  <1>3. Reloading
    BY <1>1, <1>2 DEF Reloading
  <1>4. AnswersOK
    BY <1>1, <1>2 DEF AnswersOK, OneFull, Full, AnswerOK
  <1>5. \A e \in In(server) : ~server[e].old /\ ~server[e].switched
    BY DEF Init, In
  <1>6. MemoryOK
    BY <1>2, <1>5, EmptyComplete DEF MemoryOK, RowTrue
  <1> QED BY <1>2, <1>3, <1>4, <1>6 DEF TruthInv, ListOK, ScreenOK, FilterOK

\* and so it does.
LEMMA TruthIsKept == Spec => [](IInv /\ TruthInv)
  <1>1. Init => IInv /\ TruthInv
    BY Starts, TrueStart
  <1>2. (IInv /\ TruthInv) /\ [Next]_vars => (IInv /\ TruthInv)'
    BY Steps, TrueSteps
  <1> QED BY <1>1, <1>2, PTL DEF Spec

\* Once everything is answered, a row without unsaved edits has the status the backend
\* has and shows what the backend holds, unless it was changed by others or its report
\* was lost (browse-table.js: load, refreshRows, renderRows; browse-bulk.js: the bulk
\* operations); after a bulk change of its status this is said of all but the badge
\* and the authorization that the backend changed with it. For any number of endpoints
\* and of requests that overlap.
THEOREM TableIsTrue == Spec => []TableTellsTruth
  <1>1. IInv /\ TruthInv => TableTellsTruth
    <2> SUFFICES ASSUME IInv, TruthInv, Quiet, NEW e \in In(table) \ dirty
                 PROVE  /\ rows[e] # Gone
                        /\ \/ rows[e].old
                           \/ /\ server[e] # Gone /\ rows[e].decomm = server[e].decomm
                              /\ server[e].decomm => filterMode
                              /\ ShowsTruth(e)
      BY DEF TableTellsTruth
    <2>1. calls = {} /\ ~macs
      BY DEF Quiet
    <2>2. ~Reloading /\ ~Deletion /\ ~Saving(e) /\ ~Switching(e) /\ ~Deleting(e)
      BY <2>1 DEF Reloading, Deletion, Saving, Switching, Deleting
    <2>3. RowShown(e)
      BY <2>1, <2>2 DEF TruthInv, ScreenOK
    <2>4. RowTrue(rows[e], e, Reloading)
      BY DEF TruthInv, MemoryOK, In
    <2>5. ASSUME ~rows[e].old
          PROVE  /\ server[e] # Gone /\ rows[e].decomm = server[e].decomm
                 /\ server[e].decomm => filterMode
                 /\ table[e] = rows[e].vals
                 /\ rows[e].switched => Settled(server[e])
                 /\ \/ rows[e].vals = server[e].vals
                    \/ Agrees(rows[e].vals, server[e].vals) /\ rows[e].switched
      BY <2>2, <2>3, <2>4, <2>5 DEF RowShown, RowTrue
    <2>6. ASSUME ~rows[e].old PROVE ShowsTruth(e)
      BY <2>5, <2>6 DEF ShowsTruth, Agrees, Settled
    <2> QED BY <2>3, <2>5, <2>6 DEF RowShown
  <1> QED BY <1>1, TruthIsKept, PTL

\* In filter mode, once everything is answered, the page shows what passes the
\* filter of all endpoints the backend has, not of a page of them (browse-filter.js:
\* enterFilterMode, applyFilter), for any number of endpoints and page sizes.
THEOREM FilterIsComplete == Spec => []FilterFindsAll
  <1>1. IInv /\ TruthInv => FilterFindsAll
    <2> SUFFICES ASSUME IInv, TruthInv, Quiet, filterMode, needsFilterMode, ~failed,
                        \A e \in In(rows) : ~rows[e].old
                 PROVE  In(table) = Slice(applyFiltersToRows(server), page, size)
      BY DEF FilterFindsAll
    <2>1. calls = {} /\ ~macs /\ ~debounce
      BY DEF Quiet
    <2>2. ~Reloading /\ ~Deletion
      BY <2>1 DEF Reloading, Deletion
    <2>3. In(table) = Slice(applyFiltersToRows(rows), page, size)
      BY <2>1, <2>2 DEF TruthInv, FilterOK
    <2>4. Complete(rows)
      BY <2>1 DEF TruthInv, ListOK
    <2>5. ASSUME NEW e \in Endpoints
          PROVE  /\ rows[e] = Gone <=> server[e] = Gone
                 /\ rows[e] # Gone => rows[e].decomm = server[e].decomm
      <3>1. ~Saving(e) /\ ~Switching(e) /\ ~Deleting(e)
        BY <2>1 DEF Saving, Switching, Deleting
      <3>2. RowTrue(rows[e], e, Reloading)
        BY DEF TruthInv, MemoryOK
      <3> QED BY <2>4, <3>1, <3>2 DEF RowTrue, Complete, In
    <2>6. applyFiltersToRows(rows) = applyFiltersToRows(server)
      BY <2>5 DEF applyFiltersToRows, In
    <2> QED BY <2>3, <2>6
  <1> QED BY <1>1, TruthIsKept, PTL

-----------------------------------------------------------------------------
(* The tree: the layout that was made is the one that is kept.             *)
(*                                                                         *)
(* It is what was last written into the signature; what is on its way to   *)
(* the preferences is it, if nothing newer waits for the timer (Bound);    *)
(* and what is saved twice is saved the same, so that a tree opened again  *)
(* from the preferences does not save a layout of its own (LayoutsSaved).  *)

\* The layouts out to be saved.
Puts == {c \in treeCalls : c.op = "put"}

\* Every layout that is on its way to the preferences, or there, is one that was saved.
LayoutsSaved ==
    /\ Seeded(stored) = Saved(Seeded(stored))
    /\ timer # <<>> => timer[1] = Saved(timer[1])
    /\ \A c \in Puts : c.layout = Saved(c.layout)

\* If nothing waits for the timer, l is what the preferences will be.
Bound(l) == timer = <<>> => /\ \A c \in Puts : c.layout = l
                            /\ Puts = {} => Seeded(stored) = l

\* What holds of the layout at every moment.
TreeInv ==
    /\ \A c \in treeCalls : "op" \in DOMAIN c
    /\ LayoutsSaved
    /\ sig = <<currentLayout>>
    /\ ~lapsed => timer \in {<<>>, sig} /\ Bound(currentLayout)

\* Saving removes the empty entries, and a second time nothing.
LEMMA SavedTwice == ASSUME NEW l PROVE Saved(Saved(l)) = Saved(l)
  <1> DEFINE kept(f, none) == [p \in {q \in DOMAIN f : f[q] # none} |-> f[p]]
  <1>1. ASSUME NEW f, NEW none PROVE kept(kept(f, none), none) = kept(f, none)
    OBVIOUS
  <1>2. \A x : Saved(x) = [groupBy |-> x.groupBy, branchDim |-> x.branchDim,
                           merges |-> kept(x.merges, <<>>), hidden |-> kept(x.hidden, {})]
    BY DEF Saved
  <1> HIDE DEF kept
  <1> QED BY <1>1, <1>2

\* An action that renders the tree and otherwise leaves the saving alone.
LEMMA Rendered ==
    ASSUME TreeInv, persistLayoutIfChanged, UNCHANGED <<stored, lapsed>>,
           \A c \in treeCalls' : "op" \in DOMAIN c,
           Puts' = Puts
    PROVE  TreeInv'
  <1>1. currentLayout' = Saved(currentLayout')
    BY SavedTwice DEF currentLayout
  <1>2. CASE sig = <<currentLayout'>>
    <2>1. UNCHANGED <<sig, timer>> /\ currentLayout' = currentLayout
      BY <1>2 DEF persistLayoutIfChanged, TreeInv
    <2> QED BY <2>1 DEF TreeInv, LayoutsSaved, Bound
  <1>3. CASE sig # <<currentLayout'>>
    <2>1. sig' = <<currentLayout'>> /\ timer' = <<currentLayout'>>
      BY <1>3 DEF persistLayoutIfChanged
    <2>2. timer'[1] = currentLayout'
      BY <2>1
    <2>3. timer' # <<>>
      BY <2>1
    <2> HIDE DEF Puts
    <2> QED BY <1>1, <2>1, <2>2, <2>3 DEF TreeInv, LayoutsSaved, Bound
  <1> QED BY <1>2, <1>3

\* An action that leaves the layout and its saving alone.
LEMMA SavingKept ==
    ASSUME TreeInv, UNCHANGED <<layoutVars, sig, timer, stored, lapsed>>,
           \A c \in treeCalls' : "op" \in DOMAIN c, Puts' = Puts
    PROVE  TreeInv'
  <1>1. currentLayout' = currentLayout
    BY DEF layoutVars, currentLayout
  <1> HIDE DEF Puts
  <1> QED BY <1>1 DEF TreeInv, LayoutsSaved, Bound

\* The requests that are no saves come and go.
LEMMA OthersCome ==
    ASSUME TreeInv, NEW D, NEW E, treeCalls' = (treeCalls \ D) \cup E,
           \A c \in D \cup E : "op" \in DOMAIN c /\ c.op # "put"
    PROVE  Puts' = Puts /\ \A c \in treeCalls' : "op" \in DOMAIN c
  BY DEF Puts, TreeInv

\* The timer sends what waited for it (SaveTimer),
LEMMA Timed == ASSUME TreeInv, SaveTimer PROVE TreeInv'
  <1> DEFINE d == [op |-> "put", layout |-> timer[1]]
  <1>1. treeCalls' = treeCalls \cup {d} /\ "op" \in DOMAIN d /\ d.op = "put" /\ d.layout = timer[1]
    BY DEF SaveTimer
  <1> HIDE DEF d
  <1>2. Puts' = Puts \cup {d} /\ \A c \in treeCalls' : "op" \in DOMAIN c
    BY <1>1 DEF Puts, TreeInv
  <1>3. /\ timer # <<>> /\ timer' = <<>> /\ stored' = stored /\ sig' = sig
        /\ currentLayout' = currentLayout /\ (~lapsed' => ~lapsed /\ Puts = {})
    BY DEF SaveTimer, layoutVars, currentLayout, Puts
  <1>4. ~lapsed => timer[1] = currentLayout
    BY <1>3 DEF TreeInv
  <1> QED BY <1>1, <1>2, <1>3, <1>4 DEF TreeInv, LayoutsSaved, Bound

\* the preferences take it or not (LayoutStored),
LEMMA Stored == ASSUME TreeInv, NEW c \in Puts, LayoutStored(c) PROVE TreeInv'
  <1>1. Puts' = Puts \ {c} /\ \A x \in treeCalls' : "op" \in DOMAIN x
    BY DEF LayoutStored, Puts, TreeInv
  <1>2. timer' = timer /\ sig' = sig /\ currentLayout' = currentLayout
    BY DEF LayoutStored, renderVars, layoutVars, currentLayout
  <1>3. CASE stored' = <<c.layout>> /\ lapsed' = lapsed
    <2>1. Seeded(stored') = c.layout
      BY <1>3 DEF Seeded
    <2> QED BY <1>1, <1>2, <1>3, <2>1 DEF TreeInv, LayoutsSaved, Bound
  <1>4. CASE lapsed' = TRUE /\ stored' = stored
    BY <1>1, <1>2, <1>4 DEF TreeInv, LayoutsSaved, Bound
  <1> QED BY <1>3, <1>4 DEF LayoutStored

\* and a view opened again starts from them (Reopen).
LEMMA Reopened == ASSUME TreeInv, Reopen PROVE TreeInv'
  <1> PICK read \in BOOLEAN :
        LET l == IF read THEN Seeded(stored) ELSE DefaultLayout IN
        /\ groupBy' = l.groupBy /\ branchDim' = l.branchDim
        /\ merges' = l.merges /\ hidden' = l.hidden /\ sig' = <<l>>
        /\ lapsed' = (lapsed \/ ~read \/ timer # <<>> \/ \E c \in treeCalls : c.op = "put")
    BY DEF Reopen
  <1> DEFINE l == IF read THEN Seeded(stored) ELSE DefaultLayout
  <1>1. DefaultLayout = Saved(DefaultLayout)
    BY DEF DefaultLayout, Saved, Empty
  <1>2. l = Saved(l)
    BY <1>1 DEF TreeInv, LayoutsSaved
  <1>3. currentLayout' = l
    <2>1. currentLayout' = Saved([groupBy |-> l.groupBy, branchDim |-> l.branchDim,
                                  merges |-> l.merges, hidden |-> l.hidden])
      BY DEF currentLayout
    <2>2. @ = Saved(l)
      BY DEF Saved
    <2> QED BY <2>1, <2>2, <1>2
  <1>4. sig' = <<l>> /\ timer' = timer /\ stored' = stored
    BY DEF Reopen
  <1>5. Puts' = Puts /\ \A c \in treeCalls' : "op" \in DOMAIN c
    BY DEF Reopen, Puts, TreeInv
  <1>6. ~lapsed' => ~lapsed /\ read /\ timer = <<>> /\ Puts = {} /\ l = Seeded(stored)
    BY DEF Puts
  <1> HIDE DEF l, Puts
  <1> QED BY <1>3, <1>4, <1>5, <1>6 DEF TreeInv, LayoutsSaved, Bound

\* Every step keeps the layout and its saving together.
LEMMA TreeSteps == ASSUME TreeInv, [TreeNext]_treeVars PROVE TreeInv'
  <1>0. ASSUME treeCalls' = treeCalls PROVE Puts' = Puts /\ \A c \in treeCalls' : "op" \in DOMAIN c
    BY <1>0 DEF Puts, TreeInv
  \* What only looks at the tree, or drags.
  <1>1. ASSUME NEW sel, UNCHANGED <<stored, treeCalls, lapsed>>, renderTree(sel) PROVE TreeInv'
    BY <1>0, <1>1, Rendered DEF renderTree
  <1>2. ASSUME UNCHANGED <<layoutVars, renderVars, stored, treeCalls, lapsed>> PROVE TreeInv'
    BY <1>0, <1>2, SavingKept DEF renderVars
  <1>3. ASSUME NEW d, AddDim(d) \/ DelDim(d) PROVE TreeInv'
    BY <1>1, <1>3 DEF AddDim, DelDim, Layout
  <1>4. ASSUME NEW p, HideBranch(p) \/ ToggleBranch(p) \/ SelectBranch(p) PROVE TreeInv'
    BY <1>1, <1>4 DEF HideBranch, ToggleBranch, SelectBranch, Layout, Look
  <1>5. ASSUME NEW p, DropMerge(p) PROVE TreeInv'
    BY <1>1, <1>5 DEF DropMerge
  <1>6. ASSUME NEW p, DropOnGroup(p) PROVE TreeInv'
    <2> DEFINE d == [op |-> "move", ids |-> drag[1].ids, to |-> GroupOf(p)]
    <2>1. treeCalls' = (treeCalls \ {}) \cup {d} /\ "op" \in DOMAIN d /\ d.op # "put"
      BY <1>6 DEF DropOnGroup
    <2> HIDE DEF d
    <2>2. Puts' = Puts /\ \A c \in treeCalls' : "op" \in DOMAIN c
      BY <2>1 DEF Puts, TreeInv
    <2> QED BY <1>6, <2>2, SavingKept DEF DropOnGroup, renderVars
  <1>7. ASSUME NEW p, NEW d, SetDim(p, d) PROVE TreeInv'
    BY <1>1, <1>7 DEF SetDim, Layout
  <1>8. ASSUME NEW e, SelectLeaf(e) PROVE TreeInv'
    BY <1>1, <1>8 DEF SelectLeaf, Look
  <1>9. CASE ResetView \/ ExpandAll \/ CollapseAll
    BY <1>1, <1>9 DEF ResetView, ExpandAll, CollapseAll, Layout, Look
  <1>10. CASE DragStart \/ DragEnd
    BY <1>2, <1>10 DEF DragStart, DragEnd
  <1>11. CASE SaveTimer
    BY <1>11, Timed
  <1>12. CASE Reopen
    BY <1>12, Reopened
  <1>13. ASSUME NEW e, ChangedInIse(e) PROVE TreeInv'
    <2> DEFINE d == [op |-> "load"]
    <2>1. treeCalls' = (treeCalls \ {}) \cup {d} /\ "op" \in DOMAIN d /\ d.op # "put"
      BY <1>13 DEF ChangedInIse
    <2> HIDE DEF d
    <2>2. Puts' = Puts /\ \A c \in treeCalls' : "op" \in DOMAIN c
      BY <2>1 DEF Puts, TreeInv
    <2> QED BY <1>13, <2>2, SavingKept DEF ChangedInIse, renderVars
  <1>14. ASSUME NEW c \in treeCalls, c.op = "move", MoveAnswered(c) PROVE TreeInv'
    <2>1. PICK e \in c.ids :
            treeCalls' = (treeCalls \ {c}) \cup
                       {IF c.ids = {e} THEN [op |-> "load"] ELSE [c EXCEPT !.ids = @ \ {e}]}
      BY <1>14 DEF MoveAnswered
    <2> DEFINE d == IF c.ids = {e} THEN [op |-> "load"] ELSE [c EXCEPT !.ids = @ \ {e}]
    <2>2. "op" \in DOMAIN c
      BY DEF TreeInv
    <2>3. "op" \in DOMAIN d /\ d.op # "put"
      BY <1>14, <2>2
    <2>4. treeCalls' = (treeCalls \ {c}) \cup {d}
      BY <2>1
    <2> HIDE DEF d
    <2>5. Puts' = Puts /\ \A x \in treeCalls' : "op" \in DOMAIN x
      BY <1>14, <2>2, <2>3, <2>4 DEF Puts, TreeInv
    <2> QED BY <1>14, <2>5, SavingKept DEF MoveAnswered, renderVars
  <1>15. ASSUME NEW c \in treeCalls, c.op = "load", Loaded(c) PROVE TreeInv'
    <2>1. treeCalls' = (treeCalls \ {c}) \cup {} /\ "op" \in DOMAIN c
      BY <1>15 DEF Loaded, TreeInv
    <2>2. Puts' = Puts /\ \A x \in treeCalls' : "op" \in DOMAIN x
      BY <1>15, <2>1 DEF Puts, TreeInv
    <2> QED BY <1>15, <2>2, Rendered DEF Loaded, renderTree
  <1>16. ASSUME NEW c \in treeCalls, c.op = "put", LayoutStored(c) PROVE TreeInv'
    BY <1>16, Stored DEF Puts
  <1>17. CASE UNCHANGED treeVars
    BY <1>2, <1>17 DEF treeVars
  <1> QED
    BY <1>3, <1>4, <1>5, <1>6, <1>7, <1>8, <1>9, <1>10, <1>11, <1>12, <1>13, <1>14, <1>15,
       <1>16, <1>17 DEF TreeNext, TreeClick, TreeAnswer

\* The tree starts with the layout of the preferences.
LEMMA TreeStarts == ASSUME TreeInit PROVE TreeInv
  <1>1. Seeded(stored) = Saved(Seeded(stored))
    BY TreeAssumption DEF TreeInit, Seeded, DefaultLayout, Saved, Empty
  <1>2. currentLayout = Seeded(stored)
    <2> DEFINE l == Seeded(stored)
    <2>1. currentLayout = Saved([groupBy |-> l.groupBy, branchDim |-> l.branchDim,
                                 merges |-> l.merges, hidden |-> l.hidden])
      BY DEF TreeInit, initTreeState, currentLayout
    <2>2. @ = Saved(l)
      BY DEF Saved
    <2> QED BY <2>1, <2>2, <1>1
  <1> QED BY <1>1, <1>2 DEF TreeInit, TreeInv, LayoutsSaved, Bound, Puts

\* Once no save waits or is out, the preferences hold the layout on screen, unless a
\* save failed or met another (browse-tree.js: currentLayout, persistLayoutIfChanged),
\* for any dimensions, values and depth of merges.
THEOREM LayoutIsKept == TreeSpec => []LayoutKept
  <1>1. TreeInv => LayoutKept
    BY DEF TreeInv, Bound, Puts, LayoutKept
  <1>2. TreeSpec => []TreeInv
    BY TreeStarts, TreeSteps, PTL DEF TreeSpec
  <1> QED BY <1>1, <1>2, PTL

-----------------------------------------------------------------------------
(* Induction for the tree: the natural numbers, recursive functions and    *)
(* folds, each stated for a set, since the theorems of the library are     *)
(* about an operator.                                                      *)

\* Induction over the natural numbers, for a set.
LEMMA NaturalsIn ==
    ASSUME NEW A, 0 \in A, \A n \in Nat : n \in A => n + 1 \in A
    PROVE  Nat \subseteq A
  <1> SUFFICES ASSUME Nat \ A # {} PROVE FALSE
    OBVIOUS
  <1> DEFINE R == OpToRel(<, Nat)
  <1>1. R = {ss \in Nat \X Nat : ss[1] < ss[2]}
    BY DEF OpToRel
  <1> HIDE DEF R
  <1>2. PICK x \in Nat \ A : \A y \in Nat \ A : <<y, x>> \notin R
    <2>1. IsWellFoundedOn(R, Nat)
      BY NatLessThanWellFounded DEF R
    <2>2. Nat \ A \subseteq Nat
      OBVIOUS
    <2> QED BY <2>1, <2>2, WFMin
  <1>3. x # 0 /\ x - 1 \in Nat /\ x - 1 < x
    BY <1>2
  <1>4. x - 1 \notin A
    BY <1>2, <1>3
  <1>5. <<x - 1, x>> \in R
    BY <1>1, <1>3
  <1> QED BY <1>2, <1>3, <1>4, <1>5

\* Up to a bound.
LEMMA UpTo ==
    ASSUME NEW A, NEW top \in Nat, 0 \in A, \A n \in 0..(top - 1) : n \in A => n + 1 \in A
    PROVE  0..top \subseteq A
  <1> DEFINE B == {n \in Nat : n \in A \/ n > top}
  <1>1. 0 \in B
    OBVIOUS
  <1>2. \A n \in Nat : n \in B => n + 1 \in B
    OBVIOUS
  <1>3. Nat \subseteq B
    <2> HIDE DEF B
    <2> QED BY <1>1, <1>2, NaturalsIn
  <1> QED BY <1>3

\* What a recursion makes of its steps, over numbers or over sets of them.
StepsIn(S, top, step) == \A n \in 1..top : \A x \in S : step[<<n, x>>] \in S

\* f counts up by step from b, in S.
Counts(f, S, b, top, step) ==
    /\ f \in [0..top -> S]
    /\ \A n \in 0..top : f[n] = IF n = 0 THEN b ELSE step[<<n, f[n - 1]>>]

\* f folds step over the subsets of an interval, greatest member first.
Folds(f, S, b, top, step) ==
    /\ f \in [SUBSET (1..top) -> S]
    /\ \A s \in SUBSET (1..top) :
          f[s] = IF s = {} THEN b ELSE step[<<Max(s), f[s \ {Max(s)}]>>]

\* A recursive function on an interval exists.
LEMMA Recursion ==
    ASSUME NEW S, NEW b \in S, NEW top \in Nat, NEW step, StepsIn(S, top, step)
    PROVE  \E f : Counts(f, S, b, top, step)
  <1>0. \A n \in 1..top : \A x \in S : step[<<n, x>>] \in S
    BY DEF StepsIn
  <1> DEFINE Fits(m, f) == \A n \in 0..m : f[n] = IF n = 0 THEN b ELSE step[<<n, f[n - 1]>>]
             A == {m \in 0..top : \E f \in [0..m -> S] : Fits(m, f)}
  <1>1. 0 \in A
    <2>1. PICK f : f = [n \in 0..0 |-> b]
      OBVIOUS
    <2>2. f \in [0..0 -> S] /\ Fits(0, f)
      BY <2>1
    <2> QED BY <2>2
  <1>2. ASSUME NEW m \in 0..(top - 1), m \in A
        PROVE  m + 1 \in A
    <2>1. PICK f \in [0..m -> S] : Fits(m, f)
      BY <1>2
    <2>2. step[<<m + 1, f[m]>>] \in S
      BY <1>0, <2>1
    <2>3. PICK g : g = [n \in 0..(m + 1) |-> IF n = m + 1 THEN step[<<m + 1, f[m]>>] ELSE f[n]]
      OBVIOUS
    <2>4. g \in [0..(m + 1) -> S]
      BY <2>2, <2>3
    <2>5. \A n \in 0..m : g[n] = f[n]
      BY <2>3
    <2>6. g[m + 1] = step[<<m + 1, g[m]>>]
      <3>1. m + 1 \in 0..(m + 1) /\ m \in 0..m
        OBVIOUS
      <3> QED BY <3>1, <2>3, <2>5
    <2>7. ASSUME NEW n \in 0..(m + 1) PROVE g[n] = IF n = 0 THEN b ELSE step[<<n, g[n - 1]>>]
      <3>1. CASE n = m + 1
        <4>1. n # 0 /\ n - 1 = m
          BY <3>1
        <4> QED BY <4>1, <3>1, <2>6
      <3>2. CASE n \in 1..m
        <4>1. n - 1 \in 0..m /\ n \in 0..m /\ n # 0
          BY <3>2
        <4> QED BY <4>1, <2>1, <2>5
      <3>3. CASE n = 0
        <4>1. n \in 0..m
          BY <3>3
        <4> QED BY <4>1, <3>3, <2>1, <2>5
      <3> QED BY <3>1, <3>2, <3>3
    <2> QED BY <2>4, <2>7
  <1>3. top \in A
    <2> HIDE DEF A
    <2> QED BY <1>1, <1>2, UpTo
  <1>4. PICK f \in [0..top -> S] : Fits(top, f)
    BY <1>3
  <1> QED BY <1>4 DEF Counts

\* The greatest member.
LEMMA MaxIs ==
    ASSUME NEW s \in SUBSET Int, NEW m \in s, \A y \in s : y <= m
    PROVE  Max(s) = m
  <1>1. \A x \in s : (\A y \in s : x >= y) <=> x = m
    OBVIOUS
  <1>2. Max(s) = CHOOSE x \in s : x = m
    BY <1>1 DEF Max
  <1> QED BY <1>2

\* A set of numbers has one.
LEMMA MaxIn ==
    ASSUME NEW top \in Nat, NEW s \in SUBSET (1..top), s # {}
    PROVE  Max(s) \in s
  <1> DEFINE A == {m \in 0..top : \A t \in SUBSET (1..m) : t # {} =>
               \E x \in t : \A y \in t : x >= y}
  <1>1. 0 \in A
    <2>1. (\A t \in SUBSET (1..0) : t = {}) /\ 0 \in 0..top
      OBVIOUS
    <2> QED BY <2>1
  <1>2. ASSUME NEW m \in 0..(top - 1), m \in A PROVE m + 1 \in A
    <2> SUFFICES ASSUME NEW t \in SUBSET (1..(m + 1)), t # {}
                 PROVE  \E x \in t : \A y \in t : x >= y
      OBVIOUS
    <2>1. CASE m + 1 \in t
      BY <2>1
    <2>2. CASE m + 1 \notin t
      <3>1. \A y \in t : y \in 1..m
        BY <2>2
      <3>2. t \in SUBSET (1..m)
        BY <3>1
      <3> QED BY <3>2, <1>2
    <2> QED BY <2>1, <2>2
  <1>3. top \in A
    <2> HIDE DEF A
    <2> QED BY <1>1, <1>2, UpTo
  <1> QED BY <1>3 DEF Max

\* The same for the folds over a sequence, whose recursion is over sets of places.
LEMMA FoldsExist ==
    ASSUME NEW S, NEW b \in S, NEW top \in Nat, NEW step, StepsIn(S, top, step)
    PROVE  \E f : Folds(f, S, b, top, step)
  <1>0. \A n \in 1..top : \A x \in S : step[<<n, x>>] \in S
    BY DEF StepsIn
  <1> DEFINE Fits(m, f) == \A s \in SUBSET (1..m) :
                             f[s] = IF s = {} THEN b ELSE step[<<Max(s), f[s \ {Max(s)}]>>]
             A == {m \in 0..top : \E f \in [SUBSET (1..m) -> S] : Fits(m, f)}
  <1>1. 0 \in A
    <2>1. PICK f : f = [s \in SUBSET (1..0) |-> b]
      OBVIOUS
    <2>2. \A s \in SUBSET (1..0) : s = {} /\ f[s] = b
      BY <2>1
    <2>3. f \in [SUBSET (1..0) -> S]
      BY <2>1
    <2>4. Fits(0, f)
      BY <2>2
    <2>5. \E h \in [SUBSET (1..0) -> S] : Fits(0, h)
      BY <2>3, <2>4
    <2>6. 0 \in 0..top
      OBVIOUS
    <2> HIDE DEF Fits
    <2> QED BY <2>5, <2>6
  <1>2. ASSUME NEW m \in 0..(top - 1), m \in A
        PROVE  m + 1 \in A
    <2>1. PICK f \in [SUBSET (1..m) -> S] : Fits(m, f)
      BY <1>2
    <2>2. PICK g : g = [s \in SUBSET (1..(m + 1)) |->
                          IF m + 1 \in s THEN step[<<m + 1, f[s \ {m + 1}]>>] ELSE f[s]]
      OBVIOUS
    <2>3. ASSUME NEW s \in SUBSET (1..(m + 1))
          PROVE  g[s] \in S /\ g[s] = IF s = {} THEN b ELSE step[<<Max(s), g[s \ {Max(s)}]>>]
      <3>1. CASE m + 1 \in s
        <4>1. s \ {m + 1} \in SUBSET (1..m) /\ m + 1 \in 1..top
          OBVIOUS
        <4>2. Max(s) = m + 1
          <5>1. s \in SUBSET Int /\ \A y \in s : y <= m + 1
            OBVIOUS
          <5> QED BY <5>1, <3>1, MaxIs
        <4>3. g[s \ {m + 1}] = f[s \ {m + 1}]
          BY <2>2, <4>1
        <4>4. step[<<m + 1, f[s \ {m + 1}]>>] \in S
          BY <1>0, <4>1
        <4> QED BY <2>2, <3>1, <4>2, <4>3, <4>4
      <3>2. CASE m + 1 \notin s
        <4>0. \A y \in s : y \in 1..m
          BY <3>2
        <4>1. s \in SUBSET (1..m) /\ s \ {Max(s)} \in SUBSET (1..m) /\ m + 1 \notin s \ {Max(s)}
          BY <4>0, <3>2
        <4>2. s \ {Max(s)} \in SUBSET (1..(m + 1))
          BY <4>1
        <4>3. g[s] = f[s] /\ g[s \ {Max(s)}] = f[s \ {Max(s)}]
          BY <2>2, <3>2, <4>1, <4>2
        <4> QED BY <2>1, <4>1, <4>3
      <3> QED BY <3>1, <3>2
    <2>4. g \in [SUBSET (1..(m + 1)) -> S]
      BY <2>2, <2>3
    <2>5. Fits(m + 1, g)
      BY <2>3
    <2>6. \E h \in [SUBSET (1..(m + 1)) -> S] : Fits(m + 1, h)
      BY <2>4, <2>5
    <2>7. m + 1 \in 0..top
      OBVIOUS
    <2> HIDE DEF Fits
    <2> QED BY <2>6, <2>7
  <1>3. top \in A
    <2> HIDE DEF A
    <2> QED BY <1>1, <1>2, UpTo
  <1>4. PICK f \in [SUBSET (1..top) -> S] : Fits(top, f)
    BY <1>3
  <1> QED BY <1>4 DEF Folds

-----

-----------------------------------------------------------------------------
(* The levels of the tree: branches, merges, and the rows below them.      *)

\* One more merge (applyMergesHidden).
Join(ks, g) == LET present == {m \in g : {m} \in ks}
               IN  IF Cardinality(present) < 2 THEN ks
                   ELSE (ks \ {{m} : m \in present}) \union {present}

\* The branches of one level before and after each merge.
Joining(base, gs, r) ==
    /\ r[0] = base
    /\ \A i \in 1..Len(gs) : r[i] = Join(r[i - 1], gs[i])

\* The branches before any merge: one for each value the rows have.
Singles(rs, p) == {{treeRows[e][effectiveDim(p)]} : e \in rs}

\* All merges of a level, one after the other (the fold of applyMergesHidden).
JoinAll(base, gs) ==
    (CHOOSE it : it = [s \in SUBSET DOMAIN gs |->
                         IF s = {} THEN base ELSE Join(it[s \ {Max(s)}], gs[Max(s)])])[DOMAIN gs]

\* That fold is a sequence of joins.
LEMMA Joined ==
    ASSUME NEW V, NEW b \in SUBSET SUBSET V, NEW gs \in Seq(SUBSET V)
    PROVE  \E r : Joining(b, gs, r) /\ JoinAll(b, gs) = r[Len(gs)]
  <1> PICK S : S = SUBSET SUBSET V
    OBVIOUS
  <1> PICK top : top = Len(gs)
    OBVIOUS
  <1> PICK step : step = [x \in (1..top) \X S |-> Join(x[2], gs[x[1]])]
    OBVIOUS
  <1> DEFINE Rec(it) == [s \in SUBSET DOMAIN gs |-> IF s = {} THEN b
                               ELSE Join(it[s \ {Max(s)}], gs[Max(s)])]
  <1>0. top \in Nat /\ DOMAIN gs = 1..top
    OBVIOUS
  <1>1. ASSUME NEW n \in 1..top, NEW x \in S
        PROVE  step[<<n, x>>] = Join(x, gs[n]) /\ Join(x, gs[n]) \in S
    <2>1. step[<<n, x>>] = Join(x, gs[n])
      OBVIOUS
    <2>2. gs[n] \in SUBSET V
      OBVIOUS
    <2>3. Join(x, gs[n]) \in S
      BY <2>2 DEF Join
    <2> QED BY <2>1, <2>3
  <1>2. PICK f \in [SUBSET (1..top) -> S] :
            \A s \in SUBSET (1..top) : f[s] = IF s = {} THEN b
              ELSE step[<<Max(s), f[s \ {Max(s)}]>>]
    <2>1. b \in S
      OBVIOUS
    <2>2. StepsIn(S, top, step)
      BY <1>1 DEF StepsIn
    <2>3. PICK f : Folds(f, S, b, top, step)
      BY <1>0, <2>1, <2>2, FoldsExist
    <2> QED BY <2>3 DEF Folds
  <1>3. f = Rec(f)
    <2>1. ASSUME NEW s \in SUBSET (1..top), s # {} PROVE step[<<Max(s),
                 f[s \ {Max(s)}]>>] = Join(f[s \ {Max(s)}], gs[Max(s)])
      <3>1. Max(s) \in 1..top
        BY <1>0, <2>1, MaxIn
      <3>2. f[s \ {Max(s)}] \in S
        <4>1. s \ {Max(s)} \in SUBSET (1..top)
          BY <2>1
        <4> QED BY <4>1
      <3> QED BY <3>1, <3>2, <1>1
    <2> QED BY <1>0, <1>2, <2>1
  <1>4. PICK it : it = (CHOOSE g : g = Rec(g))
    OBVIOUS
  <1>5. it = Rec(it)
    BY <1>3, <1>4
  <1>6. PICK r : r = [i \in 0..top |-> it[1..i]]
    OBVIOUS
  <1>7. r[0] = b
    <2>1. 1..0 = {} /\ {} \in SUBSET DOMAIN gs /\ 0 \in 0..top
      BY <1>0
    <2>2. it[{}] = b
      BY <1>5, <2>1
    <2> QED BY <1>6, <2>1, <2>2
  <1>8. ASSUME NEW i \in 1..top PROVE r[i] = Join(r[i - 1], gs[i])
    <2>1. 1..i \in SUBSET DOMAIN gs /\ i \in 1..i /\ (1..i) \ {i} = 1..(i - 1) /\ 1..i # {}
      <3>1. 1..i \in SUBSET (1..top) /\ i \in 1..i
        BY <1>0
      <3>2. (1..i) \ {i} = 1..(i - 1)
        BY <1>0
      <3> QED BY <1>0, <3>1, <3>2
    <2>2. Max(1..i) = i
      <3>1. 1..i \in SUBSET Int /\ \A y \in 1..i : y <= i
        OBVIOUS
      <3> QED BY <3>1, <2>1, MaxIs
    <2>3. it[1..i] = Join(it[1..(i - 1)], gs[i])
      BY <1>5, <2>1, <2>2
    <2>4. i \in 0..top /\ i - 1 \in 0..top
      BY <1>0
    <2> QED BY <2>3, <2>4, <1>6
  <1>9. it[DOMAIN gs] = r[top]
    BY <1>0, <1>6
  <1> QED BY <1>4, <1>7, <1>8, <1>9 DEF Joining, JoinAll

\* Merging makes keys of keys.
LEMMA JoinedKeys ==
    ASSUME NEW b \in SUBSET Keys, NEW gs \in Seq(Keys), NEW r, Joining(b, gs, r)
    PROVE  \A i \in 0..Len(gs) : r[i] \subseteq Keys
  <1> DEFINE A == {i \in 0..Len(gs) : r[i] \subseteq Keys}
  <1>1. 0 \in A
    BY DEF Joining
  <1>2. ASSUME NEW i \in 0..(Len(gs) - 1), i \in A PROVE i + 1 \in A
    <2>1. i + 1 \in 1..Len(gs) /\ r[i + 1] = Join(r[i], gs[i + 1]) /\ gs[i + 1] \in Keys
      BY DEF Joining
    <2> DEFINE present == {m \in gs[i + 1] : {m} \in r[i]}
    <2>2. ~(Cardinality(present) < 2) => present \in Keys
      <3>1. Cardinality({}) = 0
        BY FS_EmptySet
      <3>2. present \subseteq TreeValues
        BY <2>1 DEF Keys
      <3> HIDE DEF present
      <3>3. ~(Cardinality(present) < 2) => present # {}
        BY <3>1
      <3> QED BY <3>2, <3>3 DEF Keys
    <2>3. r[i + 1] \subseteq r[i] \union {present}
            /\ (Cardinality(present) < 2 => r[i + 1] = r[i])
      BY <2>1 DEF Join
    <2>4. i + 1 \in 0..Len(gs) /\ r[i] \subseteq Keys
      BY <1>2
    <2> HIDE DEF present
    <2> QED BY <2>2, <2>3, <2>4
  <1>3. 0..Len(gs) \subseteq A
    <2>1. Len(gs) \in Nat
      OBVIOUS
    <2> HIDE DEF A
    <2> QED BY <1>1, <1>2, <2>1, UpTo
  <1> QED BY <1>3

\* The layout on screen.
TheLayout == [groupBy |-> groupBy, branchDim |-> branchDim, merges |-> merges, hidden |-> hidden]

\* What is known of it.
LEMMA LayoutTypes ==
    ASSUME TreeTypeOK
    PROVE  /\ groupBy \in Seq(Dims)
           /\ DOMAIN branchDim \subseteq TreePaths
                /\ \A p \in DOMAIN branchDim : branchDim[p] \in Dims \union {""}
           /\ DOMAIN hidden \subseteq TreePaths
                /\ \A p \in DOMAIN hidden : hidden[p] \subseteq Keys
           /\ DOMAIN merges \subseteq TreePaths /\ IsFiniteSet(DOMAIN merges)
           /\ \A p \in DOMAIN merges : merges[p] \in Seq({g \in Keys : \E x, y \in g : x # y})
           /\ \A p \in DOMAIN merges : merges[p] \in Seq(Keys)
  <1>1. IsLayout(TheLayout)
    BY DEF TreeTypeOK, TheLayout
  <1>2. ASSUME NEW p \in DOMAIN merges PROVE merges[p] \in Seq(Keys)
    <2>1. merges[p] \in Seq({g \in Keys : \E x, y \in g : x # y})
      BY <1>1 DEF IsLayout, TheLayout
    <2> QED BY <2>1, SeqMonotonic
  <1> QED BY <1>1, <1>2 DEF IsLayout, TheLayout

\* A level is split by a dimension, or not at all.
LEMMA DimTypes ==
    ASSUME TreeTypeOK, NEW p \in TreePaths
    PROVE  effectiveDim(p) \in Dims \union {""}
  <1>1. Len(p) \in Nat
    BY DEF TreePaths
  <1>2. Len(p) < Len(groupBy) => groupBy[Len(p) + 1] \in Dims
    <2>1. groupBy \in Seq(Dims)
      BY LayoutTypes
    <2> QED BY <1>1, <2>1, ElementOfSeq
  <1> QED BY <1>2, LayoutTypes DEF effectiveDim, At

\* The branches of a level are what merging makes of the single values (applyMergesHidden).
BranchesIs ==
    \A rs, p : Branches(rs, p) = IF effectiveDim(p) = "" THEN {}
                                ELSE JoinAll(Singles(rs, p), At(merges, p, <<>>))
                                  \ At(hidden, p, {})

\* The fold in applyMergesHidden is JoinAll.
LEMMA BranchesAre == BranchesIs
  <1> SUFFICES ASSUME NEW rs, NEW p
               PROVE  applyMergesHidden(rs, p)
                        = JoinAll(Singles(rs, p), At(merges, p, <<>>)) \ At(hidden, p, {})
    BY DEF BranchesIs, Branches
  <1> QED BY DEF applyMergesHidden, FoldLeft, MapThenFoldSet, Singles, Join, JoinAll

\* Its arguments are branches and merges.
LEMMA SingleKeys ==
    ASSUME TreeTypeOK, NEW rs \in SUBSET DOMAIN treeRows, NEW p \in TreePaths,
           effectiveDim(p) # ""
    PROVE  Singles(rs, p) \subseteq Keys /\ At(merges, p, <<>>) \in Seq(Keys)
  <1>1. At(merges, p, <<>>) \in Seq(Keys)
    BY LayoutTypes, EmptySeq DEF At
  <1>2. effectiveDim(p) \in Dims
    BY DimTypes
  <1>3. \A e \in rs : treeRows[e][effectiveDim(p)] \in TreeValues
    BY <1>2 DEF TreeTypeOK
  <1>4. ASSUME NEW x \in TreeValues PROVE {x} \in Keys
    BY DEF Keys
  <1> QED BY <1>1, <1>3, <1>4 DEF Singles

\* Its result is a set of branches.
LEMMA JoinedTypes ==
    ASSUME NEW b \in SUBSET Keys, NEW gs \in Seq(Keys)
    PROVE  \E r : Joining(b, gs, r) /\ JoinAll(b, gs) = r[Len(gs)] /\ r[Len(gs)] \subseteq Keys
  <1>1. gs \in Seq(SUBSET TreeValues) /\ b \in SUBSET SUBSET TreeValues
    <2>1. Keys \subseteq SUBSET TreeValues
      BY DEF Keys
    <2> QED BY <2>1, SeqMonotonic
  <1>2. PICK r : Joining(b, gs, r) /\ JoinAll(b, gs) = r[Len(gs)]
    BY <1>1, Joined
  <1>3. Len(gs) \in 0..Len(gs)
    OBVIOUS
  <1> QED BY <1>2, <1>3, JoinedKeys

\* So are the branches below a path.
LEMMA BranchTypes ==
    ASSUME TreeTypeOK, NEW rs \in SUBSET DOMAIN treeRows, NEW p \in TreePaths
    PROVE  Branches(rs, p) \subseteq Keys
  <1>1. CASE effectiveDim(p) = ""
    BY <1>1, BranchesAre DEF BranchesIs
  <1>2. CASE effectiveDim(p) # ""
    <2>1. PICK b, gs : b = Singles(rs, p) /\ gs = At(merges, p, <<>>)
      OBVIOUS
    <2>2. b \in SUBSET Keys /\ gs \in Seq(Keys)
      BY <1>2, <2>1, SingleKeys
    <2>3. JoinAll(b, gs) \subseteq Keys
      BY <2>2, JoinedTypes
    <2> QED BY <1>2, <2>1, <2>3, BranchesAre DEF BranchesIs
  <1> QED BY <1>1, <1>2

\* The start of a path, and of the start of one.
LEMMA Starts1 ==
    ASSUME NEW p \in TreePaths, NEW m \in 0..Len(p)
    PROVE  /\ SubSeq(p, 1, m) \in TreePaths /\ Len(SubSeq(p, 1, m)) = m
           /\ \A i \in 1..m : SubSeq(p, 1, m)[i] = p[i]
           /\ \A i \in 0..m : SubSeq(SubSeq(p, 1, m), 1, i) = SubSeq(p, 1, i)
           /\ SubSeq(p, 1, Len(p)) = p
  <1>1. Len(p) \in Nat /\ \A i \in 1..m : p[i] \in Keys
    BY DEF TreePaths
  <1>2. /\ SubSeq(p, 1, m) \in Seq(Keys) /\ Len(SubSeq(p, 1, m)) = m
        /\ \A i \in 1..m : SubSeq(p, 1, m)[i] = p[i]
    BY <1>1, SubSeqProperties
  <1>3. ASSUME NEW i \in 0..m PROVE SubSeq(SubSeq(p, 1, m), 1, i) = SubSeq(p, 1, i)
    <2>1. /\ SubSeq(p, 1, i) \in Seq(Keys) /\ Len(SubSeq(p, 1, i)) = i
          /\ \A j \in 1..i : SubSeq(p, 1, i)[j] = p[j]
      BY <1>1, SubSeqProperties
    <2>2. /\ SubSeq(SubSeq(p, 1, m), 1, i) \in Seq(Keys) /\ Len(SubSeq(SubSeq(p, 1, m), 1, i)) = i
          /\ \A j \in 1..i : SubSeq(SubSeq(p, 1, m), 1, i)[j] = SubSeq(p, 1, m)[j]
      BY <1>1, <1>2, SubSeqProperties
    <2>3. \A j \in 1..i : SubSeq(SubSeq(p, 1, m), 1, i)[j] = SubSeq(p, 1, i)[j]
      BY <1>2, <2>1, <2>2
    <2> QED BY <2>1, <2>2, <2>3, SeqEqual
  <1>4. SubSeq(p, 1, Len(p)) = p
    BY SubSeqFull DEF TreePaths
  <1> QED BY <1>2, <1>3, <1>4 DEF TreePaths

\* The rows of one more branch (Under).
Narrow(rs, p, n) ==
    LET q == SubSeq(p, 1, n - 1)
    IN  IF p[n] \in Branches(rs, q) THEN {e \in rs : treeRows[e][effectiveDim(q)] \in p[n]}
      ELSE {}

\* The rows at each level down to p.
Narrows(u, p) ==
    /\ u \in [0..Len(p) -> SUBSET DOMAIN treeRows] /\ u[0] = DOMAIN treeRows
    /\ \A n \in 1..Len(p) : u[n] = Narrow(u[n - 1], p, n)

\* Under is the last of them.
LEMMA UnderNarrows ==
    ASSUME NEW p \in TreePaths
    PROVE  \E u : Narrows(u, p) /\ Under(p) = u[Len(p)]
  <1> DEFINE Rec(u) == [n \in 0..Len(p) |-> IF n = 0 THEN DOMAIN treeRows
               ELSE Narrow(u[n - 1], p, n)]
  <1>1. Under(p) = (CHOOSE u : u = Rec(u))[Len(p)]
    BY DEF Under, Narrow
  <1>2. PICK S : S = SUBSET DOMAIN treeRows
    OBVIOUS
  <1>3. PICK step : step = [x \in (1..Len(p)) \X S |-> Narrow(x[2], p, x[1])]
    OBVIOUS
  <1>4. ASSUME NEW n \in 1..Len(p), NEW x \in S
        PROVE  step[<<n, x>>] = Narrow(x, p, n) /\ Narrow(x, p, n) \in S
    <2>1. Narrow(x, p, n) \subseteq x
      BY DEF Narrow
    <2> QED BY <1>2, <1>3, <2>1
  <1>5. StepsIn(S, Len(p), step)
    BY <1>4 DEF StepsIn
  <1>6. Len(p) \in Nat
    BY DEF TreePaths
  <1>7. PICK f : Counts(f, S, DOMAIN treeRows, Len(p), step)
    BY <1>2, <1>5, <1>6, Recursion
  <1>8. ASSUME NEW n \in 0..Len(p)
        PROVE  f[n] = IF n = 0 THEN DOMAIN treeRows ELSE Narrow(f[n - 1], p, n)
    <2>1. CASE n = 0
      BY <2>1, <1>7 DEF Counts
    <2>2. CASE n # 0
      <3>1. n \in 1..Len(p) /\ n - 1 \in 0..Len(p)
        BY <2>2, <1>6
      <3>2. f[n - 1] \in S
        BY <3>1, <1>7 DEF Counts
      <3> QED BY <2>2, <3>1, <3>2, <1>4, <1>7 DEF Counts
    <2> QED BY <2>1, <2>2
  <1>9. f = Rec(f)
    BY <1>7, <1>8 DEF Counts
  <1>10. PICK u : u = (CHOOSE g : g = Rec(g))
    OBVIOUS
  <1>11. u = Rec(u)
    BY <1>9, <1>10
  <1>12. \A n \in 0..Len(p) : u[n] = f[n]
    <2> DEFINE A == {n \in 0..Len(p) : u[n] = f[n]}
    <2>1. 0 \in A
      BY <1>6, <1>8, <1>11
    <2>2. ASSUME NEW n \in 0..(Len(p) - 1), n \in A PROVE n + 1 \in A
      <3>1. n + 1 \in 0..Len(p) /\ n + 1 # 0 /\ (n + 1) - 1 = n
        BY <1>6
      <3>2. u[n + 1] = Narrow(u[n], p, n + 1)
        BY <3>1, <1>11
      <3>3. f[n + 1] = Narrow(f[n], p, n + 1)
        BY <3>1, <1>8
      <3> QED BY <2>2, <3>1, <3>2, <3>3
    <2>3. 0..Len(p) \subseteq A
      <3> HIDE DEF A
      <3> QED BY <1>6, <2>1, <2>2, UpTo
    <2> QED BY <2>3
  <1>13. u \in [0..Len(p) -> SUBSET DOMAIN treeRows]
    <2>1. \A n \in 0..Len(p) : u[n] \in S
      BY <1>7, <1>12 DEF Counts
    <2> QED BY <1>2, <1>11, <2>1
  <1>14. Narrows(u, p)
    <2>1. 0 \in 0..Len(p) /\ \A n \in 1..Len(p) : n \in 0..Len(p) /\ n # 0
      BY <1>6
    <2> QED BY <1>11, <1>13, <2>1 DEF Narrows
  <1> QED BY <1>1, <1>10, <1>14

\* The rows of the start of a path are on the way to its own.
LEMMA UnderStart ==
    ASSUME NEW p \in TreePaths, NEW u, Narrows(u, p), NEW m \in 0..Len(p)
    PROVE  Under(SubSeq(p, 1, m)) = u[m]
  <1> PICK q : q = SubSeq(p, 1, m)
    OBVIOUS
  <1>1. /\ q \in TreePaths /\ Len(q) = m /\ \A i \in 1..m : q[i] = p[i]
        /\ \A i \in 0..m : SubSeq(q, 1, i) = SubSeq(p, 1, i)
    BY Starts1
  <1>2. PICK v : Narrows(v, q) /\ Under(q) = v[m]
    BY <1>1, UnderNarrows
  <1> DEFINE A == {n \in 0..m : v[n] = u[n]}
  <1>3. 0 \in A
    BY <1>2 DEF Narrows
  <1>4. ASSUME NEW n \in 0..(m - 1), n \in A PROVE n + 1 \in A
    <2>1. n + 1 \in 1..m /\ n + 1 \in 1..Len(p) /\ (n + 1) - 1 = n
      BY DEF TreePaths
    <2>2. v[n + 1] = Narrow(v[n], q, n + 1) /\ u[n + 1] = Narrow(u[n], p, n + 1)
      BY <1>1, <1>2, <2>1 DEF Narrows
    <2>3. q[n + 1] = p[n + 1] /\ SubSeq(q, 1, n) = SubSeq(p, 1, n)
      BY <1>1, <2>1
    <2>4. Narrow(v[n], q, n + 1) = Narrow(v[n], p, n + 1)
      BY <2>1, <2>3 DEF Narrow
    <2> QED BY <1>4, <2>1, <2>2, <2>4
  <1>5. 0..m \subseteq A
    <2>1. m \in Nat
      BY DEF TreePaths
    <2> HIDE DEF A
    <2> QED BY <1>3, <1>4, <2>1, UpTo
  <1>6. m \in 0..m
    BY DEF TreePaths
  <1> QED BY <1>2, <1>5, <1>6

\* The rows of the branches, one from the other.
UnderIs ==
    /\ Under(<<>>) = DOMAIN treeRows
    /\ \A p \in TreePaths :
         /\ Under(p) \subseteq DOMAIN treeRows
         /\ \A n \in 1..Len(p) : Under(SubSeq(p, 1, n)) = Narrow(Under(SubSeq(p, 1, n - 1)), p, n)

\* Under, level by level.
LEMMA UnderAre == UnderIs
  <1>1. Under(<<>>) = DOMAIN treeRows
    <2>1. <<>> \in TreePaths /\ Len(<<>>) = 0
      BY EmptySeq DEF TreePaths
    <2> QED BY <2>1, UnderNarrows DEF Narrows
  <1>2. ASSUME NEW p \in TreePaths
        PROVE  /\ Under(p) \subseteq DOMAIN treeRows
               /\ \A n \in 1..Len(p) : Under(SubSeq(p, 1, n))
                    = Narrow(Under(SubSeq(p, 1, n - 1)), p, n)
    <2>1. PICK u : Narrows(u, p) /\ Under(p) = u[Len(p)]
      BY UnderNarrows
    <2>2. Len(p) \in Nat /\ Len(p) \in 0..Len(p)
      BY DEF TreePaths
    <2>3. Under(p) \subseteq DOMAIN treeRows
      BY <2>1, <2>2 DEF Narrows
    <2>4. ASSUME NEW n \in 1..Len(p)
          PROVE  Under(SubSeq(p, 1, n)) = Narrow(Under(SubSeq(p, 1, n - 1)), p, n)
      <3>1. n \in 0..Len(p) /\ n - 1 \in 0..Len(p)
        BY <2>2
      <3>2. Under(SubSeq(p, 1, n)) = u[n] /\ Under(SubSeq(p, 1, n - 1)) = u[n - 1]
        BY <2>1, <3>1, UnderStart
      <3> QED BY <2>1, <3>2 DEF Narrows
    <2> QED BY <2>3, <2>4
  <1> QED BY <1>1, <1>2 DEF UnderIs

\* A path every branch of which is there (collectPaths).
Stands(x) == \A n \in 1..Len(x) :
  x[n] \in Branches(Under(SubSeq(x, 1, n - 1)), SubSeq(x, 1, n - 1))

\* The paths of the tree are those whose steps are branches.
PathsAre ==
    \A x : x \in collectPaths <=> x \in TreePaths /\ Len(x) \in 1..MaxDepth /\ Stands(x)

\* That is what collectPaths collects, down to the greatest depth.
LEMMA PathsAreThese == TreeTypeOK => PathsAre
  <1> SUFFICES ASSUME TreeTypeOK PROVE PathsAre
    OBVIOUS
  <1>0. MaxDepth \in Nat
    BY TreeAssumption
  <1> DEFINE Next1(P) == UNION {{Append(p, k) : k \in Branches(Under(p), p)} : p \in P}
             Rec(l) == [n \in 0..MaxDepth |-> IF n = 0 THEN {<<>>} ELSE Next1(l[n - 1])]
  <1>1. collectPaths = LET l == CHOOSE l : l = Rec(l) IN UNION {l[n] : n \in 1..MaxDepth}
    BY DEF collectPaths
  <1>2. ASSUME NEW p \in TreePaths, NEW k \in Branches(Under(p), p)
        PROVE  /\ Append(p, k) \in TreePaths /\ Len(Append(p, k)) = Len(p) + 1
               /\ Append(p, k)[Len(p) + 1] = k /\ SubSeq(Append(p, k), 1, Len(p)) = p
               /\ \A i \in 1..Len(p) : Append(p, k)[i] = p[i]
    <2>1. Under(p) \in SUBSET DOMAIN treeRows
      BY UnderAre DEF UnderIs
    <2>2. k \in Keys
      BY <2>1, BranchTypes
    <2>3. /\ Append(p, k) \in Seq(Keys) /\ Len(Append(p, k)) = Len(p) + 1
          /\ Append(p, k)[Len(p) + 1] = k /\ \A i \in 1..Len(p) : Append(p, k)[i] = p[i]
      BY <2>2, AppendProperties DEF TreePaths
    <2>4. SubSeq(Append(p, k), 1, Len(p)) = p
      <3>1. Append(p, k) \in TreePaths /\ Len(p) \in 0..Len(Append(p, k)) /\ Len(p) \in Nat
              /\ p \in Seq(Keys)
        BY <2>3 DEF TreePaths
      <3>2. /\ SubSeq(Append(p, k), 1, Len(p)) \in Seq(Keys)
                 /\ Len(SubSeq(Append(p, k), 1, Len(p))) = Len(p)
            /\ \A i \in 1..Len(p) : SubSeq(Append(p, k), 1, Len(p))[i] = Append(p, k)[i]
        BY <3>1, Starts1 DEF TreePaths
      <3> QED BY <2>3, <3>1, <3>2, SeqEqual
    <2> QED BY <2>3, <2>4 DEF TreePaths
  <1>3. PICK S : S = SUBSET TreePaths
    OBVIOUS
  <1>4. PICK step : step = [x \in (1..MaxDepth) \X S |-> Next1(x[2])]
    OBVIOUS
  <1>5. ASSUME NEW n \in 1..MaxDepth, NEW P \in S
        PROVE  step[<<n, P>>] = Next1(P) /\ Next1(P) \in S
    <2>1. Next1(P) \subseteq TreePaths
      <3> SUFFICES ASSUME NEW y \in Next1(P) PROVE y \in TreePaths
        OBVIOUS
      <3>1. PICK p \in P : \E k \in Branches(Under(p), p) : y = Append(p, k)
        OBVIOUS
      <3>2. p \in TreePaths
        BY <1>3
      <3> QED BY <1>2, <3>1, <3>2
    <2>2. step[<<n, P>>] = Next1(P)
      <3> HIDE DEF Next1
      <3> QED BY <1>4
    <2> HIDE DEF Next1
    <2> QED BY <1>3, <2>1, <2>2
  <1>6. {<<>>} \in S
    <2>1. <<>> \in TreePaths
      BY EmptySeq DEF TreePaths
    <2> QED BY <1>3, <2>1
  <1> HIDE DEF Next1
  <1>7. PICK f : Counts(f, S, {<<>>}, MaxDepth, step)
    <2>1. StepsIn(S, MaxDepth, step)
      BY <1>5 DEF StepsIn
    <2> QED BY <1>0, <1>6, <2>1, Recursion
  <1>8. f = Rec(f)
    <2>1. ASSUME NEW n \in 0..MaxDepth PROVE f[n] = IF n = 0 THEN {<<>>} ELSE Next1(f[n - 1])
      <3>1. CASE n = 0
        BY <3>1, <1>7 DEF Counts
      <3>2. CASE n # 0
        <4>1. n \in 1..MaxDepth /\ n - 1 \in 0..MaxDepth
          BY <3>2, <1>0
        <4>2. f[n - 1] \in S
          BY <4>1, <1>7 DEF Counts
        <4> QED BY <3>2, <4>1, <4>2, <1>5, <1>7 DEF Counts
      <3> QED BY <3>1, <3>2
    <2> QED BY <1>7, <2>1 DEF Counts
  <1>9. PICK l : l = CHOOSE g : g = Rec(g)
    OBVIOUS
  <1>10. l = Rec(l)
    BY <1>8, <1>9
  <1> DEFINE Level(n) == {x \in TreePaths : Len(x) = n /\ Stands(x)}
             A == {n \in 0..MaxDepth : l[n] = Level(n)}
  <1>11. 0 \in A
    <2>1. l[0] = {<<>>} /\ 0 \in 0..MaxDepth
      BY <1>0, <1>10
    <2>2. \A x \in TreePaths : Len(x) = 0 <=> x = <<>>
      BY DEF TreePaths
    <2>3. <<>> \in TreePaths
      BY EmptySeq DEF TreePaths
    <2>4. \A x \in TreePaths : Len(x) = 0 => Stands(x)
      BY DEF Stands
    <2> QED BY <2>1, <2>2, <2>3, <2>4
  <1>12. ASSUME NEW n \in 0..(MaxDepth - 1), n \in A PROVE n + 1 \in A
    <2>1. n + 1 \in 0..MaxDepth /\ n + 1 # 0 /\ (n + 1) - 1 = n
      BY <1>0
    <2>2. l[n + 1] = Next1(Level(n))
      BY <1>10, <1>12, <2>1
    <2>3. ASSUME NEW x \in Level(n + 1) PROVE x \in Next1(Level(n))
      <3>1. x \in TreePaths /\ Len(x) = n + 1 /\ Stands(x)
        OBVIOUS
      <3>2. PICK p : p = SubSeq(x, 1, n)
        OBVIOUS
      <3>3. /\ p \in TreePaths /\ Len(p) = n /\ \A i \in 1..n : p[i] = x[i]
            /\ \A i \in 0..n : SubSeq(p, 1, i) = SubSeq(x, 1, i)
        <4>1. n \in 0..Len(x)
          BY <3>1
        <4> QED BY <3>1, <3>2, <4>1, Starts1
      <3>4. Stands(p)
        <4>1. \A i \in 1..n : i \in 1..Len(x) /\ i - 1 \in 0..n
          BY <3>1
        <4> QED BY <3>1, <3>3, <4>1 DEF Stands
      <3>5. x[n + 1] \in Branches(Under(p), p)
        <4>1. n + 1 \in 1..Len(x)
          BY <3>1
        <4> QED BY <2>1, <3>1, <3>2, <4>1 DEF Stands
      <3>6. x = Append(p, x[n + 1])
        <4>1. PICK y : y = Append(p, x[n + 1])
          OBVIOUS
        <4>2. y \in TreePaths /\ Len(y) = n + 1 /\ y[n + 1] = x[n + 1]
                /\ \A i \in 1..n : y[i] = p[i]
          BY <1>2, <3>3, <3>5, <4>1
        <4>3. \A i \in 1..(n + 1) : y[i] = x[i]
          BY <3>3, <4>2
        <4>4. y \in Seq(Keys) /\ x \in Seq(Keys)
          BY <3>1, <4>2 DEF TreePaths
        <4> QED BY <3>1, <4>1, <4>2, <4>3, <4>4, SeqEqual
      <3> QED BY <3>3, <3>4, <3>5, <3>6 DEF Next1
    <2>4. ASSUME NEW x \in Next1(Level(n)) PROVE x \in Level(n + 1)
      <3>0. PICK p \in Level(n) : \E k \in Branches(Under(p), p) : x = Append(p, k)
        BY DEF Next1
      <3>1. PICK k \in Branches(Under(p), p) : x = Append(p, k)
        BY <3>0
      <3>2. /\ x \in TreePaths /\ Len(x) = n + 1 /\ x[n + 1] = k /\ SubSeq(x, 1, n) = p
            /\ \A i \in 1..n : x[i] = p[i]
        BY <1>2, <3>1
      <3>3. ASSUME NEW i \in 1..(n + 1)
            PROVE  x[i] \in Branches(Under(SubSeq(x, 1, i - 1)), SubSeq(x, 1, i - 1))
        <4>1. CASE i = n + 1
          <5>1. i - 1 = n
            BY <4>1
          <5> QED BY <4>1, <5>1, <3>1, <3>2
        <4>2. CASE i # n + 1
          <5>1. i \in 1..n /\ i - 1 \in 0..n /\ n \in 0..Len(x)
            BY <3>2, <4>2
          <5>2. SubSeq(p, 1, i - 1) = SubSeq(x, 1, i - 1)
            BY <3>2, <5>1, Starts1
          <5> QED BY <3>1, <3>2, <5>1, <5>2 DEF Stands
        <4> QED BY <4>1, <4>2
      <3> QED BY <3>2, <3>3 DEF Stands
    <2>5. l[n + 1] = Level(n + 1)
      <3> HIDE DEF Level
      <3> QED BY <2>2, <2>3, <2>4
    <2> HIDE DEF Level
    <2> QED BY <2>1, <2>5
  <1>13. 0..MaxDepth \subseteq A
    <2> HIDE DEF A
    <2> QED BY <1>0, <1>11, <1>12, UpTo
  <1>14. collectPaths = UNION {l[n] : n \in 1..MaxDepth}
    BY <1>1, <1>9
  <1>15. \A n \in 1..MaxDepth : l[n] = Level(n)
    BY <1>0, <1>13
  <1> QED BY <1>14, <1>15 DEF PathsAre

-----

\* Two members are not fewer than two.
LEMMA AtMostOne ==
    ASSUME NEW S, IsFiniteSet(S), NEW x \in S, NEW y \in S, x # y
    PROVE  ~(Cardinality(S) < 2)
  <1>1. Cardinality(S) \in Nat
    BY FS_CardinalityType
  <1>2. Cardinality(S) # 0
    BY FS_EmptySet
  <1>3. Cardinality(S) # 1
    BY FS_Singleton
  <1> QED BY <1>1, <1>2, <1>3

\* The single values of a level.
Alone(V) == {{v} : v \in V}

\* Whatever is merged, the branches of a level have all its values and no two have one in common.
Partition(V, K) ==
    /\ \A k \in K : k # {} /\ k \subseteq V
    /\ \A k, l \in K : k \intersect l # {} => k = l

\* A join of a partition is a partition.
LEMMA OneMore ==
    ASSUME NEW V, NEW K, Partition(V, K), NEW g
    PROVE  Partition(V, Join(K, g))
  <1> PICK present : present = {m \in g : {m} \in K}
    OBVIOUS
  <1>1. Join(K, g) = IF Cardinality(present) < 2 THEN K
          ELSE (K \ {{m} : m \in present}) \union {present}
    BY DEF Join
  <1>2. CASE Cardinality(present) < 2
    BY <1>1, <1>2
  <1>3. CASE ~(Cardinality(present) < 2)
    <2>1. present # {}
      <3>1. Cardinality({}) = 0
        BY FS_EmptySet
      <3>2. present = {} => Cardinality(present) = 0
        BY <3>1
      <3>3. (0 < 2) = TRUE
        OBVIOUS
      <3> QED BY <1>3, <3>2, <3>3
    <2>2. ASSUME NEW m \in present PROVE {m} \in K /\ m \in V
      BY <2>2 DEF Partition
    <2>3. ASSUME NEW k \in K, k \notin {{m} : m \in present}, NEW m \in present PROVE m \notin k
      <3>1. m \in k => k \intersect {m} # {}
        OBVIOUS
      <3> QED BY <2>2, <2>3, <3>1 DEF Partition
    <2>4. \A k \in Join(K, g) : k \in K \/ k = present
      BY <1>1, <1>3
    <2>5. \A k \in Join(K, g) : k # {} /\ k \subseteq V
      BY <2>1, <2>2, <2>4 DEF Partition
    <2>6. ASSUME NEW k \in Join(K, g), NEW l \in Join(K, g), k \intersect l # {} PROVE k = l
      <3>1. CASE k \in K /\ l \in K
        BY <2>6, <3>1 DEF Partition
      <3>2. CASE k = present /\ l \in K \ {{m} : m \in present}
        BY <2>3, <2>6, <3>2
      <3>3. CASE l = present /\ k \in K \ {{m} : m \in present}
        BY <2>3, <2>6, <3>3
      <3>4. \A h \in Join(K, g) : h \in K \ {{m} : m \in present} \/ h = present
        BY <1>1, <1>3
      <3> QED BY <3>1, <3>2, <3>3, <3>4
    <2> QED BY <2>5, <2>6 DEF Partition
  <1> QED BY <1>2, <1>3

\* So is every further one.
LEMMA AlwaysPartition ==
    ASSUME NEW V, NEW gs \in Seq(Keys), NEW r, Joining(Alone(V), gs, r)
    PROVE  \A i \in 0..Len(gs) : Partition(V, r[i])
  <1> DEFINE A == {i \in 0..Len(gs) : Partition(V, r[i])}
  <1>1. 0 \in A
    <2>1. r[0] = Alone(V)
      BY DEF Joining
    <2>2. Partition(V, Alone(V))
      BY DEF Partition, Alone
    <2> QED BY <2>1, <2>2
  <1>2. ASSUME NEW i \in 0..(Len(gs) - 1), i \in A PROVE i + 1 \in A
    <2>1. i + 1 \in 1..Len(gs) /\ r[i + 1] = Join(r[i], gs[i + 1])
      BY DEF Joining
    <2> QED BY <1>2, <2>1, OneMore
  <1>3. 0..Len(gs) \subseteq A
    <2>1. Len(gs) \in Nat
      OBVIOUS
    <2> HIDE DEF A
    <2> QED BY <1>1, <1>2, <2>1, UpTo
  <1> QED BY <1>3

\* A value that is in no merge so far is still by itself.
LEMMA StillAlone ==
    ASSUME NEW V, NEW gs \in Seq(Keys), NEW r, Joining(Alone(V), gs, r), NEW v \in V,
           NEW m \in 0..Len(gs), \A i \in 1..m : v \notin gs[i]
    PROVE  {v} \in r[m]
  <1> DEFINE A == {i \in 0..m : {v} \in r[i]}
  <1>0. m \in Nat
    OBVIOUS
  <1>1. 0 \in A
    BY <1>0 DEF Joining, Alone
  <1>2. ASSUME NEW i \in 0..(m - 1), i \in A PROVE i + 1 \in A
    <2>1. i + 1 \in 1..m /\ i + 1 \in 1..Len(gs) /\ r[i + 1] = Join(r[i], gs[i + 1])
      BY DEF Joining
    <2>2. v \notin gs[i + 1]
      BY <2>1
    <2>3. \A x \in gs[i + 1] : {x} # {v}
      BY <2>2
    <2>4. {v} \in Join(r[i], gs[i + 1])
      BY <1>2, <2>3 DEF Join
    <2> QED BY <1>0, <2>1, <2>4
  <1>3. 0..m \subseteq A
    <2> HIDE DEF A
    <2> QED BY <1>0, <1>1, <1>2, UpTo
  <1>4. m \in 0..m
    BY <1>0
  <1> QED BY <1>3, <1>4

\* A branch of two values or more stays.
LEMMA PairStays ==
    ASSUME NEW b, NEW gs \in Seq(Keys), NEW r, Joining(b, gs, r),
           NEW m \in 0..Len(gs), NEW k \in r[m], NEW x \in k, NEW y \in k, x # y
    PROVE  k \in r[Len(gs)]
  <1> DEFINE A == {i \in 0..Len(gs) : i >= m => k \in r[i]}
  <1>0. m \in Nat /\ Len(gs) \in Nat
    OBVIOUS
  <1>1. 0 \in A
    BY <1>0
  <1>2. ASSUME NEW i \in 0..(Len(gs) - 1), i \in A PROVE i + 1 \in A
    <2>1. i + 1 \in 1..Len(gs) /\ r[i + 1] = Join(r[i], gs[i + 1])
      BY DEF Joining
    <2>2. \A v : {v} # k
      OBVIOUS
    <2>3. k \in r[i] => k \in Join(r[i], gs[i + 1])
      BY <2>2 DEF Join
    <2>4. CASE i >= m
      BY <1>2, <2>1, <2>3, <2>4
    <2>5. CASE ~(i >= m)
      BY <1>0, <2>1, <2>5
    <2> QED BY <2>4, <2>5
  <1>3. 0..Len(gs) \subseteq A
    <2> HIDE DEF A
    <2> QED BY <1>0, <1>1, <1>2, UpTo
  <1> QED BY <1>0, <1>3

\* The values of a merge that are by themselves until then become one branch.
Together(gs, r, i) == {m \in gs[i] : {m} \in r[i - 1]}

\* What one merge joins stays one branch, whatever joins it later.
LEMMA MadeOne ==
    ASSUME NEW b, NEW gs \in Seq(Keys), NEW r, Joining(b, gs, r), NEW i \in 1..Len(gs),
           IsFiniteSet(Together(gs, r, i)),
           NEW x \in Together(gs, r, i), NEW y \in Together(gs, r, i), x # y
    PROVE  Together(gs, r, i) \in r[Len(gs)]
  <1> PICK S : S = Together(gs, r, i)
    OBVIOUS
  <1>1. r[i] = Join(r[i - 1], gs[i]) /\ i \in 0..Len(gs)
    BY DEF Joining
  <1>2. S \in r[i]
    BY <1>1, AtMostOne DEF Join, Together
  <1> QED BY <1>1, <1>2, PairStays

-----
\* One merge of the level before, taken in or left (mergeValues).
Absorb(acc, g) == IF g \intersect acc.union # {} THEN [acc EXCEPT !.union = @ \union g]
                  ELSE [acc EXCEPT !.keep = Append(@, g)]

\* A sequence of such steps.
Absorbing(base, gs, r) ==
    /\ r[0] = base
    /\ \A i \in 1..Len(gs) : r[i] = Absorb(r[i - 1], gs[i])

\* The fold in mergeValues.
AbsorbAll(base, gs) ==
    (CHOOSE it : it = [s \in SUBSET DOMAIN gs |->
                         IF s = {} THEN base ELSE Absorb(it[s \ {Max(s)}],
                           gs[Max(s)])])[DOMAIN gs]

\* That fold is a sequence of such steps.
LEMMA Absorbed ==
    ASSUME NEW T \in SUBSET Keys, NEW gs \in Seq(T),
           NEW b \in [union : SUBSET TreeValues, keep : Seq(T)]
    PROVE  \E r : Absorbing(b, gs, r) /\ AbsorbAll(b, gs) = r[Len(gs)]
  <1> PICK S : S = [union : SUBSET TreeValues, keep : Seq(T)]
    OBVIOUS
  <1> PICK top : top = Len(gs)
    OBVIOUS
  <1> PICK step : step = [x \in (1..top) \X S |-> Absorb(x[2], gs[x[1]])]
    OBVIOUS
  <1> DEFINE Rec(it) == [s \in SUBSET DOMAIN gs |-> IF s = {} THEN b
                               ELSE Absorb(it[s \ {Max(s)}], gs[Max(s)])]
  <1>0. top \in Nat /\ DOMAIN gs = 1..top
    OBVIOUS
  <1>1. ASSUME NEW n \in 1..top, NEW x \in S
        PROVE  step[<<n, x>>] = Absorb(x, gs[n]) /\ Absorb(x, gs[n]) \in S
    <2>1. step[<<n, x>>] = Absorb(x, gs[n])
      OBVIOUS
    <2>2. gs[n] \in T /\ gs[n] \in SUBSET TreeValues
      BY <1>0 DEF Keys
    <2>3. Append(x.keep, gs[n]) \in Seq(T)
      BY <2>2
    <2>4. Absorb(x, gs[n]) \in S
      BY <2>2, <2>3 DEF Absorb
    <2> QED BY <2>1, <2>4
  <1>2. PICK f \in [SUBSET (1..top) -> S] :
            \A s \in SUBSET (1..top) : f[s] = IF s = {} THEN b
              ELSE step[<<Max(s), f[s \ {Max(s)}]>>]
    <2>1. b \in S
      OBVIOUS
    <2>2. StepsIn(S, top, step)
      BY <1>1 DEF StepsIn
    <2>3. PICK f : Folds(f, S, b, top, step)
      BY <1>0, <2>1, <2>2, FoldsExist
    <2> QED BY <2>3 DEF Folds
  <1>3. f = Rec(f)
    <2>1. ASSUME NEW s \in SUBSET (1..top), s # {} PROVE step[<<Max(s),
                 f[s \ {Max(s)}]>>] = Absorb(f[s \ {Max(s)}], gs[Max(s)])
      <3>1. Max(s) \in 1..top
        BY <1>0, <2>1, MaxIn
      <3>2. f[s \ {Max(s)}] \in S
        <4>1. s \ {Max(s)} \in SUBSET (1..top)
          BY <2>1
        <4> QED BY <4>1
      <3> QED BY <3>1, <3>2, <1>1
    <2> QED BY <1>0, <1>2, <2>1
  <1>4. PICK it : it = (CHOOSE g : g = Rec(g))
    OBVIOUS
  <1>5. it = Rec(it)
    BY <1>3, <1>4
  <1>6. PICK r : r = [i \in 0..top |-> it[1..i]]
    OBVIOUS
  <1>7. r[0] = b
    <2>1. 1..0 = {} /\ {} \in SUBSET DOMAIN gs /\ 0 \in 0..top
      BY <1>0
    <2>2. it[{}] = b
      BY <1>5, <2>1
    <2> QED BY <1>6, <2>1, <2>2
  <1>8. ASSUME NEW i \in 1..top PROVE r[i] = Absorb(r[i - 1], gs[i])
    <2>1. 1..i \in SUBSET DOMAIN gs /\ i \in 1..i /\ (1..i) \ {i} = 1..(i - 1) /\ 1..i # {}
      <3>1. 1..i \in SUBSET (1..top) /\ i \in 1..i
        BY <1>0
      <3>2. (1..i) \ {i} = 1..(i - 1)
        BY <1>0
      <3> QED BY <1>0, <3>1, <3>2
    <2>2. Max(1..i) = i
      <3>1. 1..i \in SUBSET Int /\ \A y \in 1..i : y <= i
        OBVIOUS
      <3> QED BY <3>1, <2>1, MaxIs
    <2>3. it[1..i] = Absorb(it[1..(i - 1)], gs[i])
      BY <1>5, <2>1, <2>2
    <2>4. i \in 0..top /\ i - 1 \in 0..top
      BY <1>0
    <2> QED BY <2>3, <2>4, <1>6
  <1>9. it[DOMAIN gs] = r[top]
    BY <1>0, <1>6
  <1> QED BY <1>4, <1>7, <1>8, <1>9 DEF Absorbing, AbsorbAll

\* What the merge of a and b makes of the merges gs of their level: those it leaves have
\* no value of either, and, if no two of gs meet, those it takes in have one.
TakenIn(gs, a, b, i, x) == \E j \in 1..i : x \in gs[j] /\ gs[j] \intersect (a \union b) # {}

\* What is known after i merges: a and b are in the union, and in no merge that is kept.
Taking(gs, a, b, T, i, acc) ==
    /\ acc \in [union : SUBSET TreeValues, keep : Seq(T)] /\ a \union b \subseteq acc.union
    /\ \A j \in 1..Len(acc.keep) : acc.keep[j] \intersect (a \union b) = {}
    /\ Disjoint(gs) => \A x \in acc.union : x \in a \union b \/ TakenIn(gs, a, b, i, x)

\* What mergeValues makes of a list of merges.
LEMMA MergedValues ==
    ASSUME NEW T \in SUBSET Keys, NEW gs \in Seq(T), NEW a \in Keys, NEW b \in Keys
    PROVE  \E acc : /\ Taking(gs, a, b, T, Len(gs), acc)
                    /\ mergeValues(gs, a, b) = Append(acc.keep, acc.union)
  <1> PICK base : base = [union |-> a \union b, keep |-> <<>>]
    OBVIOUS
  <1>1. mergeValues(gs, a, b) = Append(AbsorbAll(base, gs).keep, AbsorbAll(base, gs).union)
    BY DEF mergeValues, FoldLeft, MapThenFoldSet, Absorb, AbsorbAll
  <1>2. base \in [union : SUBSET TreeValues, keep : Seq(T)]
    BY EmptySeq DEF Keys
  <1>3. PICK r : Absorbing(base, gs, r) /\ AbsorbAll(base, gs) = r[Len(gs)]
    BY <1>2, Absorbed
  <1> DEFINE A == {i \in 0..Len(gs) : Taking(gs, a, b, T, i, r[i])}
  <1>4. 0 \in A
    <2>1. r[0].union = a \union b /\ r[0].keep = <<>> /\ Len(<<>>) = 0
      BY <1>3 DEF Absorbing
    <2>2. \A j \in 1..Len(r[0].keep) : FALSE
      BY <2>1
    <2>3. r[0] = base /\ 0 \in 0..Len(gs)
      BY <1>3 DEF Absorbing
    <2>4. Taking(gs, a, b, T, 0, r[0])
      BY <1>2, <2>1, <2>2, <2>3 DEF Taking
    <2> QED BY <2>3, <2>4
  <1>5. ASSUME NEW i \in 0..(Len(gs) - 1), i \in A PROVE i + 1 \in A
    <2> PICK g, acc, new : g = gs[i + 1] /\ acc = r[i] /\ new = r[i + 1]
      OBVIOUS
    <2>1. i + 1 \in 1..Len(gs) /\ new = Absorb(acc, g) /\ g \in T /\ g \in SUBSET TreeValues
      BY <1>3 DEF Absorbing, Keys
    <2>2. Taking(gs, a, b, T, i, acc)
      BY <1>5
    <2>3. \A x : TakenIn(gs, a, b, i, x) => TakenIn(gs, a, b, i + 1, x)
      BY DEF TakenIn
    <2>4. acc \in [union : SUBSET TreeValues, keep : Seq(T)] /\ i + 1 \in 0..Len(gs)
      BY <2>2 DEF Taking
    <2>5. CASE g \intersect acc.union # {}
      <3>1. new = [acc EXCEPT !.union = @ \union g]
        BY <2>1, <2>5 DEF Absorb
      <3>2. new.union = acc.union \union g /\ new.keep = acc.keep
        BY <2>4, <3>1
      <3>3. new \in [union : SUBSET TreeValues, keep : Seq(T)]
        BY <2>1, <2>4, <3>1
      <3>4. ASSUME Disjoint(gs), NEW x \in new.union
            PROVE  x \in a \union b \/ TakenIn(gs, a, b, i + 1, x)
        <4>1. CASE x \in acc.union
          BY <2>2, <2>3, <3>4, <4>1 DEF Taking
        <4>2. CASE x \in g
          <5>1. PICK y : y \in g /\ y \in acc.union
            BY <2>5
          <5>2. g \intersect (a \union b) # {}
            <6>1. CASE y \in a \union b
              BY <5>1, <6>1
            <6>2. CASE TakenIn(gs, a, b, i, y)
              <7>1. PICK j \in 1..i : y \in gs[j]
                BY <6>2 DEF TakenIn
              <7>2. j \in DOMAIN gs /\ i + 1 \in DOMAIN gs /\ j # i + 1
                BY <2>1
              <7> QED BY <3>4, <5>1, <7>1, <7>2 DEF Disjoint
            <6> QED BY <2>2, <3>4, <5>1, <6>1, <6>2 DEF Taking
          <5>3. i + 1 \in 1..(i + 1)
            OBVIOUS
          <5> QED BY <4>2, <5>2, <5>3 DEF TakenIn
        <4> QED BY <3>2, <4>1, <4>2
      <3>5. Taking(gs, a, b, T, i + 1, new)
        BY <2>2, <3>2, <3>3, <3>4 DEF Taking
      <3> QED BY <2>4, <3>5
    <2>6. CASE g \intersect acc.union = {}
      <3>1. new = [acc EXCEPT !.keep = Append(@, g)]
        BY <2>1, <2>6 DEF Absorb
      <3>2. new.union = acc.union /\ new.keep = Append(acc.keep, g)
        BY <2>4, <3>1
      <3>3. /\ Append(acc.keep, g) \in Seq(T) /\ Len(Append(acc.keep, g)) = Len(acc.keep) + 1
            /\ \A j \in 1..Len(acc.keep) : Append(acc.keep, g)[j] = acc.keep[j]
            /\ Append(acc.keep, g)[Len(acc.keep) + 1] = g
        BY <2>1, <2>4, AppendProperties
      <3>4. new \in [union : SUBSET TreeValues, keep : Seq(T)]
        BY <2>4, <3>1, <3>3
      <3>5. g \intersect (a \union b) = {}
        BY <2>2, <2>6 DEF Taking
      <3>6. ASSUME NEW j \in 1..Len(new.keep) PROVE new.keep[j] \intersect (a \union b) = {}
        <4>1. Len(acc.keep) \in Nat
          BY <2>4
        <4>2. j \in 1..Len(acc.keep) \/ j = Len(acc.keep) + 1
          BY <3>2, <3>3, <4>1
        <4> QED BY <2>2, <3>2, <3>3, <3>5, <4>2 DEF Taking
      <3>7. Taking(gs, a, b, T, i + 1, new)
        BY <2>2, <2>3, <3>2, <3>4, <3>6 DEF Taking
      <3> QED BY <2>4, <3>7
    <2> QED BY <2>5, <2>6
  <1>6. 0..Len(gs) \subseteq A
    <2>1. Len(gs) \in Nat
      OBVIOUS
    <2> HIDE DEF A
    <2> QED BY <1>4, <1>5, <2>1, UpTo
  <1>7. Taking(gs, a, b, T, Len(gs), r[Len(gs)])
    <2>1. Len(gs) \in 0..Len(gs)
      OBVIOUS
    <2> QED BY <1>6, <2>1
  <1> QED BY <1>1, <1>3, <1>7

\* Two branches of a level that are merged are shown as one: with nothing else in it
\* if no two merges of the level meet.
ShowsBoth(V, gs, a, b) ==
    \E m \in JoinAll(Alone(V), mergeValues(gs, a, b)) :
       a \union b \subseteq m /\ (Disjoint(gs) => m = a \union b)

\* A new merge of two branches shows them as one.
LEMMA MergeShows ==
    ASSUME NEW V \in SUBSET TreeValues, IsFiniteSet(V), NEW gs \in Seq(Keys),
           NEW a \in JoinAll(Alone(V), gs), NEW b \in JoinAll(Alone(V), gs), a # b
    PROVE  ShowsBoth(V, gs, a, b)
  <1>1. Alone(V) \in SUBSET Keys
    BY DEF Alone, Keys
  <1>2. PICK r : /\ Joining(Alone(V), gs, r) /\ JoinAll(Alone(V), gs) = r[Len(gs)]
                 /\ r[Len(gs)] \subseteq Keys
    BY <1>1, JoinedTypes
  <1>3. Len(gs) \in Nat /\ Len(gs) \in 0..Len(gs)
    OBVIOUS
  <1>4. a \in Keys /\ b \in Keys /\ a \subseteq V /\ b \subseteq V /\ a # {} /\ b # {}
        /\ Partition(V, r[Len(gs)])
    BY <1>2, <1>3, AlwaysPartition DEF Partition
  <1>5. PICK acc : Taking(gs, a, b, Keys, Len(gs), acc)
               /\ mergeValues(gs, a, b) = Append(acc.keep, acc.union)
    BY <1>4, MergedValues
  <1> PICK ms : ms = mergeValues(gs, a, b)
    OBVIOUS
  <1> PICK n : n = Len(acc.keep)
    OBVIOUS
  <1>6. /\ n \in Nat /\ ms \in Seq(Keys) /\ Len(ms) = n + 1 /\ ms[n + 1] = acc.union
        /\ \A i \in 1..n : ms[i] = acc.keep[i]
    <2>1. acc.keep \in Seq(Keys) /\ acc.union \in Keys
      BY <1>4, <1>5 DEF Taking, Keys
    <2> QED BY <1>5, <2>1, AppendProperties
  <1>7. PICK t : Joining(Alone(V), ms, t) /\ JoinAll(Alone(V), ms) = t[n + 1]
    BY <1>1, <1>6, JoinedTypes
  <1> PICK S : S = {m \in ms[n + 1] : {m} \in t[n]}
    OBVIOUS
  <1>8. a \union b \subseteq S
    <2> SUFFICES ASSUME NEW v \in a \union b PROVE v \in S
      OBVIOUS
    <2>1. v \in ms[n + 1] /\ v \in V
      BY <1>4, <1>5, <1>6 DEF Taking
    <2>2. \A i \in 1..n : v \notin ms[i]
      BY <1>5, <1>6 DEF Taking
    <2>3. n \in 0..Len(ms)
      BY <1>6
    <2>4. {v} \in t[n]
      BY <1>6, <1>7, <2>1, <2>2, <2>3, StillAlone
    <2> QED BY <2>1, <2>4
  <1>9. S \subseteq V
    <2>1. n \in 0..Len(ms)
      BY <1>6
    <2>2. Partition(V, t[n])
      BY <1>6, <1>7, <2>1, AlwaysPartition
    <2>3. \A m : {m} \in t[n] => m \in V
      BY <2>2 DEF Partition
    <2> QED BY <2>3
  <1>10. IsFiniteSet(S)
    <2>1. S \in SUBSET V
      BY <1>9
    <2> QED BY <2>1, FS_Subset
  <1>11. PICK x, y : x \in S /\ y \in S /\ x # y
    <2>1. \E x, y \in a \union b : x # y
      <3>1. (\E x \in a : x \notin b) \/ (\E x \in b : x \notin a)
        OBVIOUS
      <3> QED BY <1>4, <3>1
    <2> QED BY <1>8, <2>1
  <1>12. S \in t[n + 1]
    <2>1. n + 1 \in 1..Len(ms) /\ (n + 1) - 1 = n
      BY <1>6
    <2>2. S = Together(ms, t, n + 1)
      BY <2>1 DEF Together
    <2>3. IsFiniteSet(Together(ms, t, n + 1)) /\ x \in Together(ms, t, n + 1)
            /\ y \in Together(ms, t, n + 1)
      BY <1>10, <1>11, <2>2
    <2>4. ms \in Seq(Keys) /\ Joining(Alone(V), ms, t) /\ x # y
      BY <1>6, <1>7, <1>11
    <2>5. Together(ms, t, n + 1) \in t[Len(ms)]
      BY <2>1, <2>3, <2>4, MadeOne
    <2> QED BY <1>6, <2>2, <2>5
  <1>13. ASSUME Disjoint(gs), NEW v \in S PROVE v \in a \union b
    <2> SUFFICES ASSUME v \notin a \union b PROVE FALSE
      OBVIOUS
    <2>1. PICK i \in 1..Len(gs) : v \in gs[i] /\ gs[i] \intersect (a \union b) # {}
      <3>1. v \in acc.union
        BY <1>6
      <3> QED BY <1>5, <1>13, <3>1 DEF Taking, TakenIn
    <2>2. PICK w : w \in gs[i] /\ w \in a \union b
      BY <2>1
    <2> PICK Q : Q = Together(gs, r, i)
      OBVIOUS
    <2>3. ASSUME NEW z \in gs[i], z \in V PROVE z \in Q
      <3>1. i - 1 \in 0..Len(gs)
        BY <1>3
      <3>2. ASSUME NEW j \in 1..(i - 1) PROVE z \notin gs[j]
        <4>1. j \in DOMAIN gs /\ i \in DOMAIN gs /\ j # i
          BY <1>3
        <4> QED BY <1>13, <4>1 DEF Disjoint
      <3>3. {z} \in r[i - 1]
        BY <1>2, <2>3, <3>1, <3>2, StillAlone
      <3> QED BY <3>3 DEF Together
    <2>4. v \in Q /\ w \in Q /\ v # w
      BY <1>4, <1>9, <2>1, <2>2, <2>3
    <2>5. Q \subseteq V
      <3>1. i - 1 \in 0..Len(gs)
        BY <1>3
      <3>2. Partition(V, r[i - 1])
        BY <1>2, <3>1, AlwaysPartition
      <3>3. \A m : {m} \in r[i - 1] => m \in V
        BY <3>2 DEF Partition
      <3> QED BY <3>3 DEF Together
    <2>6. IsFiniteSet(Q)
      <3>1. Q \in SUBSET V
        BY <2>5
      <3> QED BY <3>1, FS_Subset
    <2>7. Q \in r[Len(gs)]
      BY <1>2, <2>4, <2>6, MadeOne
    <2>8. Q = a \/ Q = b
      <3>1. Q \intersect a # {} \/ Q \intersect b # {}
        BY <2>2, <2>4
      <3>2. a \in r[Len(gs)] /\ b \in r[Len(gs)]
        BY <1>2
      <3> QED BY <1>4, <2>7, <3>1, <3>2 DEF Partition
    <2> QED BY <2>4, <2>8
  <1> QED BY <1>7, <1>8, <1>12, <1>13 DEF ShowsBoth
-----------------------------------------------------------------------------
(* A branch dropped on one beside it: what becomes of the layout.          *)

\* Two branches side by side, and where what is at or below them goes when they are merged.
Siblings(p, q) ==
    /\ p \in TreePaths /\ q \in TreePaths /\ Len(p) # 0 /\ Len(q) = Len(p)
    /\ p # q /\ parentOf(q) = parentOf(p)

\* The path at which k is found after the merge.
MovesTo(k, p, q) == Remapped(k, {p, q}, mergedNodePath(p, q))

\* The merged branch has the place and the values of both.
LEMMA MergedPath ==
    ASSUME NEW p, NEW q, Siblings(p, q)
    PROVE  /\ mergedNodePath(p, q) \in TreePaths /\ Len(mergedNodePath(p, q)) = Len(p)
           /\ parentOf(mergedNodePath(p, q)) = parentOf(p)
           /\ valueOfPath(mergedNodePath(p, q)) = valueOfPath(p) \union valueOfPath(q)
           /\ parentOf(p) \in TreePaths /\ Len(parentOf(p)) = Len(p) - 1
           /\ valueOfPath(p) \in Keys /\ valueOfPath(q) \in Keys
                /\ valueOfPath(p) # valueOfPath(q)
  <1>1. p \in TreePaths /\ q \in TreePaths /\ Len(p) \in Nat /\ Len(p) # 0
          /\ Len(p) - 1 \in 0..Len(p)
        /\ Len(q) = Len(p) /\ SubSeq(q, 1, Len(p) - 1) = SubSeq(p, 1, Len(p) - 1)
    BY DEF Siblings, TreePaths, parentOf
  <1> PICK up : up = SubSeq(p, 1, Len(p) - 1)
    OBVIOUS
  <1>2. /\ up \in TreePaths /\ Len(up) = Len(p) - 1
        /\ \A i \in 1..(Len(p) - 1) : up[i] = p[i] /\ up[i] = q[i]
    <2>1. /\ up \in TreePaths /\ Len(up) = Len(p) - 1 /\ \A i \in 1..(Len(p) - 1) : up[i] = p[i]
      BY <1>1, Starts1
    <2>2. \A i \in 1..(Len(p) - 1) : SubSeq(q, 1, Len(p) - 1)[i] = q[i]
      BY <1>1, Starts1
    <2> QED BY <1>1, <2>1, <2>2
  <1>3. p[Len(p)] \in Keys /\ q[Len(p)] \in Keys
    BY <1>1 DEF TreePaths
  <1> PICK m : m = p[Len(p)] \union q[Len(p)]
    OBVIOUS
  <1>4. m \in Keys
    BY <1>3 DEF Keys
  <1> PICK new : new = Append(up, m)
    OBVIOUS
  <1>5. /\ new \in TreePaths /\ Len(new) = Len(p) /\ new[Len(p)] = m
        /\ \A i \in 1..(Len(p) - 1) : new[i] = up[i]
    BY <1>1, <1>2, <1>4, AppendProperties DEF TreePaths
  <1>6. SubSeq(new, 1, Len(p) - 1) = up
    <2>1. /\ SubSeq(new, 1, Len(p) - 1) \in TreePaths
               /\ Len(SubSeq(new, 1, Len(p) - 1)) = Len(p) - 1
          /\ \A i \in 1..(Len(p) - 1) : SubSeq(new, 1, Len(p) - 1)[i] = new[i]
      <3>1. Len(p) - 1 \in 0..Len(new)
        BY <1>1, <1>5
      <3> QED BY <1>5, <3>1, Starts1
    <2>2. \A i \in 1..(Len(p) - 1) : SubSeq(new, 1, Len(p) - 1)[i] = up[i]
      BY <1>5, <2>1
    <2> QED BY <1>2, <2>1, <2>2, SeqEqual DEF TreePaths
  <1>7. p[Len(p)] # q[Len(p)]
    <2> SUFFICES ASSUME p[Len(p)] = q[Len(p)] PROVE FALSE
      OBVIOUS
    <2>1. \A i \in 1..Len(p) : i \in 1..(Len(p) - 1) \/ i = Len(p)
      BY <1>1
    <2>2. \A i \in 1..Len(p) : p[i] = q[i]
      BY <1>2, <2>1
    <2> QED BY <1>1, <2>2, SeqEqual DEF Siblings, TreePaths
  <1> QED BY <1>1, <1>2, <1>3, <1>5, <1>6, <1>7 DEF mergedNodePath, parentOf, valueOfPath

\* What lies above stays; what is at or below either goes to the merged branch.
LEMMA MovedTo ==
    ASSUME NEW p, NEW q, Siblings(p, q), NEW k \in TreePaths
    PROVE  /\ MovesTo(k, p, q) \in TreePaths /\ Len(MovesTo(k, p, q)) = Len(k)
           /\ Len(k) < Len(p) => MovesTo(k, p, q) = k
           /\ IsPrefix(p, k) \/ IsPrefix(q, k) =>
                MovesTo(k, p, q) = mergedNodePath(p, q) \o SubSeq(k,
                  Len(mergedNodePath(p, q)) + 1, Len(k))
  <1> PICK new : new = mergedNodePath(p, q)
    OBVIOUS
  <1>1. new \in TreePaths /\ Len(new) = Len(p) /\ Len(p) \in Nat /\ Len(k) \in Nat
          /\ Len(q) = Len(p)
    BY MergedPath DEF Siblings, TreePaths
  <1>2. CASE IsPrefix(p, k) \/ IsPrefix(q, k)
    <2>1. Len(p) <= Len(k)
      BY <1>1, <1>2 DEF IsPrefix
    <2>2. PICK o : o = CHOOSE y \in {p, q} : IsPrefix(y, k)
      OBVIOUS
    <2>3. o \in {p, q}
      BY <1>2, <2>2
    <2>4. MovesTo(k, p, q) = new \o SubSeq(k, Len(p) + 1, Len(k))
      BY <1>1, <1>2, <2>2, <2>3 DEF MovesTo, Remapped
    <2> PICK rest : rest = SubSeq(k, Len(p) + 1, Len(k))
      OBVIOUS
    <2>5. rest \in Seq(Keys) /\ Len(rest) = Len(k) - Len(p)
      <3>1. /\ Len(p) + 1 \in Int /\ Len(k) \in Int
            /\ \A i \in (Len(p) + 1)..Len(k) : k[i] \in Keys
        BY <1>1 DEF TreePaths
      <3>2. /\ rest \in Seq(Keys)
            /\ Len(rest) = IF Len(p) + 1 <= Len(k) THEN Len(k) - (Len(p) + 1) + 1 ELSE 0
        BY <3>1, SubSeqProperties
      <3> QED BY <1>1, <2>1, <3>2
    <2>6. new \o rest \in Seq(Keys) /\ Len(new \o rest) = Len(k)
      <3>1. new \in Seq(Keys)
        BY <1>1 DEF TreePaths
      <3>2. new \o rest \in Seq(Keys) /\ Len(new \o rest) = Len(new) + Len(rest)
        BY <2>5, <3>1, ConcatProperties
      <3> QED BY <1>1, <2>5, <3>2
    <2> QED BY <1>1, <2>1, <2>4, <2>6 DEF TreePaths
  <1>3. CASE ~(IsPrefix(p, k) \/ IsPrefix(q, k))
    <2>1. MovesTo(k, p, q) = k
      BY <1>3 DEF MovesTo, Remapped
    <2> QED BY <1>3, <2>1
  <1> QED BY <1>2, <1>3

\* One list after the other (FlattenSeq): of all that is in them.
LEMMA Flattened ==
    ASSUME NEW T, NEW s \in Seq(Seq(T))
    PROVE  /\ FlattenSeq(s) \in Seq(T)
           /\ \A i \in 1..Len(s) : ToSet(s[i]) \subseteq ToSet(FlattenSeq(s))
           /\ Len(s) = 1 => FlattenSeq(s) = s[1]
  <1> PICK top : top = Len(s)
    OBVIOUS
  <1>0. top \in Nat /\ DOMAIN s = 1..top /\ \A i \in 1..top : s[i] \in Seq(T)
    OBVIOUS
  <1>1. CASE top = 0
    <2>1. FlattenSeq(s) = s /\ s = <<>>
      <3>1. Len(s) = 0
        BY <1>1
      <3>2. s = <<>>
        BY <3>1, EmptySeq
      <3> QED BY <3>1, <3>2 DEF FlattenSeq
    <2> QED BY <1>1, <2>1, EmptySeq
  <1>2. CASE top # 0
    <2> DEFINE Rec(f) == [i \in 1..top |-> IF i = 1 THEN s[i] ELSE f[i - 1] \o s[i]]
    <2>1. FlattenSeq(s) = (CHOOSE f : f = Rec(f))[top]
      BY <1>2 DEF FlattenSeq
    <2>2. PICK S : S = Seq(T)
      OBVIOUS
    <2>3. PICK step : step = [x \in (1..top) \X S |-> x[2] \o s[x[1]]]
      OBVIOUS
    <2>4. ASSUME NEW n \in 1..top, NEW x \in S PROVE step[<<n, x>>] = x \o s[n] /\ x \o s[n] \in S
      <3>1. x \in Seq(T) /\ s[n] \in Seq(T)
        BY <1>0, <2>2
      <3>2. x \o s[n] \in Seq(T)
        BY <3>1, ConcatProperties
      <3> QED BY <2>2, <2>3, <3>2
    <2>5. StepsIn(S, top, step)
      BY <2>4 DEF StepsIn
    <2>6. <<>> \in S
      BY <2>2, EmptySeq
    <2>7. PICK g : Counts(g, S, <<>>, top, step)
      BY <1>0, <2>5, <2>6, Recursion
    <2>8. ASSUME NEW i \in 1..top
          PROVE  g[i] \in S /\ g[i] = IF i = 1 THEN s[i] ELSE g[i - 1] \o s[i]
      <3>1. i \in 0..top /\ i - 1 \in 0..top /\ i # 0
        BY <1>0
      <3>2. g[i - 1] \in S /\ g[i] \in S /\ g[i] = step[<<i, g[i - 1]>>]
        BY <2>7, <3>1 DEF Counts
      <3>3. g[i] = g[i - 1] \o s[i]
        BY <2>4, <3>2
      <3>4. CASE i = 1
        <4>1. g[i - 1] = <<>>
          <5>1. i - 1 = 0 /\ 0 \in 0..top
            BY <1>0, <3>4
          <5>2. g[0] = <<>>
            BY <2>7, <5>1 DEF Counts
          <5> QED BY <5>1, <5>2
        <4>2. <<>> \o s[i] = s[i]
          BY <1>0, ConcatEmptySeq
        <4> QED BY <3>2, <3>3, <3>4, <4>1, <4>2
      <3> QED BY <3>2, <3>3, <3>4
    <2>9. PICK h : h = [i \in 1..top |-> g[i]]
      OBVIOUS
    <2>10. h = Rec(h)
      <3>1. \A i \in 1..top : i # 1 => i - 1 \in 1..top
        BY <1>0
      <3> QED BY <2>8, <2>9, <3>1
    <2>11. PICK f : f = (CHOOSE x : x = Rec(x))
      OBVIOUS
    <2>12. f = Rec(f)
      BY <2>10, <2>11
    <2> DEFINE A == {n \in 0..top : n # 0 =>
                 f[n] \in Seq(T) /\ \A i \in 1..n : ToSet(s[i]) \subseteq ToSet(f[n])}
    <2>13. 0 \in A
      BY <1>0
    <2>14. ASSUME NEW n \in 0..(top - 1), n \in A PROVE n + 1 \in A
      <3>1. n + 1 \in 1..top /\ n + 1 \in 0..top /\ (n + 1) - 1 = n
        BY <1>0
      <3>2. CASE n = 0
        <4>1. f[n + 1] = s[n + 1]
          BY <2>12, <3>1, <3>2
        <4>2. \A i \in 1..(n + 1) : i = n + 1
          BY <3>2
        <4> QED BY <1>0, <3>1, <4>1, <4>2
      <3>3. CASE n # 0
        <4>1. f[n + 1] = f[n] \o s[n + 1]
          <5>1. n + 1 # 1
            BY <3>3
          <5> QED BY <2>12, <3>1, <5>1
        <4>2. f[n] \in Seq(T) /\ s[n + 1] \in Seq(T)
                /\ \A i \in 1..n : ToSet(s[i]) \subseteq ToSet(f[n])
          BY <1>0, <2>14, <3>1, <3>3
        <4>3. f[n + 1] \in Seq(T)
          BY <4>1, <4>2, ConcatProperties
        <4>4. ToSet(f[n + 1]) = ToSet(f[n]) \union ToSet(s[n + 1])
          <5>1. Range(f[n] \o s[n + 1]) = Range(f[n]) \union Range(s[n + 1])
            BY <4>2, RangeConcatenation
          <5> QED BY <4>1, <5>1 DEF Range, ToSet
        <4>5. \A i \in 1..(n + 1) : i \in 1..n \/ i = n + 1
          OBVIOUS
        <4> QED BY <3>1, <4>2, <4>3, <4>4, <4>5
      <3> QED BY <3>2, <3>3
    <2>15. 0..top \subseteq A
      <3> HIDE DEF A
      <3> QED BY <1>0, <2>13, <2>14, UpTo
    <2>16. top \in 0..top
      BY <1>0
    <2>17. top = 1 => f[top] = s[1]
      BY <2>12
    <2> QED BY <1>2, <2>1, <2>11, <2>15, <2>16, <2>17
  <1> QED BY <1>1, <1>2

\* All lists of a set, in an order of their own.
LEMMA Ordered ==
    ASSUME NEW S, IsFiniteSet(S), NEW s \in SetToSeqs(S)
    PROVE  s \in Seq(S) /\ Len(s) = Cardinality(S) /\ \A x \in S : \E i \in 1..Len(s) : s[i] = x
  <1> PICK n : n = Cardinality(S)
    OBVIOUS
  <1>1. n \in Nat
    BY FS_CardinalityType
  <1>2. s \in [1..n -> S] /\ \A i, j \in 1..n : i # j => s[i] # s[j]
    BY DEF SetToSeqs
  <1>3. s \in Injection(1..n, S)
    BY <1>2 DEF Injection, IsInjective
  <1>4. IsFiniteSet(1..n) /\ Cardinality(1..n) = n
    <2>1. 1 \in Int /\ n \in Int
      BY <1>1
    <2>2. IsFiniteSet(1..n) /\ Cardinality(1..n) = IF 1 > n THEN 0 ELSE n - 1 + 1
      BY <2>1, FS_Interval
    <2> QED BY <1>1, <2>2
  <1>5. s \in Surjection(1..n, S)
    BY <1>3, <1>4, FS_Injection
  <1>6. s \in Seq(S) /\ Len(s) = n
    BY <1>1, <1>2
  <1> QED BY <1>5, <1>6 DEF Surjection

\* What a merge makes of the customizations (remapCustomizationKeys).
MovedPaths(f, p, q) == {MovesTo(k, p, q) : k \in DOMAIN f}

\* The entries that come together at x.
MovedFrom(f, x, p, q) == {f[k] : k \in {y \in DOMAIN f : MovesTo(y, p, q) = x}}

\* r are the customizations under their new paths: entries that meet are joined, of
\* dimensions one is taken.
Remap(r, p, q) ==
    /\ r.branchDim \in [MovedPaths(branchDim, p, q) -> Dims \union {""}]
    /\ \A x \in MovedPaths(branchDim, p, q) : r.branchDim[x] \in MovedFrom(branchDim, x, p, q)
    /\ r.hidden = [x \in MovedPaths(hidden, p, q) |-> UNION MovedFrom(hidden, x, p, q)]
    /\ DOMAIN r.merges = MovedPaths(merges, p, q)
    /\ r.merges = [x \in MovedPaths(merges, p, q) |-> r.merges[x]]
    /\ \A x \in MovedPaths(merges, p, q) :
          \E s \in SetToSeqs(MovedFrom(merges, x, p, q)) : r.merges[x] = FlattenSeq(s)

\* That is what remapCustomizationKeys does.
LEMMA Remaps ==
    ASSUME NEW p, NEW q, NEW r \in remapCustomizationKeys({p, q}, mergedNodePath(p, q))
    PROVE  Remap(r, p, q)
  <1> DEFINE Lists(x) == {FlattenSeq(s) : s \in SetToSeqs(MovedFrom(merges, x, p, q))}
  <1> PICK B, H, M : /\ B = {f \in [MovedPaths(branchDim, p, q) -> Dims \union {""}] :
                                 \A x \in DOMAIN f : f[x] \in MovedFrom(branchDim, x, p, q)}
                     /\ H = {[x \in MovedPaths(hidden, p, q) |-> UNION MovedFrom(hidden, x, p,
                          q)]}
                     /\ M = {f \in [MovedPaths(merges, p, q) -> UNION {Lists(x) :
                          x \in MovedPaths(merges, p, q)}] :
                                 \A x \in DOMAIN f : f[x] \in Lists(x)}
    OBVIOUS
  <1>1. remapCustomizationKeys({p, q}, mergedNodePath(p, q))
          = [branchDim : B, hidden : H, merges : M]
    BY DEF remapCustomizationKeys, MovedPaths, MovedFrom, MovesTo
  <1>2. r.branchDim \in B /\ r.hidden \in H /\ r.merges \in M
    <2>1. r \in [branchDim : B, hidden : H, merges : M]
      BY <1>1
    <2> QED BY <2>1
  <1>3. DOMAIN r.merges = MovedPaths(merges, p, q)
          /\ \A x \in DOMAIN r.merges : r.merges[x] \in Lists(x)
    BY <1>2
  <1>4. r.merges = [x \in MovedPaths(merges, p, q) |-> r.merges[x]]
    BY <1>2
  <1>5. DOMAIN r.branchDim = MovedPaths(branchDim, p, q)
    BY <1>2
  <1> QED BY <1>2, <1>3, <1>4, <1>5 DEF Remap

\* Above the branches that are merged nothing moves.
LEMMA OnlyItself ==
    ASSUME NEW p, NEW q, Siblings(p, q), NEW f, DOMAIN f \subseteq TreePaths,
           NEW x \in TreePaths, Len(x) < Len(p)
    PROVE  /\ x \in MovedPaths(f, p, q) <=> x \in DOMAIN f
           /\ x \in DOMAIN f => MovedFrom(f, x, p, q) = {f[x]}
  <1>1. ASSUME NEW y \in DOMAIN f PROVE MovesTo(y, p, q) = x <=> y = x
    <2>1. y \in TreePaths
      OBVIOUS
    <2>2. Len(MovesTo(y, p, q)) = Len(y) /\ (Len(y) < Len(p) => MovesTo(y, p, q) = y)
      BY <2>1, MovedTo
    <2> QED BY <2>2
  <1> QED BY <1>1 DEF MovedPaths, MovedFrom

\* A set of one list has one order.
LEMMA OneList ==
    ASSUME NEW T, NEW l \in Seq(T), NEW s \in SetToSeqs({l})
    PROVE  FlattenSeq(s) = l
  <1>1. IsFiniteSet({l}) /\ Cardinality({l}) = 1
    BY FS_Singleton
  <1> PICK S : S = {l}
    OBVIOUS
  <1>2. s \in Seq(S) /\ Len(s) = 1
    BY <1>1, Ordered
  <1>3. s[1] = l
    <2>1. 1 \in 1..Len(s)
      BY <1>2
    <2>2. s[1] \in S
      BY <1>2, <2>1, ElementOfSeq
    <2> QED BY <2>2
  <1>4. s \in Seq(Seq(T))
    BY <1>2, SeqMonotonic
  <1> QED BY <1>2, <1>3, <1>4, Flattened

\* Above the merge no customization changes.
LEMMA AboveStays ==
    ASSUME TreeTypeOK, NEW p, NEW q, Siblings(p, q), NEW r, Remap(r, p, q),
           NEW x \in TreePaths, Len(x) < Len(p)
    PROVE  /\ \A other : At(r.branchDim, x, other) = At(branchDim, x, other)
           /\ At(r.hidden, x, {}) = At(hidden, x, {})
           /\ At(r.merges, x, <<>>) = At(merges, x, <<>>)
  <1>1. \A other : At(r.branchDim, x, other) = At(branchDim, x, other)
    <2>1. /\ x \in MovedPaths(branchDim, p, q) <=> x \in DOMAIN branchDim
          /\ x \in DOMAIN branchDim => MovedFrom(branchDim, x, p, q) = {branchDim[x]}
      <3>1. DOMAIN branchDim \subseteq TreePaths
        BY LayoutTypes
      <3> QED BY <3>1, OnlyItself
    <2> QED BY <2>1 DEF Remap, At
  <1>2. At(r.hidden, x, {}) = At(hidden, x, {})
    <2>1. /\ x \in MovedPaths(hidden, p, q) <=> x \in DOMAIN hidden
          /\ x \in DOMAIN hidden => MovedFrom(hidden, x, p, q) = {hidden[x]}
      <3>1. DOMAIN hidden \subseteq TreePaths
        BY LayoutTypes
      <3> QED BY <3>1, OnlyItself
    <2>2. DOMAIN r.hidden = MovedPaths(hidden, p, q)
      BY DEF Remap
    <2>3. CASE x \in DOMAIN hidden
      <3>1. r.hidden[x] = UNION MovedFrom(hidden, x, p, q)
        BY <2>1, <2>3 DEF Remap
      <3>2. UNION {hidden[x]} = hidden[x]
        OBVIOUS
      <3> QED BY <2>1, <2>2, <2>3, <3>1, <3>2 DEF At
    <2>4. CASE x \notin DOMAIN hidden
      BY <2>1, <2>2, <2>4 DEF At
    <2> QED BY <2>3, <2>4
  <1>3. At(r.merges, x, <<>>) = At(merges, x, <<>>)
    <2>1. /\ x \in MovedPaths(merges, p, q) <=> x \in DOMAIN merges
          /\ x \in DOMAIN merges => MovedFrom(merges, x, p, q) = {merges[x]}
      <3>1. DOMAIN merges \subseteq TreePaths
        BY LayoutTypes
      <3> QED BY <3>1, OnlyItself
    <2>2. ASSUME x \in DOMAIN merges PROVE r.merges[x] = merges[x]
      <3>1. merges[x] \in Seq(Keys)
        BY <2>2, LayoutTypes
      <3>2. PICK s \in SetToSeqs({merges[x]}) : r.merges[x] = FlattenSeq(s)
        BY <2>1, <2>2 DEF Remap
      <3> QED BY <3>1, <3>2, OneList
    <2>3. x \in DOMAIN r.merges <=> x \in DOMAIN merges
      BY <2>1 DEF Remap
    <2> QED BY <2>2, <2>3 DEF At
  <1> QED BY <1>1, <1>2, <1>3

\* What was moved is where it went.
LEMMA FromFinite ==
    ASSUME NEW f, IsFiniteSet(DOMAIN f), NEW p, NEW q
    PROVE  /\ IsFiniteSet(MovedPaths(f, p, q))
           /\ \A x : IsFiniteSet(MovedFrom(f, x, p, q))
  <1>1. IsFiniteSet(MovedPaths(f, p, q))
    <2>1. PICK g : g = [k \in DOMAIN f |-> MovesTo(k, p, q)]
      OBVIOUS
    <2>2. g \in Surjection(DOMAIN f, MovedPaths(f, p, q))
      BY <2>1 DEF Surjection, MovedPaths
    <2> QED BY <2>2, FS_Surjection
  <1>2. ASSUME NEW x PROVE IsFiniteSet(MovedFrom(f, x, p, q))
    <2>1. PICK D : D = {y \in DOMAIN f : MovesTo(y, p, q) = x}
      OBVIOUS
    <2>2. IsFiniteSet(D)
      <3>1. D \in SUBSET DOMAIN f
        BY <2>1
      <3> QED BY <3>1, FS_Subset
    <2>3. PICK g : g = [k \in D |-> f[k]]
      OBVIOUS
    <2>4. g \in Surjection(D, MovedFrom(f, x, p, q))
      BY <2>1, <2>3 DEF Surjection, MovedFrom
    <2> QED BY <2>2, <2>4, FS_Surjection
  <1> QED BY <1>1, <1>2

\* A merge is of two values at least.
Pairs == {g \in Keys : \E x, y \in g : x # y}

\* No merge is lost when two lists meet.
LEMMA ListsMove ==
    ASSUME TreeTypeOK, NEW p, NEW q, NEW r, Remap(r, p, q), NEW x \in MovedPaths(merges, p, q)
    PROVE  /\ r.merges[x] \in Seq(Pairs)
           /\ \A k \in DOMAIN merges : MovesTo(k, p, q) = x =>
                ToSet(merges[k]) \subseteq ToSet(r.merges[x])
  <1> PICK F : F = MovedFrom(merges, x, p, q)
    OBVIOUS
  <1>1. IsFiniteSet(F)
    BY FromFinite, LayoutTypes
  <1>2. PICK s \in SetToSeqs(F) : r.merges[x] = FlattenSeq(s)
    BY DEF Remap
  <1>3. s \in Seq(F) /\ \A l \in F : \E i \in 1..Len(s) : s[i] = l
    BY <1>1, Ordered
  <1>4. s \in Seq(Seq(Pairs))
    <2>1. \A k \in DOMAIN merges : merges[k] \in Seq(Pairs)
      BY LayoutTypes DEF Pairs
    <2>2. F \subseteq Seq(Pairs)
      BY <2>1 DEF MovedFrom
    <2> QED BY <1>3, <2>2, SeqMonotonic
  <1>5. FlattenSeq(s) \in Seq(Pairs)
          /\ \A i \in 1..Len(s) : ToSet(s[i]) \subseteq ToSet(FlattenSeq(s))
    BY <1>4, Flattened
  <1>6. ASSUME NEW k \in DOMAIN merges, MovesTo(k, p, q) = x
        PROVE  ToSet(merges[k]) \subseteq ToSet(r.merges[x])
    <2>1. merges[k] \in F
      BY <1>6 DEF MovedFrom
    <2>2. PICK i \in 1..Len(s) : s[i] = merges[k]
      BY <1>3, <2>1
    <2> QED BY <1>2, <1>5, <2>2
  <1> QED BY <1>2, <1>5, <1>6

\* Nor is a hidden branch.
LEMMA HiddenMoves ==
    ASSUME NEW p, NEW q, NEW r, Remap(r, p, q), NEW k \in DOMAIN hidden
    PROVE  MovesTo(k, p, q) \in DOMAIN r.hidden /\ hidden[k] \subseteq r.hidden[MovesTo(k, p, q)]
  <1>1. MovesTo(k, p, q) \in MovedPaths(hidden, p, q)
    BY DEF MovedPaths
  <1>2. hidden[k] \in MovedFrom(hidden, MovesTo(k, p, q), p, q)
    BY DEF MovedFrom
  <1> QED BY <1>1, <1>2 DEF Remap

\* A branch dropped on one beside it: what becomes of the layout (DropMerge).
DropStep(p, q, r) ==
    /\ Siblings(p, q) /\ Remap(r, p, q)
    /\ branchDim' = r.branchDim /\ hidden' = r.hidden
    /\ merges' = Put(r.merges, parentOf(p),
                     mergeValues(At(r.merges, parentOf(p), <<>>), valueOfPath(p), valueOfPath(q)))
    /\ groupBy' = groupBy /\ treeRows' = treeRows

\* DropMerge is such a step.
LEMMA Drops ==
    ASSUME TreeTypeOK, drag # <<>>, NEW q, DropMerge(q)
    PROVE  \E r : DropStep(drag[1].path, q, r)
  <1> PICK p : p = drag[1].path
    OBVIOUS
  <1>1. Siblings(p, q)
    <2>1. p \in TreePaths /\ p # <<>> /\ q # p /\ parentOf(q) = parentOf(p)
      BY DEF TreeTypeOK, DropMerge, siblingMergeTarget
    <2>2. q \in TreePaths /\ Len(q) \in 1..MaxDepth
      <3>1. q \in collectPaths
        BY DEF DropMerge, Displayed
      <3> QED BY <3>1, PathsAreThese DEF PathsAre
    <2>3. Len(p) \in Nat \ {0} /\ Len(q) \in Nat \ {0}
      BY <2>1, <2>2, TreeAssumption, EmptySeq DEF TreePaths
    <2>4. Len(p) - 1 \in 0..Len(p) /\ Len(q) - 1 \in 0..Len(q)
      BY <2>3
    <2>5. Len(parentOf(p)) = Len(p) - 1 /\ Len(parentOf(q)) = Len(q) - 1
      BY <2>1, <2>2, <2>4, Starts1 DEF parentOf
    <2> QED BY <2>1, <2>2, <2>3, <2>5 DEF Siblings
  <1>2. PICK r \in remapCustomizationKeys({p, q}, mergedNodePath(p, q)) :
          /\ branchDim' = r.branchDim /\ hidden' = r.hidden
          /\ merges' = Put(r.merges, parentOf(p),
                            mergeValues(At(r.merges, parentOf(p), <<>>), valueOfPath(p),
                              valueOfPath(q)))
          /\ groupBy' = groupBy /\ treeRows' = treeRows
    BY DEF DropMerge
  <1> QED BY <1>1, <1>2, Remaps DEF DropStep

\* Above the merged branches each level is split and merged as before, but for the one merge.
LEMMA LevelsStay ==
    ASSUME TreeTypeOK, NEW p, NEW q, NEW r, DropStep(p, q, r), NEW x \in TreePaths,
           Len(x) < Len(p)
    PROVE  /\ effectiveDim(x)' = effectiveDim(x) /\ At(hidden', x, {}) = At(hidden, x, {})
           /\ At(merges', x, <<>>) =
                IF x = parentOf(p) THEN mergeValues(At(merges, x, <<>>), valueOfPath(p),
                  valueOfPath(q))
                ELSE At(merges, x, <<>>)
  <1>1. /\ \A other : At(r.branchDim, x, other) = At(branchDim, x, other)
        /\ At(r.hidden, x, {}) = At(hidden, x, {}) /\ At(r.merges, x, <<>>) = At(merges, x, <<>>)
    BY AboveStays DEF DropStep
  <1>2. effectiveDim(x)' = effectiveDim(x)
    BY <1>1 DEF DropStep, effectiveDim
  <1>3. At(merges', x, <<>>) =
          IF x = parentOf(p) THEN mergeValues(At(r.merges, x, <<>>), valueOfPath(p),
            valueOfPath(q))
          ELSE At(r.merges, x, <<>>)
    BY DEF DropStep, Put, At
  <1> QED BY <1>1, <1>2, <1>3 DEF DropStep

\* So its branches are the same.
LEMMA BranchesStay ==
    ASSUME TreeTypeOK, NEW p, NEW q, NEW r, DropStep(p, q, r), NEW x \in TreePaths,
           Len(x) < Len(p),
           NEW rs
    PROVE  /\ x # parentOf(p) => Branches(rs, x)' = Branches(rs, x)
           /\ x = parentOf(p) /\ effectiveDim(x) # "" =>
                Branches(rs, x)' = JoinAll(Singles(rs, x),
                  mergeValues(At(merges, x, <<>>), valueOfPath(p), valueOfPath(q)))
                                     \ At(hidden, x, {})
  <1>1. BranchesIs'
    BY BranchesAre, PTL
  <1>2. Branches(rs, x)' = IF effectiveDim(x)' = "" THEN {}
                           ELSE JoinAll(Singles(rs, x)', At(merges', x, <<>>))
                             \ At(hidden', x, {})
    BY <1>1 DEF BranchesIs
  <1>3. Branches(rs, x) = IF effectiveDim(x) = "" THEN {}
                          ELSE JoinAll(Singles(rs, x), At(merges, x, <<>>)) \ At(hidden, x, {})
    BY BranchesAre DEF BranchesIs
  <1>4. effectiveDim(x)' = effectiveDim(x)
    BY LevelsStay
  <1>5. Singles(rs, x)' = Singles(rs, x)
    BY <1>4 DEF Singles, DropStep
  <1> QED BY <1>2, <1>3, <1>4, <1>5, LevelsStay

\* x is split by a dimension.
Split(x) == effectiveDim(x) # ""

\* The level of the merge.
LEMMA LevelMerges ==
    ASSUME TreeTypeOK, NEW p, NEW q, NEW r, DropStep(p, q, r), NEW rs, Split(parentOf(p))
    PROVE  Branches(rs, parentOf(p))' =
              JoinAll(Singles(rs, parentOf(p)),
                      mergeValues(At(merges, parentOf(p), <<>>), valueOfPath(p), valueOfPath(q)))
                \ At(hidden, parentOf(p), {})
  <1>1. Siblings(p, q)
    BY DEF DropStep
  <1>2. Len(p) \in Nat
    BY <1>1 DEF Siblings, TreePaths
  <1>3. parentOf(p) \in TreePaths /\ Len(parentOf(p)) = Len(p) - 1
    BY <1>1, MergedPath
  <1>4. Len(parentOf(p)) < Len(p)
    BY <1>2, <1>3
  <1> QED BY <1>3, <1>4, BranchesStay, ZenonT(30) DEF Split

\* Branches are sets of values.
LEMMA BranchKeys ==
    TreeTypeOK => \A ss \in SUBSET DOMAIN treeRows, x \in TreePaths :
      Branches(ss, x) \subseteq Keys
  <1> SUFFICES ASSUME TreeTypeOK, NEW ss \in SUBSET DOMAIN treeRows, NEW x \in TreePaths
               PROVE  Branches(ss, x) \subseteq Keys
    OBVIOUS
  <1> QED BY BranchTypes

\* No row moves above the merge.
LEMMA UnderStays ==
    ASSUME TreeTypeOK, NEW p, NEW q, NEW r, DropStep(p, q, r), NEW n \in 0..(Len(p) - 1)
    PROVE  Under(SubSeq(p, 1, n))' = Under(SubSeq(p, 1, n))
  <1>1. UnderIs /\ UnderIs'
    <2>1. UnderIs
      BY UnderAre
    <2>2. UnderIs'
      BY UnderAre, PTL
    <2> QED BY <2>1, <2>2
  <1>2. p \in TreePaths /\ Len(p) \in Nat /\ Len(p) # 0 /\ treeRows' = treeRows
    BY DEF DropStep, Siblings, TreePaths
  <1> PICK top : top = Len(p) - 1
    OBVIOUS
  <1>3. top \in Nat /\ n \in 0..top
    BY <1>2
  <1> DEFINE A == {i \in 0..top : Under(SubSeq(p, 1, i))' = Under(SubSeq(p, 1, i))}
  <1>4. 0 \in A
    <2>1. SubSeq(p, 1, 0) = <<>>
      BY SubSeqEmpty
    <2>2. Under(<<>>) = DOMAIN treeRows /\ Under(<<>>)' = DOMAIN treeRows'
      BY <1>1 DEF UnderIs
    <2>3. Under(SubSeq(p, 1, 0))' = Under(SubSeq(p, 1, 0))
      BY <1>2, <2>1, <2>2
    <2>4. 0 \in 0..top
      BY <1>3
    <2> QED BY <2>3, <2>4
  <1>5. ASSUME NEW i \in 0..(top - 1), i \in A PROVE i + 1 \in A
    <2>1. i + 1 \in 1..Len(p) /\ i + 1 \in 0..top /\ (i + 1) - 1 = i /\ i \in 0..Len(p)
      BY <1>2, <1>3
    <2> PICK x : x = SubSeq(p, 1, i)
      OBVIOUS
    <2>2. x \in TreePaths /\ Len(x) = i /\ Len(x) < Len(p) /\ x # parentOf(p)
      <3>1. x \in TreePaths /\ Len(x) = i
        BY <1>2, <2>1, Starts1
      <3>2. Len(parentOf(p)) = Len(p) - 1
        BY MergedPath DEF DropStep
      <3> QED BY <1>2, <1>3, <3>1, <3>2
    <2>3. Under(SubSeq(p, 1, i + 1)) = Narrow(Under(x), p, i + 1)
      BY <1>1, <1>2, <2>1 DEF UnderIs
    <2>4. Under(SubSeq(p, 1, i + 1))' = Narrow(Under(x), p, i + 1)'
      BY <1>1, <1>2, <2>1 DEF UnderIs
    <2> PICK rs : rs = Under(x)
      OBVIOUS
    <2>5. Under(x)' = rs
      BY <1>5
    <2>6. Branches(rs, x)' = Branches(rs, x)
      BY <2>2, BranchesStay
    <2>7. effectiveDim(x)' = effectiveDim(x)
      BY <2>2, LevelsStay
    <2>8. Under(SubSeq(p, 1, i + 1))' = Narrow(rs, p, i + 1)'
      BY <2>4, <2>5 DEF Narrow
    <2>9. Narrow(rs, p, i + 1)' = Narrow(rs, p, i + 1)
      BY <1>2, <2>1, <2>6, <2>7 DEF Narrow
    <2> QED BY <2>1, <2>3, <2>8, <2>9
  <1>6. 0..top \subseteq A
    <2> HIDE DEF A
    <2> QED BY <1>3, <1>4, <1>5, UpTo
  <1> QED BY <1>3, <1>6

\* The branches that are merged stand in its place.
LEMMA ShownAsOne ==
    ASSUME TreeTypeOK, TreeTypeOK', NEW p, NEW q, NEW r, DropStep(p, q, r),
           p \in collectPaths, q \in collectPaths
    PROVE  \E m \in {valueOfPath(k) : k \in {x \in collectPaths' : parentOf(x) = parentOf(p)}}
                    \union At(hidden, parentOf(p), {}) :
              /\ valueOfPath(mergedNodePath(p, q)) \subseteq m
              /\ Disjoint(At(merges, parentOf(p), <<>>)) => m = valueOfPath(mergedNodePath(p, q))
  <1> PICK up, a, b : up = parentOf(p) /\ a = valueOfPath(p) /\ b = valueOfPath(q)
    OBVIOUS
  <1>1. /\ Siblings(p, q) /\ up \in TreePaths /\ Len(up) = Len(p) - 1 /\ Len(p) \in Nat
        /\ Len(p) # 0 /\ Len(up) < Len(p) /\ a # b
        /\ valueOfPath(mergedNodePath(p, q)) = a \union b
    <2>1. Siblings(p, q)
      BY DEF DropStep
    <2>2. Len(p) \in Nat /\ Len(p) # 0
      BY <2>1 DEF Siblings, TreePaths
    <2>3. /\ valueOfPath(mergedNodePath(p, q)) = valueOfPath(p) \union valueOfPath(q)
          /\ parentOf(p) \in TreePaths /\ Len(parentOf(p)) = Len(p) - 1
          /\ valueOfPath(p) # valueOfPath(q)
      BY <2>1, MergedPath
    <2> QED BY <2>1, <2>2, <2>3
  <1>2. PathsAre /\ PathsAre'
    <2>1. PathsAre
      BY PathsAreThese
    <2>2. (TreeTypeOK => PathsAre)'
      BY PathsAreThese, PTL
    <2> QED BY <2>1, <2>2
  <1>3. Len(p) \in 1..MaxDepth /\ Stands(p) /\ Stands(q) /\ Len(q) = Len(p)
    BY <1>1, <1>2 DEF PathsAre, Siblings
  <1> PICK rs : rs = Under(up)
    OBVIOUS
  <1>4. a \in Branches(rs, up) /\ b \in Branches(rs, up)
    <2>1. Len(p) \in 1..Len(p)
      BY <1>1
    <2> QED BY <1>1, <1>3, <2>1 DEF Stands, parentOf, valueOfPath, Siblings
  <1> PICK gs, d : gs = At(merges, up, <<>>) /\ d = effectiveDim(up)
    OBVIOUS
  <1> PICK V : V = {treeRows[e][d] : e \in rs}
    OBVIOUS
  <1>5. d # "" /\ a \in JoinAll(Singles(rs, up), gs) /\ b \in JoinAll(Singles(rs, up), gs)
    BY <1>4, BranchesAre DEF BranchesIs
  <1>6. Singles(rs, up) = Alone(V)
    <2>1. Singles(rs, up) = {{treeRows[e][d]} : e \in rs}
      BY DEF Singles
    <2>2. \A k : k \in Singles(rs, up) => k \in Alone(V)
      BY <2>1 DEF Alone
    <2>3. \A k : k \in Alone(V) => k \in Singles(rs, up)
      BY <2>1 DEF Alone
    <2> QED BY <2>2, <2>3
  <1>7. rs \subseteq DOMAIN treeRows
    BY <1>1, UnderAre DEF UnderIs
  <1>8. V \in SUBSET TreeValues
    <2>1. d \in Dims
      BY <1>1, <1>5, DimTypes
    <2> QED BY <1>7, <2>1 DEF TreeTypeOK
  <1>9. IsFiniteSet(V)
    <2>1. rs \in SUBSET TreeEndpoints
      BY <1>7 DEF TreeTypeOK
    <2>2. IsFiniteSet(rs)
      BY <2>1, TreeAssumption, FS_Subset
    <2>3. PICK g : g = [e \in rs |-> treeRows[e][d]]
      OBVIOUS
    <2>4. g \in Surjection(rs, V)
      BY <2>3 DEF Surjection
    <2> QED BY <2>2, <2>4, FS_Surjection
  <1>10. gs \in Seq(Keys)
    BY <1>1, LayoutTypes, EmptySeq DEF At
  <1>11. PICK m \in JoinAll(Alone(V), mergeValues(gs, a, b)) :
             a \union b \subseteq m /\ (Disjoint(gs) => m = a \union b)
    <2>1. a \in JoinAll(Alone(V), gs) /\ b \in JoinAll(Alone(V), gs)
      BY <1>5, <1>6
    <2>2. a # b
      BY <1>1
    <2>3. ShowsBoth(V, gs, a, b)
      BY <1>8, <1>9, <1>10, <2>1, <2>2, MergeShows
    <2> QED BY <2>3 DEF ShowsBoth
  <1>12. CASE m \in At(hidden, up, {})
    BY <1>1, <1>11, <1>12
  <1>13. CASE m \notin At(hidden, up, {})
    <2>1. m \in Branches(rs, up)'
      <3>1. Branches(rs, up)' = JoinAll(Singles(rs, up), mergeValues(gs, a, b))
              \ At(hidden, up, {})
        <4>1. Split(parentOf(p))
          BY <1>5 DEF Split
        <4>2. Branches(rs, up)' = JoinAll(Singles(rs, up),
                mergeValues(At(merges, up, <<>>), valueOfPath(p), valueOfPath(q)))
                                    \ At(hidden, up, {})
          BY <4>1, LevelMerges
        <4> QED BY <4>2
      <3> QED BY <1>6, <1>11, <1>13, <3>1
    <2>2. Under(up)' = rs
      <3>1. Len(p) - 1 \in 0..(Len(p) - 1)
        BY <1>1
      <3> QED BY <3>1, UnderStays DEF parentOf
    <2>3. m \in Keys
      <3>1. Branches(rs, up)' \subseteq Keys
        <4>1. (TreeTypeOK => \A ss \in SUBSET DOMAIN treeRows, x \in TreePaths :
                Branches(ss, x) \subseteq Keys)'
          BY BranchKeys, PTL
        <4> QED BY <1>1, <1>7, <4>1 DEF DropStep
      <3> QED BY <2>1, <3>1
    <2> PICK x : x = Append(up, m)
      OBVIOUS
    <2>4. x \in TreePaths /\ Len(x) = Len(p) /\ x[Len(p)] = m
            /\ \A i \in 1..(Len(p) - 1) : x[i] = up[i]
      BY <1>1, <2>3, AppendProperties DEF TreePaths
    <2>5. \A i \in 0..(Len(p) - 1) : SubSeq(x, 1, i) = SubSeq(p, 1, i)
      <3> SUFFICES ASSUME NEW i \in 0..(Len(p) - 1) PROVE SubSeq(x, 1, i) = SubSeq(p, 1, i)
        OBVIOUS
      <3>1. i \in 0..Len(p) /\ i \in 0..Len(x) /\ Len(p) - 1 \in 0..Len(p) /\ p \in TreePaths
        BY <1>1, <2>4 DEF Siblings
      <3>2. /\ SubSeq(x, 1, i) \in TreePaths /\ Len(SubSeq(x, 1, i)) = i
            /\ \A j \in 1..i : SubSeq(x, 1, i)[j] = x[j]
        BY <2>4, <3>1, Starts1
      <3>3. /\ SubSeq(p, 1, i) \in TreePaths /\ Len(SubSeq(p, 1, i)) = i
            /\ \A j \in 1..i : SubSeq(p, 1, i)[j] = p[j]
        BY <3>1, Starts1
      <3>4. \A j \in 1..(Len(p) - 1) : up[j] = p[j]
        BY <3>1, Starts1 DEF parentOf
      <3>5. \A j \in 1..i : SubSeq(x, 1, i)[j] = SubSeq(p, 1, i)[j]
        BY <2>4, <3>2, <3>3, <3>4
      <3> QED BY <3>2, <3>3, <3>5, SeqEqual DEF TreePaths
    <2>6. ASSUME NEW n \in 1..Len(x)
          PROVE  (x[n] \in Branches(Under(SubSeq(x, 1, n - 1)), SubSeq(x, 1, n - 1)))'
      <3>1. CASE n = Len(p)
        <4>1. SubSeq(x, 1, n - 1) = up
          BY <1>1, <2>5, <3>1 DEF parentOf
        <4> QED BY <2>1, <2>2, <2>4, <3>1, <4>1
      <3>2. CASE n # Len(p)
        <4>1. n \in 1..(Len(p) - 1) /\ n - 1 \in 0..(Len(p) - 1) /\ n - 1 \in 0..Len(p)
                /\ n \in 1..Len(p)
          BY <1>1, <2>4, <3>2
        <4> PICK y, ss : y = SubSeq(p, 1, n - 1) /\ ss = Under(y)
          OBVIOUS
        <4>2. SubSeq(x, 1, n - 1) = y /\ Under(y)' = ss
          BY <2>5, <4>1, UnderStays
        <4>3. y \in TreePaths /\ Len(y) = n - 1 /\ Len(y) < Len(p) /\ y # up
          BY <1>1, <4>1, Starts1 DEF Siblings
        <4>4. Branches(ss, y)' = Branches(ss, y)
          BY <4>3, BranchesStay
        <4>5. x[n] = p[n]
          <5>1. up[n] = p[n]
            <6>1. Len(p) - 1 \in 0..Len(p) /\ p \in TreePaths
              BY <1>1 DEF Siblings
            <6> QED BY <4>1, <6>1, Starts1 DEF parentOf
          <5> QED BY <2>4, <4>1, <5>1
        <4>6. x[n] \in Branches(ss, y)
          BY <1>3, <4>1, <4>5 DEF Stands
        <4> QED BY <4>2, <4>4, <4>6
      <3> QED BY <3>1, <3>2
    <2>7. Stands(x)'
      BY <2>6 DEF Stands
    <2>8. x \in collectPaths'
      BY <1>2, <1>3, <2>4, <2>7 DEF PathsAre
    <2>9. parentOf(x) = up /\ valueOfPath(x) = m
      BY <1>1, <2>4, <2>5 DEF parentOf, valueOfPath
    <2> QED BY <1>1, <1>11, <2>8, <2>9
  <1> QED BY <1>12, <1>13

\* What was hidden in either, and the merges of both, are there.
LEMMA CarriedOver ==
    ASSUME TreeTypeOK, NEW p, NEW q, NEW r, DropStep(p, q, r),
           NEW k \in TreePaths, IsPrefix(p, k) \/ IsPrefix(q, k),
           NEW x, x = mergedNodePath(p, q) \o SubSeq(k, Len(mergedNodePath(p, q)) + 1, Len(k))
    PROVE  /\ k \in DOMAIN hidden => hidden[k] \subseteq At(hidden', x, {})
           /\ k \in DOMAIN merges => ToSet(merges[k]) \subseteq ToSet(At(merges', x, <<>>))
  <1>1. x = MovesTo(k, p, q) /\ Len(x) = Len(k) /\ Siblings(p, q)
    BY MovedTo DEF DropStep
  <1>2. x # parentOf(p)
    <2>1. Len(p) <= Len(k) /\ Len(parentOf(p)) = Len(p) - 1 /\ Len(p) \in Nat /\ Len(k) \in Nat
      BY <1>1, MergedPath DEF IsPrefix, Siblings, TreePaths
    <2> QED BY <1>1, <2>1
  <1>3. ASSUME k \in DOMAIN hidden PROVE hidden[k] \subseteq At(hidden', x, {})
    BY <1>1, <1>3, HiddenMoves DEF DropStep, At
  <1>4. ASSUME k \in DOMAIN merges PROVE ToSet(merges[k]) \subseteq ToSet(At(merges', x, <<>>))
    <2>1. x \in MovedPaths(merges, p, q)
      BY <1>1, <1>4 DEF MovedPaths
    <2>2. ToSet(merges[k]) \subseteq ToSet(r.merges[x])
      BY <1>1, <1>4, <2>1, ListsMove DEF DropStep
    <2>3. At(merges', x, <<>>) = r.merges[x]
      BY <1>2, <2>1 DEF DropStep, Remap, Put, At
    <2> QED BY <2>2, <2>3
  <1> QED BY <1>3, <1>4

\* MergeLands, at a step.
LEMMA Lands ==
    ASSUME TreeTypeOK, TreeTypeOK', drag # <<>>, NEW q \in Displayed, DropMerge(q)
    PROVE  Landed(drag[1].path, q)
  <1> PICK p, new : p = drag[1].path /\ new = mergedNodePath(p, q)
    OBVIOUS
  <1> DEFINE moved(k) == new \o SubSeq(k, Len(new) + 1, Len(k))
  <1>1. PICK r : DropStep(p, q, r)
    BY Drops
  <1>2. DOMAIN hidden \subseteq TreePaths /\ DOMAIN merges \subseteq TreePaths
    BY LayoutTypes
  <1>3. p \in Displayed =>
          \E m \in {valueOfPath(k) : k \in {x \in collectPaths' : parentOf(x) = parentOf(p)}}
                   \union At(hidden, parentOf(p), {}) :
             /\ valueOfPath(new) \subseteq m
             /\ Disjoint(At(merges, parentOf(p), <<>>)) => m = valueOfPath(new)
    BY <1>1, ShownAsOne DEF Displayed
  <1>4. ASSUME NEW k \in DOMAIN hidden, IsPrefix(p, k) \/ IsPrefix(q, k)
        PROVE  hidden[k] \subseteq At(hidden', moved(k), {})
    BY <1>1, <1>2, <1>4, CarriedOver
  <1>5. ASSUME NEW k \in DOMAIN merges, IsPrefix(p, k) \/ IsPrefix(q, k)
        PROVE  ToSet(merges[k]) \subseteq ToSet(At(merges', moved(k), <<>>))
    BY <1>1, <1>2, <1>5, CarriedOver
  <1> QED BY <1>3, <1>4, <1>5 DEF Landed
-----------------------------------------------------------------------------
(* The types of the tree, which the merge relies on.                       *)

\* A stack of dimensions without one of them (Without).
Gather(acc, x, d) == IF x = d THEN acc ELSE Append(acc, x)

\* What is left is a stack still.
LEMMA WithoutOne ==
    ASSUME NEW T, NEW gs \in Seq(T), NEW d
    PROVE  Without(gs, d) \in Seq(T)
  <1> PICK S : S = Seq(T)
    OBVIOUS
  <1> PICK top : top = Len(gs)
    OBVIOUS
  <1> PICK step : step = [x \in (1..top) \X S |-> Gather(x[2], gs[x[1]], d)]
    OBVIOUS
  <1> DEFINE Rec(it) == [s \in SUBSET DOMAIN gs |-> IF s = {} THEN <<>>
                               ELSE Gather(it[s \ {Max(s)}], gs[Max(s)], d)]
  <1>0. top \in Nat /\ DOMAIN gs = 1..top
    OBVIOUS
  <1>1. ASSUME NEW n \in 1..top, NEW x \in S
        PROVE  step[<<n, x>>] = Gather(x, gs[n], d) /\ Gather(x, gs[n], d) \in S
    <2>1. step[<<n, x>>] = Gather(x, gs[n], d)
      OBVIOUS
    <2>2. Append(x, gs[n]) \in Seq(T)
      OBVIOUS
    <2>3. Gather(x, gs[n], d) \in S
      BY <2>2 DEF Gather
    <2> QED BY <2>1, <2>3
  <1>2. PICK f \in [SUBSET (1..top) -> S] :
            \A s \in SUBSET (1..top) : f[s] = IF s = {} THEN <<>>
              ELSE step[<<Max(s), f[s \ {Max(s)}]>>]
    <2>1. <<>> \in S
      BY EmptySeq
    <2>2. StepsIn(S, top, step)
      BY <1>1 DEF StepsIn
    <2>3. PICK f : Folds(f, S, <<>>, top, step)
      BY <1>0, <2>1, <2>2, FoldsExist
    <2> QED BY <2>3 DEF Folds
  <1>3. f = Rec(f)
    <2>1. ASSUME NEW s \in SUBSET (1..top), s # {}
          PROVE  step[<<Max(s), f[s \ {Max(s)}]>>] = Gather(f[s \ {Max(s)}], gs[Max(s)], d)
      <3>1. Max(s) \in 1..top
        BY <1>0, <2>1, MaxIn
      <3>2. f[s \ {Max(s)}] \in S
        <4>1. s \ {Max(s)} \in SUBSET (1..top)
          BY <2>1
        <4> QED BY <4>1
      <3> QED BY <3>1, <3>2, <1>1
    <2> QED BY <1>0, <1>2, <2>1
  <1>4. PICK it : it = (CHOOSE g : g = Rec(g))
    OBVIOUS
  <1>5. it = Rec(it)
    BY <1>3, <1>4
  <1>6. Without(gs, d) = it[1..top]
    BY <1>0, <1>4 DEF Without, FoldLeft, MapThenFoldSet, Gather
  <1> DEFINE A == {i \in 0..top : it[1..i] \in Seq(T)}
  <1>7. 0 \in A
    <2>1. 1..0 = {} /\ {} \in SUBSET DOMAIN gs /\ 0 \in 0..top
      BY <1>0
    <2>2. it[{}] = <<>>
      BY <1>5, <2>1
    <2>3. it[1..0] \in Seq(T)
      BY <2>1, <2>2, EmptySeq
    <2> QED BY <2>1, <2>3
  <1>8. ASSUME NEW n \in 0..(top - 1), n \in A PROVE n + 1 \in A
    <2> PICK i : i = n + 1
      OBVIOUS
    <2>1. i \in 1..top /\ i \in 0..top /\ i - 1 = n /\ gs[i] \in T
      BY <1>0
    <2>2. 1..i \in SUBSET DOMAIN gs /\ i \in 1..i /\ (1..i) \ {i} = 1..n /\ 1..i # {}
      <3>1. 1..i \in SUBSET (1..top) /\ i \in 1..i
        BY <1>0, <2>1
      <3>2. (1..i) \ {i} = 1..n
        BY <1>0, <2>1
      <3> QED BY <1>0, <3>1, <3>2
    <2>3. Max(1..i) = i
      <3>1. 1..i \in SUBSET Int /\ \A y \in 1..i : y <= i
        BY <2>1
      <3> QED BY <3>1, <2>2, MaxIs
    <2>4. it[1..i] = Gather(it[1..n], gs[i], d)
      BY <1>5, <2>2, <2>3
    <2>5. it[1..n] \in Seq(T)
      BY <1>8
    <2>6. it[1..i] \in Seq(T)
      <3>1. Append(it[1..n], gs[i]) \in Seq(T)
        BY <2>1, <2>5, AppendProperties
      <3> QED BY <2>4, <2>5, <3>1 DEF Gather
    <2> QED BY <2>1, <2>6
  <1>9. 0..top \subseteq A
    <2> HIDE DEF A
    <2> QED BY <1>0, <1>7, <1>8, UpTo
  <1>10. top \in 0..top
    BY <1>0
  <1> QED BY <1>6, <1>9, <1>10

\* The parts of TreeTypeOK.
RowsTyped(x) == DOMAIN x \subseteq TreeEndpoints /\ x \in [DOMAIN x -> [Dims -> TreeValues]]

\* A drag carries endpoints of the tree and the path of a branch.
DragTyped == drag # <<>> => drag[1].ids \subseteq TreeEndpoints /\ drag[1].path \in TreePaths

\* What the timer will save is a layout.
TimerTyped == timer # <<>> => IsLayout(timer[1])

\* So is what the preferences hold.
StoredTyped == stored # <<>> => IsLayout(stored[1])

\* A request moves endpoints to a group, saves a layout or loads.
CallTyped(c) ==
    \/ c.op = "move" /\ c.ids \subseteq TreeEndpoints /\ c.to \in TreeValues
    \/ c.op = "put" /\ IsLayout(c.layout)
    \/ c.op = "load"

\* All requests.
CallsTyped == \A c \in treeCalls : CallTyped(c)

\* What is open is paths, what is selected is rows.
OpenTyped == expanded \subseteq TreePaths /\ selected \subseteq DOMAIN treeRows

\* The number of clicks, and whether a save met another.
ActsTyped == treeActs \in 0..MaxTreeActs /\ lapsed \in BOOLEAN

\* All of them.
Typed == /\ RowsTyped(ise) /\ RowsTyped(treeRows) /\ IsLayout(TheLayout) /\ OpenTyped /\ DragTyped
         /\ TimerTyped /\ StoredTyped /\ CallsTyped /\ ActsTyped

\* They are TreeTypeOK.
LEMMA TypedIs == TreeTypeOK <=> Typed
  BY DEF TreeTypeOK, Typed, RowsTyped, DragTyped, TimerTyped, StoredTyped, CallTyped, CallsTyped,
         OpenTyped, ActsTyped, TheLayout

\* A layout by its parts.
LayoutIs(g, b, m, h) ==
    /\ g \in Seq(Dims)
    /\ DOMAIN b \subseteq TreePaths /\ \A p \in DOMAIN b : b[p] \in Dims \union {""}
    /\ DOMAIN h \subseteq TreePaths /\ \A p \in DOMAIN h : h[p] \subseteq Keys
    /\ DOMAIN m \subseteq TreePaths /\ IsFiniteSet(DOMAIN m)
    /\ \A p \in DOMAIN m : m[p] \in Seq(Pairs)

\* That is IsLayout.
LEMMA LayoutParts ==
    /\ \A l : IsLayout(l) <=> LayoutIs(l.groupBy, l.branchDim, l.merges, l.hidden)
    /\ IsLayout(TheLayout) <=> LayoutIs(groupBy, branchDim, merges, hidden)
    /\ IsLayout(TheLayout)' <=> LayoutIs(groupBy', branchDim', merges', hidden')
  <1>1. \A l : IsLayout(l) <=> LayoutIs(l.groupBy, l.branchDim, l.merges, l.hidden)
    BY DEF IsLayout, LayoutIs, Pairs
  <1>2. /\ TheLayout.groupBy = groupBy /\ TheLayout.branchDim = branchDim
        /\ TheLayout.merges = merges /\ TheLayout.hidden = hidden
    BY DEF TheLayout
  <1>3. IsLayout(TheLayout) <=> LayoutIs(groupBy, branchDim, merges, hidden)
    BY <1>1, <1>2
  <1>4. IsLayout(TheLayout)' <=> LayoutIs(groupBy', branchDim', merges', hidden')
    <2>1. PICK l : l = TheLayout'
      OBVIOUS
    <2>2. l.groupBy = groupBy' /\ l.branchDim = branchDim' /\ l.merges = merges'
            /\ l.hidden = hidden'
      BY <2>1 DEF TheLayout
    <2>3. IsLayout(TheLayout)' <=> IsLayout(l)
      BY <2>1 DEF IsLayout
    <2> QED BY <1>1, <2>2, <2>3
  <1> QED BY <1>1, <1>3, <1>4

\* What is saved of a layout is one.
LEMMA SavedLayout ==
    ASSUME NEW l, IsLayout(l)
    PROVE  IsLayout(Saved(l))
  <1> PICK s : s = Saved(l)
    OBVIOUS
  <1> PICK D : D = {q \in DOMAIN l.merges : l.merges[q] # <<>>}
    OBVIOUS
  <1>1. /\ s.groupBy = l.groupBy /\ s.branchDim = l.branchDim
        /\ s.merges = [p \in D |-> l.merges[p]]
        /\ s.hidden = [p \in {q \in DOMAIN l.hidden : l.hidden[q] # {}} |-> l.hidden[p]]
    BY DEF Saved
  <1>2. LayoutIs(l.groupBy, l.branchDim, l.merges, l.hidden)
    BY LayoutParts
  <1>3. IsFiniteSet(D)
    <2>1. D \in SUBSET DOMAIN l.merges /\ IsFiniteSet(DOMAIN l.merges)
      BY <1>2 DEF LayoutIs
    <2> QED BY <2>1, FS_Subset
  <1>4. DOMAIN s.merges = D
    BY <1>1
  <1>5. LayoutIs(s.groupBy, s.branchDim, s.merges, s.hidden)
    BY <1>1, <1>2, <1>3, <1>4 DEF LayoutIs
  <1>6. IsLayout(s)
    BY <1>5, LayoutParts
  <1> QED BY <1>6

\* What is saved is a layout.
LEMMA CurrentIs == IsLayout(TheLayout) => IsLayout(currentLayout)
  <1>1. currentLayout = Saved(TheLayout)
    BY DEF currentLayout, TheLayout
  <1> QED BY <1>1, SavedLayout

\* A rendering leaves what it saves and what is selected in order.
LEMMA RenderTyped ==
    ASSUME IsLayout(TheLayout)', TimerTyped, NEW sel, renderTree(sel)
    PROVE  TimerTyped' /\ selected' \subseteq DOMAIN treeRows'
  <1>1. IsLayout(currentLayout)'
    <2>1. (IsLayout(TheLayout) => IsLayout(currentLayout))'
      BY CurrentIs, PTL
    <2> QED BY <2>1
  <1>2. timer' = timer \/ timer' = <<currentLayout'>>
    BY DEF renderTree, persistLayoutIfChanged
  <1>3. TimerTyped'
    BY <1>1, <1>2 DEF TimerTyped
  <1> QED BY <1>3 DEF renderTree

\* A click leaves the endpoints, what is stored, and what is asked of ISE.
LEMMA ActTyped == ASSUME ActsTyped, TreeAct, lapsed' = lapsed PROVE ActsTyped'
  BY TreeAssumption DEF ActsTyped, TreeAct

\* A click that changes the layout keeps the types if what it makes is a layout.
LEMMA LayoutClick ==
    ASSUME Typed, Layout, LayoutIs(groupBy', branchDim', merges', hidden'), NEW sel,
           renderTree(sel)
    PROVE  Typed'
  <1>1. IsLayout(TheLayout)'
    BY LayoutParts
  <1>2. TimerTyped' /\ selected' \subseteq DOMAIN treeRows'
    BY <1>1, RenderTyped DEF Typed
  <1>3. ActsTyped'
    BY ActTyped DEF Typed, Layout
  <1> QED BY <1>1, <1>2, <1>3 DEF Typed, Layout, RowsTyped, OpenTyped, DragTyped, StoredTyped,
             CallsTyped

\* So does one that changes what is open or selected.
LEMMA LookClick ==
    ASSUME Typed, Look, expanded' \subseteq TreePaths, NEW sel, renderTree(sel)
    PROVE  Typed'
  <1>1. IsLayout(TheLayout)'
    BY DEF Typed, Look, layoutVars, TheLayout
  <1>2. TimerTyped' /\ selected' \subseteq DOMAIN treeRows'
    BY <1>1, RenderTyped DEF Typed
  <1>3. ActsTyped'
    BY ActTyped DEF Typed, Look
  <1> QED BY <1>1, <1>2, <1>3 DEF Typed, Look, RowsTyped, OpenTyped, DragTyped, StoredTyped,
             CallsTyped

\* What the tree shows are paths, branches and endpoints.
LEMMA ThePaths ==
    ASSUME Typed
    PROVE  /\ collectPaths \subseteq TreePaths
           /\ \A p \in collectPaths : Len(p) \in Nat \ {0} /\ valueOfPath(p) \in Keys
                /\ parentOf(p) \in TreePaths
           /\ \A p \in TreePaths : Under(p) \subseteq TreeEndpoints
           /\ Leaves \subseteq TreeEndpoints /\ <<>> \in TreePaths
  <1>1. TreeTypeOK
    BY TypedIs
  <1>2. PathsAre
    BY <1>1, PathsAreThese
  <1>3. collectPaths \subseteq TreePaths
    BY <1>2 DEF PathsAre
  <1>4. ASSUME NEW p \in collectPaths
        PROVE  Len(p) \in Nat \ {0} /\ valueOfPath(p) \in Keys /\ parentOf(p) \in TreePaths
    <2>1. p \in TreePaths /\ Len(p) \in 1..MaxDepth /\ MaxDepth \in Nat
      BY <1>2, TreeAssumption DEF PathsAre
    <2>2. Len(p) - 1 \in 0..Len(p) /\ Len(p) \in 1..Len(p)
      BY <2>1
    <2>3. parentOf(p) \in TreePaths
      BY <2>1, <2>2, Starts1 DEF parentOf
    <2>4. p[Len(p)] \in Keys
      BY <2>1, <2>2 DEF TreePaths
    <2> QED BY <2>1, <2>3, <2>4 DEF valueOfPath
  <1>5. \A p \in TreePaths : Under(p) \subseteq TreeEndpoints
    BY UnderAre DEF UnderIs, Typed, RowsTyped
  <1>6. <<>> \in TreePaths
    BY EmptySeq DEF TreePaths
  <1>7. Leaves \subseteq TreeEndpoints
    <2> SUFFICES ASSUME NEW x \in Leaves PROVE x \in TreeEndpoints
      OBVIOUS
    <2>1. PICK p \in {<<>>} \union {q \in Displayed : q \in expanded} : x \in Under(p)
      BY DEF Leaves
    <2>2. p \in TreePaths
      BY <1>3, <1>6 DEF Displayed
    <2> QED BY <1>5, <2>1, <2>2
  <1> QED BY <1>3, <1>4, <1>5, <1>6, <1>7

\* The layout on screen by its parts.
LEMMA LayoutNow ==
    ASSUME Typed
    PROVE  LayoutIs(groupBy, branchDim, merges, hidden)
  BY LayoutParts DEF Typed

\* A dimension added (add-dim).
LEMMA AddDimTyped == ASSUME Typed, NEW d \in Dims, AddDim(d) PROVE Typed'
  <1>1. LayoutIs(groupBy', branchDim', merges', hidden')
    BY LayoutNow, AppendProperties DEF AddDim, LayoutIs
  <1> QED BY <1>1, LayoutClick DEF AddDim

\* One removed (del-dim).
LEMMA DelDimTyped == ASSUME Typed, NEW d \in Dims, DelDim(d) PROVE Typed'
  <1>1. LayoutIs(groupBy', branchDim', merges', hidden')
    BY LayoutNow, WithoutOne DEF DelDim, LayoutIs
  <1> QED BY <1>1, LayoutClick DEF DelDim

\* A branch hidden.
LEMMA HideTyped == ASSUME Typed, NEW p \in Displayed, HideBranch(p) PROVE Typed'
  <1>1. valueOfPath(p) \in Keys /\ parentOf(p) \in TreePaths
    BY ThePaths DEF Displayed
  <1>2. LayoutIs(groupBy', branchDim', merges', hidden')
    <2>1. At(hidden, parentOf(p), {}) \subseteq Keys
      BY LayoutNow DEF LayoutIs, At
    <2>2. DOMAIN hidden' \subseteq TreePaths
            /\ \A k \in DOMAIN hidden' : hidden'[k] \subseteq Keys
      BY <1>1, <2>1, LayoutNow DEF HideBranch, Put, LayoutIs
    <2> QED BY <2>2, LayoutNow DEF HideBranch, LayoutIs
  <1> QED BY <1>2, LayoutClick DEF HideBranch

\* A branch split by a dimension of its own.
LEMMA SetDimTyped ==
    ASSUME Typed, NEW p \in Displayed, NEW d \in Dims \union {"", "default"}, SetDim(p,
           d) PROVE Typed'
  <1>1. p \in TreePaths
    BY ThePaths DEF Displayed
  <1>2. LayoutIs(groupBy', branchDim', merges', hidden')
    <2>1. DOMAIN branchDim' \subseteq TreePaths
            /\ \A k \in DOMAIN branchDim' : branchDim'[k] \in Dims \union {""}
      <3>1. CASE d = "default"
        BY <3>1, LayoutNow DEF SetDim, Drop, LayoutIs
      <3>2. CASE d # "default"
        BY <1>1, <3>2, LayoutNow DEF SetDim, Put, LayoutIs
      <3> QED BY <3>1, <3>2
    <2> QED BY <2>1, LayoutNow DEF SetDim, LayoutIs
  <1> QED BY <1>2, LayoutClick DEF SetDim

\* All customizations removed.
LEMMA ResetTyped == ASSUME Typed, ResetView PROVE Typed'
  <1>1. LayoutIs(groupBy', branchDim', merges', hidden')
    <2>1. DOMAIN Empty = {} /\ IsFiniteSet({})
      BY FS_EmptySet DEF Empty
    <2> QED BY <2>1, LayoutNow DEF ResetView, LayoutIs
  <1> QED BY <1>1, LayoutClick DEF ResetView

\* Branches opened, closed and selected.
LEMMA LookTyped ==
    ASSUME Typed,
           \/ \E p \in Displayed : ToggleBranch(p) \/ SelectBranch(p)
           \/ \E e \in Leaves : SelectLeaf(e)
           \/ ExpandAll \/ CollapseAll
    PROVE  Typed'
  <1>1. Displayed \subseteq TreePaths /\ collectPaths \subseteq TreePaths
          /\ expanded \subseteq TreePaths
    BY ThePaths DEF Displayed, Typed, OpenTyped
  <1>2. Look /\ expanded' \subseteq TreePaths /\ \E sel : renderTree(sel)
    <2>1. ASSUME NEW p \in Displayed, ToggleBranch(p)
          PROVE  Look /\ expanded' \subseteq TreePaths /\ \E sel : renderTree(sel)
      BY <1>1, <2>1 DEF ToggleBranch
    <2>2. ASSUME NEW p \in Displayed, SelectBranch(p)
          PROVE  Look /\ expanded' \subseteq TreePaths /\ \E sel : renderTree(sel)
      BY <1>1, <2>2 DEF SelectBranch
    <2>3. ASSUME NEW e \in Leaves, SelectLeaf(e)
          PROVE  Look /\ expanded' \subseteq TreePaths /\ \E sel : renderTree(sel)
      BY <1>1, <2>3 DEF SelectLeaf
    <2>4. ASSUME ExpandAll PROVE Look /\ expanded' \subseteq TreePaths /\ \E sel : renderTree(sel)
      BY <1>1, <2>4 DEF ExpandAll
    <2>5. ASSUME CollapseAll
          PROVE  Look /\ expanded' \subseteq TreePaths /\ \E sel : renderTree(sel)
      BY <1>1, <2>5 DEF CollapseAll
    <2> QED BY <2>1, <2>2, <2>3, <2>4, <2>5
  <1> QED BY <1>2, LookClick

\* A merge is of two values at least, as every one before.
LEMMA DropTyped == ASSUME Typed, NEW q \in Displayed, DropMerge(q) PROVE Typed'
  <1> PICK p : p = drag[1].path
    OBVIOUS
  <1>1. TreeTypeOK
    BY TypedIs
  <1>2. PICK r : DropStep(p, q, r)
    BY <1>1, Drops DEF DropMerge
  <1> PICK up, a, b : up = parentOf(p) /\ a = valueOfPath(p) /\ b = valueOfPath(q)
    OBVIOUS
  <1>3. Siblings(p, q) /\ up \in TreePaths /\ a \in Keys /\ b \in Keys /\ a # b
    <2>1. Siblings(p, q)
      BY <1>2 DEF DropStep
    <2> QED BY <2>1, MergedPath
  <1>4. ASSUME NEW f, DOMAIN f \subseteq TreePaths PROVE MovedPaths(f, p, q) \subseteq TreePaths
    BY <1>3, <1>4, MovedTo DEF MovedPaths
  <1>5. Remap(r, p, q)
    BY <1>2 DEF DropStep
  <1>6. DOMAIN branchDim' \subseteq TreePaths
          /\ \A k \in DOMAIN branchDim' : branchDim'[k] \in Dims \union {""}
    <2>1. MovedPaths(branchDim, p, q) \subseteq TreePaths
      BY <1>4, LayoutNow DEF LayoutIs
    <2>2. branchDim' \in [MovedPaths(branchDim, p, q) -> Dims \union {""}]
      BY <1>2, <1>5 DEF DropStep, Remap
    <2> QED BY <2>1, <2>2
  <1>7. DOMAIN hidden' \subseteq TreePaths /\ \A k \in DOMAIN hidden' : hidden'[k] \subseteq Keys
    <2>1. MovedPaths(hidden, p, q) \subseteq TreePaths
      BY <1>4, LayoutNow DEF LayoutIs
    <2>2. \A x : UNION MovedFrom(hidden, x, p, q) \subseteq Keys
      BY LayoutNow DEF LayoutIs, MovedFrom
    <2>3. hidden' = [x \in MovedPaths(hidden, p, q) |-> UNION MovedFrom(hidden, x, p, q)]
      BY <1>2, <1>5 DEF DropStep, Remap
    <2> QED BY <2>1, <2>2, <2>3
  <1> PICK M : M = MovedPaths(merges, p, q)
    OBVIOUS
  <1>8. M \subseteq TreePaths /\ IsFiniteSet(M)
    BY <1>4, LayoutNow, FromFinite DEF LayoutIs
  <1>9. \A x \in M : r.merges[x] \in Seq(Pairs)
    BY <1>1, <1>5, ListsMove
  <1>10. DOMAIN r.merges = M
    BY <1>5 DEF Remap
  <1> PICK gs : gs = At(r.merges, up, <<>>)
    OBVIOUS
  <1>11. gs \in Seq(Pairs)
    BY <1>9, <1>10, EmptySeq DEF At
  <1>12. mergeValues(gs, a, b) \in Seq(Pairs)
    <2>1. Pairs \in SUBSET Keys
      BY DEF Pairs
    <2>2. PICK acc : /\ Taking(gs, a, b, Pairs, Len(gs), acc)
                     /\ mergeValues(gs, a, b) = Append(acc.keep, acc.union)
      BY <1>3, <1>11, <2>1, MergedValues
    <2>3. acc.keep \in Seq(Pairs) /\ acc.union \in SUBSET TreeValues
            /\ a \union b \subseteq acc.union
      BY <2>2 DEF Taking
    <2>4. \E x, y \in acc.union : x # y
      <3>1. a # {} /\ b # {}
        BY <1>3 DEF Keys
      <3>2. (\E x \in a : x \notin b) \/ (\E x \in b : x \notin a)
        BY <1>3
      <3> QED BY <2>3, <3>1, <3>2
    <2>5. acc.union \in Pairs
      BY <2>3, <2>4 DEF Pairs, Keys
    <2> QED BY <2>2, <2>3, <2>5, AppendProperties
  <1>13. merges' = Put(r.merges, up, mergeValues(gs, a, b))
    BY <1>2 DEF DropStep
  <1>14. /\ DOMAIN merges' \subseteq TreePaths /\ IsFiniteSet(DOMAIN merges')
         /\ \A k \in DOMAIN merges' : merges'[k] \in Seq(Pairs)
    <2>1. DOMAIN merges' = M \union {up}
      BY <1>10, <1>13 DEF Put
    <2>2. IsFiniteSet(M \union {up})
      BY <1>8, FS_AddElement
    <2>3. \A k \in M \union {up} : merges'[k] = IF k = up THEN mergeValues(gs, a, b)
            ELSE r.merges[k]
      BY <1>10, <1>13 DEF Put
    <2> QED BY <1>3, <1>8, <1>9, <1>12, <2>1, <2>2, <2>3
  <1>15. groupBy' \in Seq(Dims)
    BY LayoutNow DEF DropMerge, LayoutIs
  <1>16. IsLayout(TheLayout)'
    BY <1>6, <1>7, <1>14, <1>15, LayoutParts DEF LayoutIs
  <1>17. TimerTyped' /\ selected' \subseteq DOMAIN treeRows'
    <2>1. renderTree(selected)
      BY DEF DropMerge
    <2> QED BY <1>16, <2>1, RenderTyped DEF Typed
  <1>18. ActsTyped'
    BY ActTyped DEF Typed, DropMerge
  <1> QED BY <1>16, <1>17, <1>18 DEF Typed, DropMerge, RowsTyped, OpenTyped, DragTyped,
             StoredTyped, CallsTyped

\* A branch taken up, and let go of.
LEMMA DragTypes == ASSUME Typed, DragStart \/ DragEnd PROVE Typed'
  <1>1. DragTyped'
    <2>1. CASE DragEnd
      BY <2>1 DEF DragEnd, DragTyped
    <2>2. ASSUME NEW p \in Displayed, drag' = <<[ids |-> Under(p), gid |-> GroupOf(p),
                 path |-> p]>>
          PROVE  DragTyped'
      <3>1. p \in TreePaths
        BY ThePaths DEF Displayed
      <3> QED BY <2>2, <3>1, ThePaths DEF DragTyped
    <2>3. ASSUME NEW e \in Leaves, drag' = <<[ids |-> {e}, gid |-> "", path |-> <<>>]>>
          PROVE  DragTyped'
      BY <2>3, ThePaths DEF DragTyped
    <2> QED BY <2>1, <2>2, <2>3 DEF DragStart
  <1>2. UNCHANGED <<ise, treeRows, layoutVars, renderVars, expanded, stored, treeCalls, treeActs,
          lapsed>>
    BY DEF DragStart, DragEnd
  <1> QED BY <1>1, <1>2 DEF Typed, layoutVars, renderVars, RowsTyped, TheLayout, OpenTyped,
             TimerTyped,
                            StoredTyped, CallsTyped, ActsTyped

\* The group a branch stands for.
LEMMA GroupTyped ==
    ASSUME Typed, NEW q \in Displayed
    PROVE  GroupOf(q) = "" \/ GroupOf(q) \in TreeValues
  <1>1. valueOfPath(q) \in Keys
    BY ThePaths DEF Displayed
  <1>2. \A k \in Keys : (CHOOSE g \in k : TRUE) \in TreeValues
    BY DEF Keys
  <1> QED BY <1>1, <1>2 DEF GroupOf

\* Endpoints dropped on a group.
LEMMA GroupDropTyped == ASSUME Typed, NEW q \in Displayed, DropOnGroup(q) PROVE Typed'
  <1> PICK c : c = [op |-> "move", ids |-> drag[1].ids, to |-> GroupOf(q)]
    OBVIOUS
  <1>1. CallTyped(c)
    <2>1. GroupOf(q) \in TreeValues
      BY GroupTyped DEF DropOnGroup
    <2>2. drag[1].ids \subseteq TreeEndpoints
      BY DEF DropOnGroup, Typed, DragTyped
    <2> QED BY <2>1, <2>2 DEF CallTyped
  <1>2. CallsTyped'
    <2>1. treeCalls' = treeCalls \union {c}
      BY DEF DropOnGroup
    <2> QED BY <1>1, <2>1 DEF Typed, CallsTyped
  <1>3. DragTyped' /\ ActsTyped'
    BY ActTyped DEF DropOnGroup, DragTyped, Typed
  <1> QED BY <1>2, <1>3 DEF Typed, DropOnGroup, layoutVars, renderVars, RowsTyped, TheLayout,
             OpenTyped,
                            TimerTyped, StoredTyped

\* A row in another group is a row.
LEMMA Regrouped ==
    ASSUME NEW x, RowsTyped(x), NEW e \in DOMAIN x, NEW g \in TreeValues
    PROVE  RowsTyped([x EXCEPT ![e]["group"] = g])
  <1>1. [x[e] EXCEPT !["group"] = g] \in [Dims -> TreeValues]
    BY DEF RowsTyped
  <1>2. [x EXCEPT ![e] = [x[e] EXCEPT !["group"] = g]] \in [DOMAIN x -> [Dims -> TreeValues]]
    BY <1>1 DEF RowsTyped
  <1>3. [x EXCEPT ![e]["group"] = g] = [x EXCEPT ![e] = [x[e] EXCEPT !["group"] = g]]
    OBVIOUS
  <1> QED BY <1>2, <1>3 DEF RowsTyped

\* The answer to one of them.
LEMMA MoveTyped ==
    ASSUME Typed, NEW c \in treeCalls, c.op = "move", MoveAnswered(c) PROVE Typed'
  <1>0. CallTyped(c)
    BY DEF Typed, CallsTyped
  <1>1. c.ids \subseteq TreeEndpoints /\ c.to \in TreeValues
    BY <1>0 DEF CallTyped
  <1>2. PICK e \in c.ids :
          /\ ise' = IF e \in DOMAIN ise THEN [ise EXCEPT ![e]["group"] = c.to] ELSE ise
          /\ treeCalls' = (treeCalls \ {c}) \union
                           {IF c.ids = {e} THEN [op |-> "load"] ELSE [c EXCEPT !.ids = @ \ {e}]}
    BY DEF MoveAnswered
  <1>3. RowsTyped(ise)'
    <2>1. RowsTyped(ise')
      BY <1>1, <1>2, Regrouped DEF Typed
    <2> QED BY <2>1 DEF RowsTyped
  <1>4. CallsTyped'
    <2> PICK n : n = IF c.ids = {e} THEN [op |-> "load"] ELSE [c EXCEPT !.ids = @ \ {e}]
      OBVIOUS
    <2>1. CallTyped(n)
      <3>1. CASE c.ids = {e}
        BY <3>1 DEF CallTyped
      <3>2. CASE c.ids # {e}
        <4>1. n.op = c.op /\ n.to = c.to /\ n.ids \subseteq c.ids
          BY <3>2
        <4> QED BY <1>1, <4>1 DEF CallTyped
      <3> QED BY <3>1, <3>2
    <2> QED BY <1>2, <2>1 DEF Typed, CallsTyped
  <1>5. UNCHANGED <<treeRows, layoutVars, renderVars, expanded, drag, stored, treeActs, lapsed>>
    BY DEF MoveAnswered
  <1> QED BY <1>3, <1>4, <1>5 DEF Typed, layoutVars, renderVars, RowsTyped, TheLayout, OpenTyped,
                                  DragTyped, TimerTyped, StoredTyped, ActsTyped

\* A list that was loaded.
LEMMA LoadTyped == ASSUME Typed, NEW c, Loaded(c) PROVE Typed'
  <1>1. IsLayout(TheLayout)'
    BY DEF Typed, Loaded, layoutVars, TheLayout
  <1>2. TimerTyped' /\ selected' \subseteq DOMAIN treeRows'
    BY <1>1, RenderTyped DEF Typed, Loaded
  <1> QED BY <1>1, <1>2 DEF Typed, Loaded, RowsTyped, OpenTyped, DragTyped, StoredTyped,
             CallsTyped, ActsTyped

\* A change in ISE.
LEMMA ChangeTyped == ASSUME Typed, NEW e \in TreeEndpoints, ChangedInIse(e) PROVE Typed'
  <1>1. RowsTyped(ise)'
    <2>1. RowsTyped(Drop(ise, e))
      BY DEF Typed, RowsTyped, Drop
    <2>2. ASSUME NEW g \in {FirstRows[x]["group"] : x \in TreeEndpoints}
          PROVE  RowsTyped([ise EXCEPT ![e]["group"] = g])
      <3>1. g \in TreeValues
        BY TreeAssumption
      <3> QED BY <3>1, Regrouped DEF Typed, ChangedInIse
    <2>3. RowsTyped(ise')
      BY <2>1, <2>2 DEF ChangedInIse
    <2> QED BY <2>3 DEF RowsTyped
  <1>2. CallsTyped'
    BY DEF Typed, CallsTyped, CallTyped, ChangedInIse
  <1>3. ActsTyped'
    BY ActTyped DEF Typed, ChangedInIse
  <1> QED BY <1>1, <1>2, <1>3 DEF Typed, ChangedInIse, layoutVars, renderVars, RowsTyped,
             TheLayout, OpenTyped,
                                  DragTyped, TimerTyped, StoredTyped

\* The timer saves.
LEMMA TimedTyped == ASSUME Typed, SaveTimer PROVE Typed'
  <1>1. CallTyped([op |-> "put", layout |-> timer[1]])
    BY DEF Typed, TimerTyped, SaveTimer, CallTyped
  <1>2. CallsTyped'
    BY <1>1 DEF Typed, CallsTyped, SaveTimer
  <1>3. TimerTyped' /\ ActsTyped'
    BY DEF SaveTimer, TimerTyped, Typed, ActsTyped
  <1> QED BY <1>2, <1>3 DEF Typed, SaveTimer, layoutVars, RowsTyped, TheLayout, OpenTyped,
             DragTyped, StoredTyped

\* The preferences are saved.
LEMMA StoreTyped == ASSUME Typed, NEW c \in treeCalls, c.op = "put", LayoutStored(c) PROVE Typed'
  <1>0. CallTyped(c)
    BY DEF Typed, CallsTyped
  <1>1. IsLayout(c.layout)
    BY <1>0 DEF CallTyped
  <1>2. StoredTyped' /\ ActsTyped' /\ CallsTyped'
    <2>1. StoredTyped'
      BY <1>1 DEF LayoutStored, StoredTyped, Typed
    <2>2. lapsed' \in BOOLEAN /\ treeActs' = treeActs
      BY DEF LayoutStored, Typed, ActsTyped
    <2>3. CallsTyped'
      BY DEF LayoutStored, CallsTyped, Typed
    <2> QED BY <2>1, <2>2, <2>3 DEF Typed, ActsTyped
  <1> QED BY <1>2 DEF Typed, LayoutStored, layoutVars, renderVars, RowsTyped, TheLayout,
             OpenTyped, DragTyped, TimerTyped

\* A tree starts with a layout, saved or default.
LEMMA SeedTyped ==
    ASSUME NEW s, s # <<>> => IsLayout(s[1])
    PROVE  IsLayout(Seeded(s)) /\ IsLayout(DefaultLayout)
  <1>1. IsLayout(DefaultLayout)
    <2>1. DOMAIN Empty = {} /\ IsFiniteSet({})
      BY FS_EmptySet DEF Empty
    <2>2. LayoutIs(DefaultDims, Empty, Empty, Empty)
      BY <2>1, TreeAssumption DEF LayoutIs
    <2>3. /\ DefaultLayout.groupBy = DefaultDims /\ DefaultLayout.branchDim = Empty
          /\ DefaultLayout.merges = Empty /\ DefaultLayout.hidden = Empty
      BY DEF DefaultLayout
    <2> QED BY <2>2, <2>3, LayoutParts
  <1> QED BY <1>1 DEF Seeded

\* The view opened again.
LEMMA ReopenTyped == ASSUME Typed, Reopen PROVE Typed'
  <1>1. PICK l : /\ IsLayout(l)
                 /\ groupBy' = l.groupBy /\ branchDim' = l.branchDim
                 /\ merges' = l.merges /\ hidden' = l.hidden /\ lapsed' \in BOOLEAN
    <2>1. PICK read \in BOOLEAN :
             LET l == IF read THEN Seeded(stored) ELSE DefaultLayout IN
             /\ groupBy' = l.groupBy /\ branchDim' = l.branchDim
             /\ merges' = l.merges /\ hidden' = l.hidden
             /\ lapsed' = (lapsed \/ ~read \/ timer # <<>> \/ \E c \in treeCalls : c.op = "put")
      BY DEF Reopen
    <2>2. IsLayout(Seeded(stored)) /\ IsLayout(DefaultLayout)
      BY SeedTyped DEF Typed, StoredTyped
    <2> QED BY <2>1, <2>2
  <1>2. IsLayout(TheLayout)'
    BY <1>1, LayoutParts
  <1>3. /\ treeRows' = ise /\ expanded' = {} /\ selected' = {} /\ drag' = <<>> /\ TreeAct
        /\ treeCalls' \subseteq treeCalls /\ UNCHANGED <<ise, timer, stored>>
    BY DEF Reopen
  <1>4. ActsTyped'
    BY <1>1, <1>3, TreeAssumption DEF Typed, ActsTyped, TreeAct
  <1> QED BY <1>2, <1>3, <1>4 DEF Typed, RowsTyped, OpenTyped, DragTyped, TimerTyped,
             StoredTyped, CallsTyped

\* Every step keeps the types.
LEMMA TypedSteps == Typed /\ [TreeNext]_treeVars => Typed'
  <1> SUFFICES ASSUME Typed, [TreeNext]_treeVars PROVE Typed'
    OBVIOUS
  <1>1. ASSUME NEW d \in Dims, AddDim(d) PROVE Typed'
    BY <1>1, AddDimTyped
  <1>2. ASSUME NEW d \in Dims, DelDim(d) PROVE Typed'
    BY <1>2, DelDimTyped
  <1>3. ASSUME NEW p \in Displayed, HideBranch(p) PROVE Typed'
    BY <1>3, HideTyped
  <1>4. ASSUME NEW p \in Displayed, ToggleBranch(p) \/ SelectBranch(p) PROVE Typed'
    BY <1>4, LookTyped
  <1>5. ASSUME NEW p \in Displayed, DropMerge(p) PROVE Typed'
    BY <1>5, DropTyped
  <1>6. ASSUME NEW p \in Displayed, DropOnGroup(p) PROVE Typed'
    BY <1>6, GroupDropTyped
  <1>7. ASSUME NEW p \in Displayed, NEW d \in Dims \union {"", "default"}, SetDim(p,
               d) PROVE Typed'
    BY <1>7, SetDimTyped
  <1>8. ASSUME NEW e \in Leaves, SelectLeaf(e) PROVE Typed'
    BY <1>8, LookTyped
  <1>9. CASE ResetView
    BY <1>9, ResetTyped
  <1>10. CASE ExpandAll \/ CollapseAll
    BY <1>10, LookTyped
  <1>11. CASE DragStart \/ DragEnd
    BY <1>11, DragTypes
  <1>12. CASE SaveTimer
    BY <1>12, TimedTyped
  <1>13. CASE Reopen
    BY <1>13, ReopenTyped
  <1>14. ASSUME NEW e \in TreeEndpoints, ChangedInIse(e) PROVE Typed'
    BY <1>14, ChangeTyped
  <1>15. ASSUME NEW c \in treeCalls, TreeAnswer(c) PROVE Typed'
    BY <1>15, MoveTyped, LoadTyped, StoreTyped DEF TreeAnswer
  <1>16. CASE UNCHANGED treeVars
    BY <1>16 DEF treeVars, layoutVars, renderVars, Typed, RowsTyped, TheLayout, OpenTyped,
       DragTyped, TimerTyped,
                 StoredTyped, CallsTyped, ActsTyped
  <1>17. CASE TreeClick
    BY <1>17, <1>1, <1>2, <1>3, <1>4, <1>5, <1>6, <1>7, <1>8, <1>9, <1>10, <1>11 DEF TreeClick
  <1> QED BY <1>12, <1>13, <1>14, <1>15, <1>16, <1>17 DEF TreeNext

\* The tree starts with them.
LEMMA TypedStarts == TreeInit => Typed
  <1> SUFFICES ASSUME TreeInit PROVE Typed
    OBVIOUS
  <1>1. StoredTyped
    BY TreeAssumption DEF TreeInit, StoredTyped
  <1>2. IsLayout(TheLayout)
    <2>1. IsLayout(Seeded(stored))
      BY <1>1, SeedTyped DEF StoredTyped
    <2>2. LayoutIs(Seeded(stored).groupBy, Seeded(stored).branchDim, Seeded(stored).merges,
            Seeded(stored).hidden)
      BY <2>1, LayoutParts
    <2> QED BY <2>2, LayoutParts DEF TreeInit, initTreeState
  <1>3. RowsTyped(FirstRows)
    BY TreeAssumption DEF RowsTyped
  <1>4. OpenTyped /\ DragTyped /\ TimerTyped /\ CallsTyped
    BY DEF TreeInit, OpenTyped, DragTyped, TimerTyped, CallsTyped
  <1>5. ActsTyped
    <2>1. treeActs = 0 /\ lapsed = FALSE
      BY DEF TreeInit
    <2>2. 0 \in 0..MaxTreeActs
      BY TreeAssumption
    <2> QED BY <2>1, <2>2 DEF ActsTyped
  <1> QED BY <1>1, <1>2, <1>3, <1>4, <1>5 DEF TreeInit, Typed

\* The tree keeps its types, whatever is merged, moved, loaded and saved: above all, its
\* customizations are keyed by paths of branches, and its merges are of two values at
\* least (browse-tree.js: initTreeState, mergeValues, remapCustomizationKeys).
THEOREM TreeTyped == TreeSpec => []TreeTypeOK
  <1>1. TreeSpec => []Typed
    BY TypedStarts, TypedSteps, PTL DEF TreeSpec
  <1> QED BY <1>1, TypedIs, PTL

\* Two branches dropped on each other stand as one: one branch of their level, on screen
\* or hidden before, has the values of both, and no others unless merges of that level
\* overlapped; what was hidden and merged at or below either is hidden and merged at or
\* below the merged path (browse-tree.js: mergedNodePath, mergeValues, applyMergesHidden,
\* remapCustomizationKeys), for any dimensions, values, depth and earlier merges.
THEOREM MergesLand == TreeSpec => MergeLands
  <1>1. TreeTypeOK /\ TreeTypeOK' /\ [TreeNext]_treeVars =>
          [drag # <<>> => \A q \in Displayed : DropMerge(q) => Landed(drag[1].path, q)]_treeVars
    BY Lands
  <1> QED BY <1>1, TreeTyped, PTL DEF TreeSpec, MergeLands

-----------------------------------------------------------------------------
(* The detail dialog: one endpoint at a time.                              *)
(*                                                                         *)
(* Nothing is said of an endpoint whose requests overlapped (disturbed).   *)
(* Every other is either not open, and at most its row is still to come    *)
(* (Away), or open, with one thing under way at a time (OneAtATime) and    *)
(* the form, badge and buttons of its own state but for what that one      *)
(* thing will bring (AtHand).  A step of one endpoint does not reach the   *)
(* others, whatever is going on there (StaysAway).                         *)

\* Requests that only read, and put nothing into form, badge or buttons.
Harmless == ReadOps \ {"get", "refresh"}

\* The requests of e.
Of(e) == {c \in dialogCalls : c.id = e}

\* What a command makes of the status it was given for.
After(k, s) ==
  CASE k = "decommission"   -> [decomm |-> TRUE, active |-> "Inaktiv"]
    [] k = "undecommission" -> [decomm |-> FALSE, active |-> "Aktiv"]
    [] OTHER                -> [decomm |-> s.decomm, active |-> k]

\* The quarantine badge is of its endpoint, or on its way.
AncOK(e) ==
  /\ \A c \in Of(e) : c.op = "anc" /\ c.done => c.got.quar = backend[e].quar
  /\ anc.of = e /\ ~Out(AncCmd \cup {"anc"}, e) => anc.quar = backend[e].quar

\* An endpoint whose dialog is not open: at most its row is still to come.
Away(e) ==
  /\ \A c \in Of(e) :
       \/ c.op \in Harmless
       \/ c.op = "refresh" /\ (c.done => StatusOf(c.got) = StatusOf(backend[e]))
  /\ ~Out({"refresh"}, e) => dialogRows[e] = StatusOf(backend[e])

\* One whose dialog is open: one thing at a time.
OneAtATime(e) ==
  /\ \A c \in dialogCalls : c.id = e /\ c.op # "refresh"
  /\ \A c, d \in dialogCalls : c = d \/ c.op \in Harmless \/ d.op \in Harmless
  /\ \A c \in dialogCalls : c.op \in AncCmd \cup {"save", "coa"} => dialogCalls = {c}

\* The form, the row, the badge and the buttons are those of e.
FilledFrom(e) ==
  /\ form.of = e /\ form.vals = e /\ form.role = TRUE /\ (catalog => form.known)
  /\ dialogRows[e] = badge /\ buttons = ButtonsFor(badge)

\* Form, badge and buttons are of e, but for the one thing that is under way.
AtHand(e) ==
  /\ OneAtATime(e)
  /\ \A c \in dialogCalls : c.op = "get" => /\ dialogRows[e] = StatusOf(backend[e])
                                            /\ c.done => c.got = backend[e]
  /\ \A c \in dialogCalls : c.op = "save" => c.sent.vals = e /\ c.sent.role = TRUE
  /\ \A c \in dialogCalls : c.op \in StatusCmd =>
       /\ c.op \in buttons
       /\ StatusOf(backend[e]) = IF c.done THEN After(c.op, badge) ELSE badge
  /\ ~Out({"get", "save", "coa"}, e) => FilledFrom(e)
  /\ ~Out({"get", "save", "coa"} \cup StatusCmd, e) => badge = StatusOf(backend[e])

\* What holds of an endpoint whose requests did not overlap.
Own(e) ==
  /\ backend[e].vals = e /\ backend[e].role = TRUE
  /\ AncOK(e)
  /\ current # e => Away(e)
  /\ current = e => AtHand(e)

\* All of them.
DialogInv == \A e \in Undisturbed : Own(e)

\* The types.
Shape ==
  /\ backend \in [DialogEndpoints -> Endpoint] /\ dialogRows \in [DialogEndpoints -> Status]
  /\ dialogCalls \subseteq DialogCall /\ form \in Form /\ badge \in Status
  /\ current \in Ids /\ catalog \in BOOLEAN
  /\ buttons \subseteq StatusCmd /\ busy \subseteq Buttons
  /\ anc \in [of : Ids, quar : BOOLEAN]

\* A new request is of its type, and a save carries the form.
LEMMA Asked ==
    ASSUME form \in Form, NEW o \in DialogOps, NEW i \in Ids, NEW b \in Buttons \cup {"none"}
    PROVE  /\ Request(o, i, b) \in DialogCall
           /\ Request(o, i, b).op = o /\ Request(o, i, b).id = i /\ ~Request(o, i, b).done
           /\ Request("save", i, b).sent = form
  <1>1. Fresh(Null) \in Endpoint
    BY DEF Fresh, Endpoint, Ids, Active
  <1>2. BlankForm \in Form /\ [BlankForm EXCEPT !.of = form.of] \in Form
    BY DEF BlankForm, Form, Ids
  <1>3. (CASE o = "save" -> form [] o \in Confirmed -> [BlankForm EXCEPT !.of = form.of]
           [] OTHER -> BlankForm) \in Form
    BY <1>2 DEF Confirmed, AncCmd
  <1> QED BY <1>1, <1>3 DEF Request, DialogCall, Confirmed, AncCmd

\* The kinds of requests, for the proofs that tell them apart.
LEMMA Kinds ==
    /\ Harmless = {"anc", "sets", "sim", "rule", "timer", "profil", "iseids", "historik",
                   "session", "match"}
    /\ DialogOps = Harmless \cup {"get", "refresh", "save", "coa", "quarantine", "clear",
                            "decommission", "undecommission", "Aktiv", "Inaktiv"}
    /\ StatusCmd = {"decommission", "undecommission", "Aktiv", "Inaktiv"}
    /\ AncCmd = {"quarantine", "clear"}
    /\ Panels \subseteq Harmless /\ "anc" \notin Panels
  BY DEF Harmless, ReadOps, Panels, DialogOps, StatusCmd, AncCmd, Active

\* What a request leaves of an endpoint is an endpoint.
LEMMA Effects == ASSUME NEW c \in DialogCall, NEW x \in Endpoint PROVE Effect(c, x) \in Endpoint
  <1>1. c.sent \in Form /\ c.op \in DialogOps
    BY DEF DialogCall
  <1> QED BY <1>1, Kinds DEF Effect, Endpoint, Form, Active

\* The buttons offered are commands of the status.
LEMMA OffersOK == ASSUME NEW s, s.decomm \in BOOLEAN PROVE ButtonsFor(s) \subseteq StatusCmd
  BY DEF ButtonsFor, StatusCmd, Active

\* Types after a step of the backend,
LEMMA ShapeServe == ASSUME Shape, NEW c \in dialogCalls, DialogServe(c) PROVE Shape'
  <1>1. c \in DialogCall /\ c.id \in DialogEndpoints /\ backend[c.id] \in Endpoint
    BY DEF DialogServe, Shape, DialogCall, Ids
  <1> DEFINE x == Effect(c, backend[c.id])
             d == [c EXCEPT !.done = TRUE, !.got = x]
  <1>2. x \in Endpoint
    BY <1>1, Effects
  <1>3. backend' = [backend EXCEPT ![c.id] = x] /\ dialogCalls' = (dialogCalls \ {c}) \cup {d}
    BY DEF DialogServe
  <1> HIDE DEF x
  <1>4. d \in DialogCall
    BY <1>1, <1>2 DEF DialogCall
  <1> HIDE DEF d
  <1> QED BY <1>2, <1>3, <1>4 DEF DialogServe, Shape, dialog

\* after one more request,
LEMMA ShapeAsk ==
    ASSUME Shape, NEW C, C \subseteq dialogCalls, NEW o \in DialogOps, NEW i \in Ids,
           NEW b \in Buttons \cup {"none"}, dialogCalls' = C \cup {Request(o, i, b)}
    PROVE  dialogCalls' \subseteq DialogCall
  <1>1. Request(o, i, b) \in DialogCall
    BY Asked DEF Shape
  <1> QED BY <1>1 DEF Shape

\* after a click,
LEMMA ShapeOperator == ASSUME Shape, Operator PROVE Shape'
  <1> USE DEF dialog
  <1>0. "get" \in DialogOps /\ "save" \in DialogOps /\ "sim" \in DialogOps /\ "rule" \in DialogOps /\ "sets" \in DialogOps
        /\ StatusCmd \subseteq DialogOps /\ AncCmd \subseteq DialogOps /\ Panels \subseteq DialogOps
        /\ "none" \in Buttons \cup {"none"}
        /\ StatusCmd \subseteq Buttons /\ AncCmd \subseteq Buttons /\ "save" \in Buttons
    BY DEF DialogOps, ReadOps, Buttons
  <1>1. ASSUME NEW e \in DialogEndpoints, OpenDetail(e) PROVE Shape'
    <2>1. e \in Ids BY DEF Ids
    <2>2. dialogCalls' \subseteq DialogCall
      BY <1>0, <1>1, <2>1, ShapeAsk DEF OpenDetail
    <2> QED BY <1>1, <2>1, <2>2 DEF OpenDetail, Shape
  <1>2. CASE CloseDetail
    BY <1>2 DEF CloseDetail, Closed, Shape, Ids
  <1>3. ASSUME NEW k \in StatusCmd, ClickStatus(k) PROVE Shape'
    <2>2. dialogCalls' \subseteq DialogCall
      BY <1>0, <1>3, ShapeAsk DEF ClickStatus, Shape
    <2> QED BY <1>0, <1>3, <2>2 DEF ClickStatus, Shape
  <1>4. ASSUME NEW k \in AncCmd, ClickAnc(k) PROVE Shape'
    <2>2. dialogCalls' \subseteq DialogCall
      BY <1>0, <1>4, ShapeAsk DEF ClickAnc, Shape
    <2> QED BY <1>0, <1>4, <2>2 DEF ClickAnc, Shape
  <1>5. CASE ClickSave
    <2>1. Request("save", current, "save") \in DialogCall
      BY <1>0, Asked DEF Shape
    <2>2. SavedRole \in BOOLEAN
      BY DEF SavedRole, Shape, Form
    <2>3. [Request("save", current, "save") EXCEPT !.sent.role = SavedRole] \in DialogCall
      BY <2>1, <2>2 DEF DialogCall, Form
    <2>4. dialogCalls' \subseteq DialogCall
      BY <1>5, <2>3 DEF ClickSave, Shape
    <2> QED BY <1>0, <1>5, <2>4 DEF ClickSave, Shape
  <1>6. CASE OpenProfil
    <2>1. \A p \in {"profil", "iseids"} : Request(p, current, "none") \in DialogCall
      BY <1>0, Asked DEF Shape, Panels
    <2>2. dialogCalls' \subseteq DialogCall
      BY <1>6, <2>1 DEF OpenProfil, Shape
    <2> QED BY <1>6, <2>2 DEF OpenProfil, Shape
  <1>7. ASSUME NEW p \in {"historik", "session"}, OpenTab(p) PROVE Shape'
    <2>1. (IF p = "session" THEN form.of ELSE current) \in Ids
      BY DEF Shape, Form
    <2>2. p \in DialogOps
      BY <1>0 DEF Panels
    <2>3. dialogCalls' \subseteq DialogCall
      BY <1>0, <1>7, <2>1, <2>2, ShapeAsk DEF OpenTab
    <2> QED BY <1>7, <2>3 DEF OpenTab, Shape
  <1>8. CASE OpenRadius
    <2>1. dialogCalls' \subseteq DialogCall
      BY <1>0, <1>8, ShapeAsk DEF OpenRadius, Shape
    <2> QED BY <1>8, <2>1 DEF OpenRadius, Shape
  <1>9. CASE RunSimulate
    <2>1. dialogCalls' \subseteq DialogCall
      BY <1>0, <1>9, ShapeAsk DEF RunSimulate, Shape
    <2> QED BY <1>9, <2>1 DEF RunSimulate, Shape
  <1>10. CASE ShowRuleWizard
    BY <1>10 DEF ShowRuleWizard, Shape
  <1>11. CASE SaveWizard
    <2>1. dialogCalls' \subseteq DialogCall
      BY <1>0, <1>11, ShapeAsk DEF SaveWizard, Shape
    <2> QED BY <1>11, <2>1 DEF SaveWizard, Shape
  <1>12. CASE ReloadCatalog
    BY <1>12 DEF ReloadCatalog, Shape
  <1> QED
    BY <1>1, <1>2, <1>3, <1>4, <1>5, <1>6, <1>7, <1>8, <1>9, <1>10, <1>11, <1>12 DEF Operator

\* and after an answer.
LEMMA ShapeAnswer == ASSUME Shape, NEW c \in dialogCalls, Answer(c) PROVE Shape'
  <1> USE DEF dialog, Elsewhere
  <1>0. c \in DialogCall /\ c.id \in Ids /\ c.got \in Endpoint /\ c.op \in DialogOps
        /\ c.by \in Buttons \cup {"none"}
        /\ "anc" \in DialogOps /\ "coa" \in DialogOps /\ "refresh" \in DialogOps /\ "timer" \in DialogOps
        /\ "none" \in Buttons \cup {"none"} /\ StatusOf(c.got) \in Status
        /\ current \in Ids
    BY DEF Shape, DialogCall, DialogOps, ReadOps, StatusOf, Endpoint, Status
  <1>1. CASE FillForm(c)
    <2>1. dialogCalls' \subseteq DialogCall
      BY <1>0, <1>1, ShapeAsk DEF FillForm
    <2>2. form' \in Form
      BY <1>0, <1>1 DEF FillForm, Form, Endpoint, Shape
    <2>3. buttons' \subseteq StatusCmd
      BY <1>0, <1>1, OffersOK DEF FillForm, Endpoint
    <2> QED BY <1>0, <1>1, <2>1, <2>2, <2>3 DEF FillForm, Shape
  <1>2. CASE ShowAnc(c)
    BY <1>0, <1>2 DEF ShowAnc, Shape, Freed, Endpoint
  <1>3. CASE AncCommandDone(c)
    <2>1. dialogCalls' \subseteq DialogCall
      BY <1>0, <1>3, ShapeAsk DEF AncCommandDone
    <2> QED BY <1>3, <2>1 DEF AncCommandDone, Shape
  <1>4. CASE DecommissionDone(c)
    BY <1>4 DEF DecommissionDone, SetRow, Freed, Shape, Status, StatusCmd, Active
  <1>5. CASE UndecommissionDone(c)
    BY <1>5 DEF UndecommissionDone, SetRow, Freed, Shape, Status, StatusCmd, Active
  <1>6. CASE SetActiveDone(c)
    BY <1>6 DEF SetActiveDone, Freed, Shape, Status, StatusCmd, Active
  <1>7. CASE DialogSaved(c)
    <2>1. CASE coaOnSave
      <3>1. dialogCalls' \subseteq DialogCall
        BY <1>0, <1>7, <2>1, ShapeAsk DEF DialogSaved
      <3> QED BY <1>7, <2>1, <3>1 DEF DialogSaved, Shape
    <2>2. CASE ~coaOnSave
      <3>1. dialogCalls' \subseteq DialogCall
        BY <1>0, <1>7, <2>2, ShapeAsk DEF DialogSaved
      <3> QED BY <1>7, <2>2, <3>1 DEF DialogSaved, Closed, Shape, Ids
    <2> QED BY <2>1, <2>2
  <1>8. CASE CoaDone(c)
    <2>1. dialogCalls' \subseteq DialogCall
      BY <1>0, <1>8, ShapeAsk DEF CoaDone
    <2> QED BY <1>8, <2>1 DEF CoaDone, Closed, Shape, Ids
  <1>9. CASE RefreshDone(c)
    BY <1>0, <1>9 DEF RefreshDone, Freed, Shape
  <1>10. CASE PanelDone(c) \/ SetsDone(c) \/ SimDone(c) \/ WizardTimer(c)
    BY <1>10 DEF PanelDone, SetsDone, SimDone, WizardTimer, Shape
  <1>11. CASE RuleDone(c)
    <2>1. dialogCalls' \subseteq DialogCall
      BY <1>0, <1>11, ShapeAsk DEF RuleDone
    <2> QED BY <1>11, <2>1 DEF RuleDone, Shape
  <1>12. CASE CallFails(c)
    BY <1>0, <1>12 DEF CallFails, Freed, Shape
  <1> QED
    BY <1>1, <1>2, <1>3, <1>4, <1>5, <1>6, <1>7, <1>8, <1>9, <1>10, <1>11, <1>12 DEF Answer

-----------------------------------------------------------------------------
\* An endpoint that is not open is not touched by what happens to others.
LEMMA StaysAway ==
    ASSUME NEW e, Own(e), current # e, current' # e, backend'[e] = backend[e],
           dialogRows'[e] = dialogRows[e], anc' = anc \/ anc'.of # e,
           \A c \in dialogCalls' : c \in dialogCalls \/ c.id # e \/ c.op \in Harmless \ {"anc"},
           \A c \in dialogCalls : c \in dialogCalls' \/ c.id # e \/ c.op \in Harmless \ {"anc"}
    PROVE  Own(e)'
  <1>1. AncOK(e)'
    BY Kinds DEF Own, AncOK, Of, Out
  <1>2. Away(e)'
    BY Kinds DEF Own, Away, Of, Out
  <1> QED BY <1>1, <1>2 DEF Own

\* One that is open is not touched by what only reads.
LEMMA AtHandStays ==
    ASSUME NEW e, Own(e), current = e, backend'[e] = backend[e],
           dialogRows'[e] = dialogRows[e], UNCHANGED <<form, badge, buttons>>, catalog' => catalog,
           \A c \in dialogCalls' : c \in dialogCalls \/ (c.id = e /\ c.op \in Harmless),
           \A c \in dialogCalls : c \in dialogCalls' \/ c.op \in Harmless,
           dialogCalls' \subseteq dialogCalls \/ \A c \in dialogCalls : c.op \notin AncCmd \cup {"save", "coa"}
    PROVE  AtHand(e)'
  <1>2. OneAtATime(e)'
    BY Kinds DEF Own, AtHand, OneAtATime
  <1>3. FilledFrom(e) => FilledFrom(e)'
    BY DEF FilledFrom
  <1>4. \A ops \in SUBSET (DialogOps \ Harmless) : Out(ops, e) => Out(ops, e)'
    BY DEF Out
  <1>6. /\ {"get", "save", "coa"} \in SUBSET (DialogOps \ Harmless)
        /\ ({"get", "save", "coa"} \cup StatusCmd) \in SUBSET (DialogOps \ Harmless)
    BY Kinds
  <1>7. /\ ~Out({"get", "save", "coa"}, e)' => FilledFrom(e)'
        /\ ~Out({"get", "save", "coa"} \cup StatusCmd, e)' => badge' = StatusOf(backend[e])'
    BY <1>3, <1>4, <1>6 DEF Own, AtHand, StatusOf
  <1>8. \A c \in dialogCalls' : c.op = "get" => /\ dialogRows'[e] = StatusOf(backend'[e])
                                                /\ c.done => c.got = backend'[e]
    BY Kinds DEF Own, AtHand
  <1>9. \A c \in dialogCalls' : c.op = "save" => c.sent.vals = e /\ c.sent.role = TRUE
    BY Kinds DEF Own, AtHand
  <1>10. \A c \in dialogCalls' : c.op \in StatusCmd =>
           /\ c.op \in buttons'
           /\ StatusOf(backend'[e]) = IF c.done THEN After(c.op, badge') ELSE badge'
    BY Kinds DEF Own, AtHand
  <1> QED BY <1>2, <1>7, <1>8, <1>9, <1>10 DEF AtHand

LEMMA StaysAtHand ==
    ASSUME NEW e, Own(e), current = e, current' = e, backend'[e] = backend[e],
           dialogRows'[e] = dialogRows[e], UNCHANGED <<form, badge, buttons, anc>>, catalog' => catalog,
           \A c \in dialogCalls' : c \in dialogCalls \/ (c.id = e /\ c.op \in Harmless \ {"anc"}),
           \A c \in dialogCalls : c \in dialogCalls' \/ c.op \in Harmless \ {"anc"},
           dialogCalls' \subseteq dialogCalls \/ \A c \in dialogCalls : c.op \notin AncCmd \cup {"save", "coa"}
    PROVE  Own(e)'
  <1>1. AncOK(e)'
    BY Kinds DEF Own, AncOK, Of, Out
  <1>2. AtHand(e)'
    BY AtHandStays
  <1> QED BY <1>1, <1>2 DEF Own

\* A dialog that shows the truth and waits for nothing but reads is at hand.
LEMMA RestsAtHand ==
    ASSUME NEW e, FilledFrom(e)', badge' = StatusOf(backend'[e]),
           \A c \in dialogCalls' : c.id = e /\ c.op \in Harmless
    PROVE  AtHand(e)'
  BY Kinds DEF AtHand, OneAtATime

\* The backend answers a request.
LEMMA ServeKeeps ==
    ASSUME Shape, NEW c \in dialogCalls, DialogServe(c), NEW e \in DialogEndpoints, Own(e)
    PROVE  Own(e)'
  <1> DEFINE x == Effect(c, backend[c.id])
             d == [c EXCEPT !.done = TRUE, !.got = x]
  <1>1. c \in DialogCall /\ c.id \in DialogEndpoints /\ backend[c.id] \in Endpoint /\ c.op \in DialogOps
        /\ backend[e] \in Endpoint /\ ~c.done
    BY DEF DialogServe, Shape, DialogCall, Ids
  <1>2. x \in Endpoint
    BY <1>1, Effects
  <1>3. /\ backend' = [backend EXCEPT ![c.id] = x] /\ dialogCalls' = (dialogCalls \ {c}) \cup {d}
        /\ UNCHANGED <<current, form, badge, buttons, anc, dialogRows, catalog>>
    BY DEF DialogServe, dialog
  <1>4. d.op = c.op /\ d.id = c.id /\ d.sent = c.sent /\ d.done = TRUE /\ d.got = x
    BY <1>1 DEF DialogCall
  <1>5. backend'[c.id] = x /\ \A y \in DialogEndpoints \ {c.id} : backend'[y] = backend[y]
    BY <1>1, <1>3 DEF Shape
  <1>6. c.op \notin StatusCmd \cup AncCmd \cup {"coa", "save"} => x = backend[c.id]
    BY Kinds, <1>1 DEF Effect, Active
  <1>7. \A ops, y : Out(ops, y)' <=> Out(ops, y)
    BY <1>3, <1>4 DEF Out
  <1> HIDE DEF d
  <1>8. CASE c.id # e
    <2>1. current # e
      BY <1>8 DEF Own, AtHand, OneAtATime
    <2> QED BY <1>3, <1>4, <1>5, <1>8, <2>1, StaysAway DEF StatusOf
  <1>9. CASE c.id = e /\ current # e
    <2>1. c.op \in Harmless \cup {"refresh"}
      BY <1>9 DEF Own, Away, Of
    <2>2. x = backend[e]
      BY <1>6, <1>9, <2>1, Kinds
    <2> HIDE DEF x
    <2>3. backend'[e] = backend[e]
      BY <1>5, <1>9, <2>2
    <2>4. AncOK(e)'
      BY <1>3, <1>4, <1>7, <2>2, <2>3 DEF Own, AncOK, Of
    <2>5. Away(e)'
      BY <1>3, <1>4, <1>7, <1>9, <2>1, <2>2, <2>3 DEF Own, Away, Of
    <2> QED BY <1>3, <1>9, <2>3, <2>4, <2>5 DEF Own
  <1>10. CASE c.id = e /\ current = e /\ c.op \in Harmless \cup {"get"}
    <2>2. x = backend[e]
      BY <1>6, <1>10, Kinds
    <2> HIDE DEF x
    <2>3. backend'[e] = backend[e]
      BY <1>5, <1>10, <2>2
    <2>4. AncOK(e)'
      BY <1>3, <1>4, <1>7, <2>2, <2>3 DEF Own, AncOK, Of
    <2>5. OneAtATime(e)'
      BY <1>3, <1>4, <1>10, Kinds DEF Own, AtHand, OneAtATime
    <2>6. FilledFrom(e) => FilledFrom(e)'
      BY <1>3 DEF FilledFrom
    <2>7. /\ \A y \in dialogCalls' : y.op = "get" => /\ dialogRows'[e] = StatusOf(backend'[e])
                                                     /\ y.done => y.got = backend'[e]
          /\ \A y \in dialogCalls' : y.op = "save" => y.sent.vals = e /\ y.sent.role = TRUE
      BY <1>3, <1>4, <1>10, <2>2, <2>3, Kinds DEF Own, AtHand
    <2>8. \A y \in dialogCalls' : y.op \in StatusCmd =>
            /\ y.op \in buttons'
            /\ StatusOf(backend'[e]) = IF y.done THEN After(y.op, badge') ELSE badge'
      BY <1>3, <1>4, <1>10, <2>2, <2>3, Kinds DEF Own, AtHand
    <2> QED BY <1>3, <1>7, <1>10, <2>3, <2>4, <2>5, <2>6, <2>7, <2>8 DEF Own, AtHand
  <1>11. CASE c.id = e /\ current = e /\ c.op \in StatusCmd
    <2>1. \A y \in dialogCalls : y = c \/ y.op \in Harmless
      BY <1>11, Kinds DEF Own, AtHand, OneAtATime
    <2>2. backend[e].vals = e /\ backend[e].role = TRUE
      BY DEF Own
    <2>3. /\ x.vals = backend[e].vals /\ x.role = backend[e].role /\ x.quar = backend[e].quar
          /\ StatusOf(x) = After(c.op, StatusOf(backend[e]))
      <3> DEFINE y == backend[e]
      <3>0. x = Effect(c, y) /\ y \in Endpoint /\ c.op \in StatusCmd
        BY <1>1, <1>11
      <3> HIDE DEF x, y
      <3>1. CASE c.op = "decommission"
        <4>1. x = [y EXCEPT !.decomm = TRUE, !.active = "Inaktiv"]
          BY <3>0, <3>1 DEF Effect, Active, AncCmd
        <4>2. StatusOf(x) = [decomm |-> TRUE, active |-> "Inaktiv"]
          BY <3>0, <4>1 DEF StatusOf, Endpoint
        <4>3. After(c.op, StatusOf(y)) = [decomm |-> TRUE, active |-> "Inaktiv"]
          BY <3>1 DEF After
        <4> QED BY <3>0, <4>1, <4>2, <4>3 DEF Endpoint, y
      <3>2. CASE c.op = "undecommission"
        <4>1. x = [y EXCEPT !.decomm = FALSE, !.active = "Aktiv"]
          BY <3>0, <3>2 DEF Effect, Active, AncCmd
        <4>2. StatusOf(x) = [decomm |-> FALSE, active |-> "Aktiv"]
          BY <3>0, <4>1 DEF StatusOf, Endpoint
        <4>3. After(c.op, StatusOf(y)) = [decomm |-> FALSE, active |-> "Aktiv"]
          BY <3>2 DEF After
        <4> QED BY <3>0, <4>1, <4>2, <4>3 DEF Endpoint, y
      <3>3. CASE c.op \in Active
        <4>1. x = [y EXCEPT !.active = c.op]
          BY <3>0, <3>3 DEF Effect, Active, AncCmd
        <4>2. StatusOf(x) = [decomm |-> y.decomm, active |-> c.op]
          BY <3>0, <4>1 DEF StatusOf, Endpoint
        <4>3. After(c.op, StatusOf(y)) = [decomm |-> y.decomm, active |-> c.op]
          BY <3>3 DEF After, StatusOf, Active
        <4> QED BY <3>0, <4>1, <4>2, <4>3 DEF Endpoint, y
      <3> QED BY <1>11, <3>1, <3>2, <3>3, Kinds DEF Active
    <2>4. backend'[e] = x
      BY <1>5, <1>11
    <2> HIDE DEF x
    <2>5. AncOK(e)'
      BY <1>3, <1>4, <1>7, <1>11, <2>1, <2>3, <2>4, Kinds DEF Own, AncOK, Of
    <2>6. OneAtATime(e)'
      BY <1>3, <1>4, <1>11, Kinds DEF Own, AtHand, OneAtATime
    <2>7. ~Out({"get", "save", "coa"}, e)
      BY <1>11, <2>1, Kinds DEF Out
    <2>8. FilledFrom(e)'
      BY <1>3, <1>11, <2>7 DEF Own, AtHand, FilledFrom
    <2>9. badge = StatusOf(backend[e]) /\ c.op \in buttons
      BY <1>1, <1>11 DEF Own, AtHand
    <2>10. Out({"get", "save", "coa"} \cup StatusCmd, e)
      BY <1>11 DEF Out
    <2>11. \A y \in dialogCalls' : y = d \/ y.op \in Harmless
      BY <1>3, <2>1
    <2>12. AtHand(e)'
      BY <1>3, <1>4, <1>7, <1>11, <2>3, <2>4, <2>6, <2>8, <2>9, <2>10, <2>11, Kinds DEF AtHand
    <2> QED BY <1>3, <1>11, <2>2, <2>3, <2>4, <2>5, <2>12 DEF Own
  <1>12. CASE c.id = e /\ current = e /\ c.op \in AncCmd
    <2>1. dialogCalls = {c}
      BY <1>12 DEF Own, AtHand, OneAtATime
    <2>2. backend[e].vals = e /\ backend[e].role = TRUE
      BY DEF Own
    <2>3. x.vals = backend[e].vals /\ x.role = backend[e].role /\ StatusOf(x) = StatusOf(backend[e])
      BY <1>1, <1>12 DEF Effect, StatusOf, Endpoint, StatusCmd, Active, AncCmd
    <2>4. backend'[e] = x
      BY <1>5, <1>12
    <2> HIDE DEF x
    <2>5. dialogCalls' = {d}
      BY <1>3, <2>1
    <2>6. AncOK(e)'
      BY <1>4, <1>12, <2>5, Kinds DEF AncOK, Of, Out
    <2>7. OneAtATime(e)'
      BY <1>4, <1>12, <2>5, Kinds DEF OneAtATime
    <2>8. ~Out({"get", "save", "coa"} \cup StatusCmd, e) /\ ~Out({"get", "save", "coa"}, e)
      BY <1>12, <2>1, Kinds DEF Out
    <2>9. FilledFrom(e)' /\ badge' = StatusOf(backend'[e])
      BY <1>3, <1>12, <2>3, <2>4, <2>8 DEF Own, AtHand, FilledFrom
    <2>10. AtHand(e)'
      BY <1>4, <1>12, <2>5, <2>7, <2>9, Kinds DEF AtHand, StatusOf
    <2> QED BY <1>3, <1>12, <2>2, <2>3, <2>4, <2>6, <2>10 DEF Own
  <1>13. CASE c.id = e /\ current = e /\ c.op \in {"save", "coa"}
    <2>1. dialogCalls = {c}
      BY <1>13 DEF Own, AtHand, OneAtATime
    <2>2. backend[e].vals = e /\ backend[e].role = TRUE
      BY DEF Own
    <2>3. x.vals = e /\ x.role = TRUE /\ x.quar = backend[e].quar
      BY <1>1, <1>13, <2>2 DEF Effect, Endpoint, StatusCmd, Active, AncCmd, Own, AtHand
    <2>4. backend'[e] = x
      BY <1>5, <1>13
    <2> HIDE DEF x
    <2>5. dialogCalls' = {d}
      BY <1>3, <2>1
    <2>6. AncOK(e)'
      BY <1>3, <1>4, <1>7, <1>13, <2>3, <2>4, <2>5, Kinds DEF Own, AncOK, Of
    <2>7. OneAtATime(e)'
      BY <1>4, <1>13, <2>5, Kinds DEF OneAtATime
    <2>8. Out({"get", "save", "coa"} \cup StatusCmd, e)' /\ Out({"get", "save", "coa"}, e)'
      BY <1>4, <1>13, <2>5 DEF Out
    <2>9. \A y \in dialogCalls' : y.op = "save" => y.sent.vals = e /\ y.sent.role = TRUE
      BY <1>4, <1>13, <2>1, <2>5 DEF Own, AtHand
    <2>10. AtHand(e)'
      BY <1>4, <1>13, <2>5, <2>7, <2>8, <2>9, Kinds DEF AtHand
    <2> QED BY <1>3, <1>13, <2>3, <2>4, <2>6, <2>10 DEF Own
  <1>14. current = e => c.id = e /\ c.op # "refresh"
    BY DEF Own, AtHand, OneAtATime
  <1> QED BY <1>1, <1>8, <1>9, <1>10, <1>11, <1>12, <1>13, <1>14, Kinds

-----------------------------------------------------------------------------

\* A click that leaves its endpoint undisturbed found nothing in its way.
LEMMA NothingInTheWay ==
    ASSUME NEW e, NEW overlaps, Clicked(e, overlaps), e \notin disturbed'
    PROVE  ~overlaps
  BY DEF Clicked

\* Then nothing but reads of the open endpoint is out.
LEMMA OnlyHarmless ==
    ASSUME NEW e, ~Overlaps(e)
    PROVE  \A c \in dialogCalls : c.id = e /\ c.op \in Harmless
  BY DEF Overlaps, Harmless

\* The dialog when nothing but reads is out.
LEMMA AtRest ==
    ASSUME NEW e, Own(e), current = e, \A c \in dialogCalls : c.op \in Harmless \cup AncCmd
    PROVE  FilledFrom(e) /\ badge = StatusOf(backend[e])
  <1>1. ~Out({"get", "save", "coa"}, e) /\ ~Out({"get", "save", "coa"} \cup StatusCmd, e)
    BY Kinds DEF Out
  <1> QED BY <1>1 DEF Own, AtHand

\* A click that only asks something.
LEMMA ReadAsked ==
    ASSUME NEW e \in DialogEndpoints, Own(e), NEW C, dialogCalls' = dialogCalls \cup C,
           \A c \in C : c.op \in Harmless \ {"anc"},
           current = e => (\A c \in dialogCalls : c.id = e /\ c.op \in Harmless) /\ \A c \in C : c.id = e,
           UNCHANGED <<backend, current, form, badge, buttons, anc, dialogRows, catalog>>
    PROVE  Own(e)'
  <1>1. CASE current = e
    BY <1>1, StaysAtHand, Kinds
  <1>2. CASE current # e
    BY <1>2, StaysAway
  <1> QED BY <1>1, <1>2

\* Opening a dialog starts from nothing but reads,
LEMMA Opens ==
    ASSUME Shape, NEW x \in DialogEndpoints, OpenDetail(x),
           NEW e \in DialogEndpoints \ disturbed', Own(e)
    PROVE  Own(e)'
  <1> DEFINE d == Request("get", x, "none")
  <1>0. "get" \in DialogOps /\ x \in Ids /\ form \in Form /\ "none" \in Buttons \cup {"none"}
    BY Kinds DEF Shape, Ids
  <1>1. d.op = "get" /\ d.id = x /\ ~d.done
    BY <1>0, Asked
  <1>2. /\ dialogCalls' = dialogCalls \cup {d} /\ current' = x /\ current \in {Null, x}
        /\ UNCHANGED <<backend, form, badge, buttons, anc, dialogRows, catalog>>
    BY DEF OpenDetail, dialog
  <1> HIDE DEF d
  <1>3. CASE e # x
    BY <1>1, <1>2, <1>3, StaysAway, DetailAssumption
  <1>4. CASE e = x
    <2>1. \A c \in dialogCalls : c.id = e /\ c.op \in Harmless
      BY <1>4, NothingInTheWay, OnlyHarmless DEF OpenDetail, Click
    <2>2. dialogRows[e] = StatusOf(backend[e])
      <3>1. CASE current = e
        BY <2>1, <3>1, AtRest DEF FilledFrom
      <3>2. CASE current # e
        BY <2>1, <3>2, Kinds DEF Own, Away, Out
      <3> QED BY <3>1, <3>2
    <2>3. AncOK(e)'
      BY <1>1, <1>2, Kinds DEF Own, AncOK, Of, Out
    <2>4. OneAtATime(e)'
      BY <1>1, <1>2, <1>4, <2>1, Kinds DEF OneAtATime
    <2>5. Out({"get", "save", "coa"}, e)' /\ Out({"get", "save", "coa"} \cup StatusCmd, e)'
      BY <1>1, <1>2, <1>4 DEF Out
    <2>6. AtHand(e)'
      BY <1>1, <1>2, <2>1, <2>2, <2>4, <2>5, Kinds DEF AtHand
    <2> QED BY <1>2, <1>4, <2>3, <2>6 DEF Own
  <1> QED BY <1>3, <1>4

\* and closing one leaves at most a row to come.
LEMMA Closes ==
    ASSUME Shape, CloseDetail, NEW e \in DialogEndpoints \ disturbed', Own(e)
    PROVE  Own(e)'
  <1>1. /\ dialogCalls' = {c \in dialogCalls : c.op # "sim"} /\ current' = Null
        /\ UNCHANGED <<backend, form, badge, buttons, anc, dialogRows, catalog>>
    BY DEF CloseDetail, Closed
  <1>2. CASE current # e
    BY <1>1, <1>2, StaysAway, Kinds, DetailAssumption
  <1>3. CASE current = e
    <2>1. dialogCalls = {}
      BY <1>3, NothingInTheWay DEF CloseDetail, Leave
    <2>2. FilledFrom(e) /\ badge = StatusOf(backend[e])
      BY <1>3, <2>1, AtRest
    <2>3. dialogCalls' = {}
      BY <1>1, <2>1
    <2>4. AncOK(e)' /\ Away(e)'
      BY <1>1, <2>1, <2>2, <2>3 DEF Own, AncOK, Away, Of, Out, FilledFrom
    <2> QED BY <1>1, <2>4, DetailAssumption DEF Own
  <1> QED BY <1>2, <1>3

\* A command of the status was offered by its buttons,
LEMMA StatusClicked ==
    ASSUME Shape, NEW k \in StatusCmd, ClickStatus(k),
           NEW e \in DialogEndpoints \ disturbed', Own(e)
    PROVE  Own(e)'
  <1> DEFINE d == Request(k, current, k)
  <1>0. k \in DialogOps /\ k \in Buttons \cup {"none"} /\ current \in Ids /\ form \in Form
    BY Kinds DEF Shape, Buttons
  <1>1. d.op = k /\ d.id = current /\ ~d.done
    BY <1>0, Asked
  <1>2. /\ dialogCalls' = dialogCalls \cup {d} /\ current' = current
        /\ UNCHANGED <<backend, form, badge, buttons, anc, dialogRows, catalog>>
    BY DEF ClickStatus, dialog
  <1> HIDE DEF d
  <1>3. CASE current # e
    BY <1>1, <1>2, <1>3, StaysAway
  <1>4. CASE current = e
    <2>1. \A c \in dialogCalls : c.id = e /\ c.op \in Harmless
      BY <1>4, NothingInTheWay, OnlyHarmless DEF ClickStatus, Click
    <2>2. FilledFrom(e) /\ badge = StatusOf(backend[e]) /\ k \in buttons
      BY <1>4, <2>1, AtRest DEF ClickStatus
    <2>3. AncOK(e)'
      BY <1>1, <1>2, Kinds DEF Own, AncOK, Of, Out
    <2>4. OneAtATime(e)'
      BY <1>1, <1>2, <1>4, <2>1, Kinds DEF OneAtATime
    <2>5. Out({"get", "save", "coa"} \cup StatusCmd, e)'
      BY <1>1, <1>2, <1>4 DEF Out
    <2>6. AtHand(e)'
      BY <1>1, <1>2, <2>1, <2>2, <2>4, <2>5, Kinds DEF AtHand, FilledFrom
    <2> QED BY <1>2, <1>4, <2>3, <2>6 DEF Own
  <1> QED BY <1>3, <1>4

\* one of the quarantine is the only thing out,
LEMMA AncClicked ==
    ASSUME Shape, NEW k \in AncCmd, ClickAnc(k),
           NEW e \in DialogEndpoints \ disturbed', Own(e)
    PROVE  Own(e)'
  <1> DEFINE d == Request(k, current, k)
  <1>0. k \in DialogOps /\ k \in Buttons \cup {"none"} /\ current \in Ids /\ form \in Form
    BY Kinds DEF Shape, Buttons
  <1>1. d.op = k /\ d.id = current /\ ~d.done
    BY <1>0, Asked
  <1>2. /\ dialogCalls' = dialogCalls \cup {d} /\ current' = current
        /\ UNCHANGED <<backend, form, badge, buttons, anc, dialogRows, catalog>>
    BY DEF ClickAnc, dialog
  <1> HIDE DEF d
  <1>3. CASE current # e
    BY <1>1, <1>2, <1>3, StaysAway
  <1>4. CASE current = e
    <2>1. dialogCalls = {}
      BY <1>4, NothingInTheWay DEF ClickAnc, Leave
    <2>2. FilledFrom(e) /\ badge = StatusOf(backend[e])
      BY <1>4, <2>1, AtRest
    <2>3. dialogCalls' = {d}
      BY <1>2, <2>1
    <2>4. AncOK(e)'
      BY <1>1, <1>4, <2>3, Kinds DEF AncOK, Of, Out
    <2>5. OneAtATime(e)'
      BY <1>1, <1>4, <2>3, Kinds DEF OneAtATime
    <2>6. AtHand(e)'
      BY <1>1, <1>2, <2>2, <2>3, <2>5, Kinds DEF AtHand, FilledFrom
    <2> QED BY <1>2, <1>4, <2>4, <2>6 DEF Own
  <1> QED BY <1>3, <1>4

\* and a save carries the form of the open endpoint.
LEMMA SaveClicked ==
    ASSUME Shape, ClickSave, NEW e \in DialogEndpoints \ disturbed', Own(e)
    PROVE  Own(e)'
  <1> DEFINE a == Request("save", current, "save")
             d == [a EXCEPT !.sent.role = SavedRole]
  <1>0. "save" \in DialogOps /\ "save" \in Buttons \cup {"none"} /\ current \in Ids /\ form \in Form
    BY Kinds DEF Shape, Buttons
  <1>1. a \in DialogCall /\ a.op = "save" /\ a.id = current /\ ~a.done /\ a.sent = form
    BY <1>0, Asked
  <1>2. /\ dialogCalls' = dialogCalls \cup {d} /\ current' = current
        /\ UNCHANGED <<backend, form, badge, buttons, anc, dialogRows, catalog>>
    BY DEF ClickSave, dialog
  <1> HIDE DEF a
  <1>3. /\ d.op = "save" /\ d.id = current /\ ~d.done
        /\ d.sent.vals = form.vals /\ d.sent.role = SavedRole
    BY <1>1 DEF DialogCall, Form
  <1> HIDE DEF d
  <1>4. CASE current # e
    BY <1>2, <1>3, <1>4, StaysAway
  <1>5. CASE current = e
    <2>1. dialogCalls = {}
      BY <1>5, NothingInTheWay DEF ClickSave, Leave
    <2>2. FilledFrom(e)
      BY <1>5, <2>1, AtRest
    <2>3. dialogCalls' = {d}
      BY <1>2, <2>1
    <2>4. SavedRole = TRUE
      BY <2>2 DEF SavedRole, FilledFrom, Shape, Form
    <2>5. AncOK(e)'
      BY <1>2, <1>3, <2>1, <2>3, Kinds DEF Own, AncOK, Of, Out
    <2>6. OneAtATime(e)'
      BY <1>3, <1>5, <2>3, Kinds DEF OneAtATime
    <2>7. Out({"get", "save", "coa"}, e)' /\ Out({"get", "save", "coa"} \cup StatusCmd, e)'
      BY <1>3, <1>5, <2>3 DEF Out
    <2>8. AtHand(e)'
      BY <1>2, <1>3, <2>2, <2>3, <2>4, <2>6, <2>7, Kinds DEF AtHand, FilledFrom
    <2> QED BY <1>2, <1>5, <2>5, <2>8 DEF Own
  <1> QED BY <1>4, <1>5

\* Every click.
LEMMA OperatorKeeps ==
    ASSUME Shape, Operator, NEW e \in DialogEndpoints \ disturbed', Own(e)
    PROVE  Own(e)'
  <1> USE DEF dialog
  <1>0. ASSUME NEW o \in Harmless \ {"anc"}, NEW i \in Ids
        PROVE  Request(o, i, "none").op = o /\ Request(o, i, "none").id = i
    <2>1. o \in DialogOps /\ form \in Form /\ "none" \in Buttons \cup {"none"}
      BY Kinds DEF Shape
    <2> QED BY <2>1, Asked
  <1>a. current = e /\ Click(current) => \A c \in dialogCalls : c.id = e /\ c.op \in Harmless
    BY NothingInTheWay, OnlyHarmless DEF Click
  <1>b. current \in Ids /\ form.of \in Ids
    BY DEF Shape, Form
  <1>1. ASSUME NEW x \in DialogEndpoints, OpenDetail(x) PROVE Own(e)'
    BY <1>1, Opens
  <1>2. CASE CloseDetail
    BY <1>2, Closes
  <1>3. ASSUME NEW k \in StatusCmd, ClickStatus(k) PROVE Own(e)'
    BY <1>3, StatusClicked
  <1>4. ASSUME NEW k \in AncCmd, ClickAnc(k) PROVE Own(e)'
    BY <1>4, AncClicked
  <1>5. CASE ClickSave
    BY <1>5, SaveClicked
  <1>6. CASE OpenProfil
    <2>1. PICK empty \in SUBSET {"profil", "iseids"} :
            dialogCalls' = dialogCalls \cup {Request(p, current, "none") : p \in empty}
      BY <1>6 DEF OpenProfil
    <2>2. \A c \in {Request(p, current, "none") : p \in empty} :
            c.op \in Harmless \ {"anc"} /\ c.id = current
      <3>1. \A p \in empty : p \in Harmless \ {"anc"}
        BY Kinds
      <3>2. ASSUME NEW p \in empty
            PROVE  Request(p, current, "none").op = p /\ Request(p, current, "none").id = current
        BY <1>0, <1>b, <3>1
      <3>3. ASSUME NEW c, NEW p \in empty, c = Request(p, current, "none")
            PROVE  c.op \in Harmless \ {"anc"} /\ c.id = current
        BY <3>1, <3>2, <3>3
      <3> QED BY <3>3
    <2>3. Click(current) /\ UNCHANGED <<backend, current, form, badge, buttons, anc, dialogRows, catalog>>
      BY <1>6 DEF OpenProfil
    <2> QED BY <1>a, <2>1, <2>2, <2>3, ReadAsked
  <1>7. ASSUME NEW p \in {"historik", "session"}, OpenTab(p) PROVE Own(e)'
    <2> DEFINE id == IF p = "session" THEN form.of ELSE current
               d == Request(p, id, "none")
    <2>1. /\ dialogCalls' = dialogCalls \cup {d} /\ Click(current)
          /\ UNCHANGED <<backend, current, form, badge, buttons, anc, dialogRows, catalog>>
      BY <1>7 DEF OpenTab
    <2>2. d.op \in Harmless \ {"anc"} /\ d.id = id
      BY <1>0, <1>b, Kinds
    <2>3. current = e => id = e
      BY <1>a, <2>1, AtRest DEF FilledFrom
    <2> HIDE DEF d, id
    <2> DEFINE C == {d}
    <2>4. dialogCalls' = dialogCalls \cup C /\ \A c \in C : c.op \in Harmless \ {"anc"} /\ c.id = id
      BY <2>1, <2>2
    <2> HIDE DEF C
    <2> QED BY <1>a, <2>1, <2>3, <2>4, ReadAsked
  <1>8. ASSUME NEW o \in Harmless \ {"anc"}, dialogCalls' = dialogCalls \cup {Request(o, current, "none")},
               Click(current),
               UNCHANGED <<backend, current, form, badge, buttons, anc, dialogRows, catalog>>
        PROVE  Own(e)'
    <2> DEFINE d == Request(o, current, "none")
    <2>1. d.op \in Harmless \ {"anc"} /\ d.id = current
      BY <1>0, <1>b
    <2> HIDE DEF d
    <2> DEFINE C == {d}
    <2>2. dialogCalls' = dialogCalls \cup C /\ \A c \in C : c.op \in Harmless \ {"anc"} /\ c.id = current
      BY <1>8, <2>1 DEF d
    <2> HIDE DEF C
    <2> QED BY <1>a, <1>8, <2>2, ReadAsked
  <1>9. CASE OpenRadius \/ RunSimulate \/ SaveWizard
    BY <1>8, <1>9, Kinds DEF OpenRadius, RunSimulate, SaveWizard
  <1>10. CASE ShowRuleWizard
    <2> DEFINE C == {}
    <2>1. dialogCalls' = dialogCalls \cup C /\ \A c \in C : c.op \in Harmless \ {"anc"} /\ c.id = current
      BY <1>10 DEF ShowRuleWizard
    <2> HIDE DEF C
    <2> QED BY <1>a, <1>10, <2>1, ReadAsked DEF ShowRuleWizard
  <1>11. CASE ReloadCatalog
    <2>1. UNCHANGED <<backend, current, form, badge, buttons, anc, dialogRows, dialogCalls>>
          /\ (current = e => catalog)
      BY <1>11, DetailAssumption DEF ReloadCatalog
    <2>2. CASE current = e
      BY <2>1, <2>2, StaysAtHand
    <2>3. CASE current # e
      BY <2>1, <2>3, StaysAway
    <2> QED BY <2>2, <2>3
  <1> QED
    BY <1>1, <1>2, <1>3, <1>4, <1>5, <1>6, <1>7, <1>9, <1>10, <1>11 DEF Operator

-----------------------------------------------------------------------------
\* The answers.

\* The form, badge and buttons are filled from the answer to the open endpoint.
LEMMA FormFilled ==
    ASSUME Shape, NEW c \in dialogCalls, FillForm(c), NEW e \in DialogEndpoints, Own(e)
    PROVE  Own(e)'
  <1> DEFINE d == Request("anc", c.id, "none")
  <1>0. "anc" \in DialogOps /\ c.id \in Ids /\ form \in Form /\ "none" \in Buttons \cup {"none"}
    BY Kinds DEF Shape, DialogCall
  <1>1. d.op = "anc" /\ d.id = c.id /\ ~d.done
    BY <1>0, Asked
  <1>2. /\ dialogCalls' = (dialogCalls \ {c}) \cup {d} /\ c.op = "get" /\ c.done
        /\ badge' = StatusOf(c.got) /\ buttons' = ButtonsFor(c.got)
        /\ form' = [of |-> c.id, vals |-> c.got.vals, role |-> c.got.role,
                    known |-> catalog, active |-> c.got.active]
        /\ UNCHANGED <<backend, current, anc, dialogRows, catalog>>
    BY DEF FillForm, Answered, Elsewhere
  <1> HIDE DEF d
  <1>3. CASE current # e
    <2>1. c.id # e
      BY <1>2, <1>3, Kinds DEF Own, Away, Of
    <2> QED BY <1>1, <1>2, <1>3, <2>1, StaysAway
  <1>4. CASE current = e
    <2>1. c.id = e /\ dialogRows[e] = StatusOf(backend[e]) /\ c.got = backend[e]
      BY <1>2, <1>4 DEF Own, AtHand, OneAtATime
    <2>2. \A y \in dialogCalls' : y.id = e /\ y.op \in Harmless
      BY <1>1, <1>2, <1>4, <2>1, Kinds DEF Own, AtHand, OneAtATime
    <2>3. backend[e].vals = e /\ backend[e].role = TRUE
      BY DEF Own
    <2>4. ButtonsFor(c.got) = ButtonsFor(StatusOf(c.got))
      BY DEF ButtonsFor, StatusOf
    <2>5. FilledFrom(e)'
      BY <1>2, <2>1, <2>3, <2>4 DEF FilledFrom
    <2>6. AtHand(e)'
      BY <1>2, <2>1, <2>2, <2>5, RestsAtHand
    <2>7. AncOK(e)'
      BY <1>1, <1>2, <2>1, Kinds DEF Own, AncOK, Of, Out
    <2> QED BY <1>2, <1>4, <2>3, <2>6, <2>7 DEF Own
  <1> QED BY <1>3, <1>4

\* The quarantine badge comes with its endpoint.
LEMMA AncShown ==
    ASSUME Shape, NEW c \in dialogCalls, ShowAnc(c), NEW e \in DialogEndpoints, Own(e)
    PROVE  Own(e)'
  <1>1. /\ dialogCalls' = dialogCalls \ {c} /\ c.op = "anc" /\ c.done
        /\ anc' = [of |-> c.id, quar |-> c.got.quar]
        /\ UNCHANGED <<backend, current, form, badge, buttons, dialogRows, catalog>>
    BY DEF ShowAnc, Answered, Elsewhere
  <1>2. AncOK(e)'
    BY <1>1 DEF Own, AncOK, Of, Out
  <1>3. current # e => Away(e)'
    BY <1>1, Kinds DEF Own, Away, Of, Out
  <1>4. current = e => AtHand(e)'
    BY <1>1, Kinds, AtHandStays
  <1> QED BY <1>1, <1>2, <1>3, <1>4 DEF Own

\* After a quarantine command the badge is read again.
LEMMA AncCommanded ==
    ASSUME Shape, NEW c \in dialogCalls, AncCommandDone(c), NEW e \in DialogEndpoints, Own(e)
    PROVE  Own(e)'
  <1> DEFINE d == Request("anc", current, c.by)
  <1>0. "anc" \in DialogOps /\ current \in Ids /\ form \in Form /\ c.by \in Buttons \cup {"none"}
    BY Kinds DEF Shape, DialogCall
  <1>1. d.op = "anc" /\ d.id = current /\ ~d.done
    BY <1>0, Asked
  <1>2. /\ dialogCalls' = (dialogCalls \ {c}) \cup {d} /\ c.op \in AncCmd
        /\ UNCHANGED <<backend, current, form, badge, buttons, anc, dialogRows, catalog>>
    BY DEF AncCommandDone, Elsewhere, dialog
  <1> HIDE DEF d
  <1>3. CASE current # e
    <2>1. c.id # e
      BY <1>2, <1>3, Kinds DEF Own, Away, Of
    <2> QED BY <1>1, <1>2, <1>3, <2>1, StaysAway
  <1>4. CASE current = e
    <2>1. dialogCalls = {c}
      BY <1>2, <1>4 DEF Own, AtHand, OneAtATime
    <2>2. dialogCalls' = {d}
      BY <1>2, <2>1
    <2>3. FilledFrom(e) /\ badge = StatusOf(backend[e])
      BY <1>2, <1>4, <2>1, AtRest
    <2>4. FilledFrom(e)'
      BY <1>2, <2>3 DEF FilledFrom
    <2>5. AtHand(e)'
      BY <1>1, <1>2, <1>4, <2>2, <2>3, <2>4, RestsAtHand, Kinds DEF StatusOf
    <2>6. AncOK(e)'
      BY <1>1, <1>4, <2>2, Kinds DEF AncOK, Of, Out
    <2> QED BY <1>2, <1>4, <2>5, <2>6 DEF Own
  <1> QED BY <1>3, <1>4

\* The command that was offered leaves the buttons of the status it makes.
LEMMA Offered ==
    ASSUME NEW k \in StatusCmd, NEW s \in Status, k \in ButtonsFor(s)
    PROVE  /\ k = "decommission" =>
                ButtonsFor(After(k, s))
                  = (ButtonsFor(s) \ ({"decommission"} \cup Active)) \cup {"undecommission"}
           /\ k = "undecommission" =>
                ButtonsFor(After(k, s))
                  = (ButtonsFor(s) \ {"undecommission", "Aktiv"}) \cup {"decommission", "Inaktiv"}
           /\ k \in Active =>
                /\ ButtonsFor(After(k, s)) = (ButtonsFor(s) \ Active) \cup (Active \ {k})
                /\ After(k, s) = [s EXCEPT !.active = k]
  BY DEF ButtonsFor, After, StatusCmd, Active, Status

\* A status command that is answered has done what it tells, and badge, buttons and
\* row follow (DecommissionDone, UndecommissionDone, SetActiveDone).
LEMMA StatusAnswered ==
    ASSUME Shape, NEW c \in dialogCalls, NEW e \in DialogEndpoints, Own(e),
           DecommissionDone(c) \/ UndecommissionDone(c) \/ SetActiveDone(c)
    PROVE  Own(e)'
  <1>1. /\ dialogCalls' = dialogCalls \ {c} /\ c.op \in StatusCmd /\ c.done
        /\ UNCHANGED <<backend, current, form, anc, catalog>>
    BY DEF DecommissionDone, UndecommissionDone, SetActiveDone, Answered, Elsewhere, StatusCmd, Active
  <1>2. CASE current # e
    <2>1. c.id # e
      BY <1>1, <1>2, Kinds DEF Own, Away, Of
    <2>2. dialogRows'[e] = dialogRows[e]
      BY <1>2 DEF DecommissionDone, UndecommissionDone, SetActiveDone, SetRow, Shape
    <2> QED BY <1>1, <1>2, <2>1, <2>2, StaysAway
  <1>3. CASE current = e
    <2>1. \A y \in dialogCalls' : y.id = e /\ y.op \in Harmless
      BY <1>1, <1>3, Kinds DEF Own, AtHand, OneAtATime
    <2>2. c.op \in buttons /\ StatusOf(backend[e]) = After(c.op, badge)
      BY <1>1, <1>3 DEF Own, AtHand
    <2>3. \A y \in dialogCalls : y = c \/ y.op \in Harmless
      BY <1>1, <1>3, Kinds DEF Own, AtHand, OneAtATime
    <2>4. FilledFrom(e)
      BY <1>1, <1>3, <2>3, Kinds DEF Own, AtHand, Out
    <2>5. c.op \in ButtonsFor(badge) /\ badge \in Status /\ dialogRows \in [DialogEndpoints -> Status]
      BY <2>2, <2>4 DEF FilledFrom, Shape
    <2>6. badge' = After(c.op, badge) /\ buttons' = ButtonsFor(After(c.op, badge))
          /\ dialogRows'[e] = After(c.op, badge)
      <3>0. dialogRows[e] = badge /\ buttons = ButtonsFor(badge)
        BY <2>4 DEF FilledFrom
      <3>1. CASE DecommissionDone(c)
        <4>1. c.op = "decommission" /\ badge' = [decomm |-> TRUE, active |-> "Inaktiv"]
              /\ buttons' = (buttons \ ({"decommission"} \cup Active)) \cup {"undecommission"}
              /\ dialogRows' = [dialogRows EXCEPT ![e] = badge']
          BY <1>3, <3>1, DetailAssumption DEF DecommissionDone, Answered, SetRow
        <4>2. After(c.op, badge) = [decomm |-> TRUE, active |-> "Inaktiv"]
          BY <4>1 DEF After
        <4>3. buttons' = ButtonsFor(After(c.op, badge))
          BY <1>1, <2>5, <3>0, <4>1, Offered
        <4> QED BY <2>5, <4>1, <4>2, <4>3
      <3>2. CASE UndecommissionDone(c)
        <4>1. c.op = "undecommission" /\ badge' = [decomm |-> FALSE, active |-> "Aktiv"]
              /\ buttons' = (buttons \ {"undecommission", "Aktiv"}) \cup {"decommission", "Inaktiv"}
              /\ dialogRows' = [dialogRows EXCEPT ![e] = badge']
          BY <1>3, <3>2, DetailAssumption DEF UndecommissionDone, Answered, SetRow
        <4>2. After(c.op, badge) = [decomm |-> FALSE, active |-> "Aktiv"]
          BY <4>1 DEF After
        <4>3. buttons' = ButtonsFor(After(c.op, badge))
          BY <1>1, <2>5, <3>0, <4>1, Offered
        <4> QED BY <2>5, <4>1, <4>2, <4>3
      <3>3. CASE SetActiveDone(c)
        <4>1. c.op \in Active /\ badge' = [badge EXCEPT !.active = c.op]
              /\ buttons' = (buttons \ Active) \cup (Active \ {c.op})
              /\ dialogRows' = [dialogRows EXCEPT ![e].active = c.op]
          BY <1>3, <3>3, DetailAssumption DEF SetActiveDone
        <4>2. After(c.op, badge) = badge' /\ buttons' = ButtonsFor(After(c.op, badge))
          BY <1>1, <2>5, <3>0, <4>1, Offered
        <4>3. dialogRows'[e] = badge'
          BY <2>5, <3>0, <4>1
        <4> QED BY <4>1, <4>2, <4>3
      <3> QED BY <3>1, <3>2, <3>3
    <2>7. FilledFrom(e)'
      BY <1>1, <2>4, <2>6 DEF FilledFrom
    <2>8. AtHand(e)'
      BY <1>1, <2>1, <2>2, <2>6, <2>7, RestsAtHand
    <2>9. AncOK(e)'
      BY <1>1, Kinds DEF Own, AncOK, Of, Out
    <2> QED BY <1>1, <1>3, <2>8, <2>9 DEF Own
  <1> QED BY <1>2, <1>3

\* A save that is answered asks for a CoA, or closes the dialog and reads the row
\* again; so does the answer to the CoA (SaveDone, CoaDone).
LEMMA SaveAnswered ==
    ASSUME Shape, NEW c \in dialogCalls, NEW e \in DialogEndpoints, Own(e),
           DialogSaved(c) \/ CoaDone(c)
    PROVE  Own(e)'
  <1>0. c.op \in {"save", "coa"} /\ UNCHANGED <<backend, form, badge, buttons, anc, dialogRows, catalog>>
    BY DEF DialogSaved, CoaDone, Answered, Elsewhere
  <1>1. "coa" \in DialogOps /\ "refresh" \in DialogOps /\ current \in Ids /\ c.id \in Ids /\ form \in Form
        /\ c.by \in Buttons \cup {"none"}
    BY Kinds DEF Shape, DialogCall
  <1>2. CASE current # e
    <2>0. c.id # e
      BY <1>0, <1>2, Kinds DEF Own, Away, Of
    <2>1. ASSUME NEW o \in DialogOps, NEW i \in Ids, i # e, NEW C, C \subseteq dialogCalls,
                 \A y \in dialogCalls : y \in C \/ y = c \/ y.op = "sim",
                 dialogCalls' = C \cup {Request(o, i, c.by)}, current' # e
          PROVE  Own(e)'
      <3>1. Request(o, i, c.by).id = i
        BY <1>1, Asked
      <3> QED BY <1>0, <1>2, <2>0, <2>1, <3>1, Kinds, StaysAway
    <2>2. CASE DialogSaved(c) /\ coaOnSave
      BY <1>1, <1>2, <2>1, <2>2 DEF DialogSaved
    <2>3. CASE DialogSaved(c) /\ ~coaOnSave
      BY <1>1, <1>2, <2>1, <2>3, DetailAssumption DEF DialogSaved, Closed
    <2>4. CASE CoaDone(c)
      <3> DEFINE C == {y \in dialogCalls \ {c} : y.op # "sim"}
      <3>1. dialogCalls' = C \cup {Request("refresh", c.id, c.by)} /\ current' # e
        BY <2>4, DetailAssumption DEF CoaDone, Closed
      <3>2. C \subseteq dialogCalls /\ \A y \in dialogCalls : y \in C \/ y = c \/ y.op = "sim"
        OBVIOUS
      <3> HIDE DEF C
      <3> QED BY <1>1, <2>0, <2>1, <3>1, <3>2
    <2> QED BY <2>2, <2>3, <2>4
  <1>3. CASE current = e
    <2>1. dialogCalls = {c} /\ c.id = e
      BY <1>0, <1>3 DEF Own, AtHand, OneAtATime
    <2>2. ASSUME NEW d, dialogCalls' = {d}, d.op \notin AncCmd \cup {"anc"} PROVE AncOK(e)'
      BY <1>0, <2>1, <2>2, Kinds DEF Own, AncOK, Of, Out
    <2>3. CASE DialogSaved(c) /\ coaOnSave
      <3> DEFINE d == Request("coa", e, c.by)
      <3>1. d.op = "coa" /\ d.id = e
        BY <1>1, <1>3, Asked
      <3>2. dialogCalls' = {d} /\ current' = e
        BY <1>3, <2>1, <2>3 DEF DialogSaved
      <3> HIDE DEF d
      <3>3. AtHand(e)'
        BY <3>1, <3>2, Kinds DEF AtHand, OneAtATime, Out
      <3> QED BY <1>0, <2>2, <3>1, <3>2, <3>3, Kinds DEF Own
    <2>4. CASE CoaDone(c) \/ (DialogSaved(c) /\ ~coaOnSave)
      <3> DEFINE d == Request("refresh", e, c.by)
      <3>1. d.op = "refresh" /\ d.id = e /\ ~d.done
        BY <1>1, <1>3, Asked
      <3>2. dialogCalls' = {d} /\ current' = Null
        BY <1>3, <2>1, <2>4 DEF DialogSaved, CoaDone, Closed
      <3> HIDE DEF d
      <3>3. Away(e)'
        BY <3>1, <3>2, Kinds DEF Away, Of, Out
      <3> QED BY <1>0, <2>2, <3>1, <3>2, <3>3, Kinds, DetailAssumption DEF Own
    <2> QED BY <2>3, <2>4
  <1> QED BY <1>2, <1>3

\* The row that was read is put into the table.
LEMMA RowRefreshed ==
    ASSUME Shape, NEW c \in dialogCalls, RefreshDone(c), NEW e \in DialogEndpoints, Own(e)
    PROVE  Own(e)'
  <1>1. /\ dialogCalls' = dialogCalls \ {c} /\ c.op = "refresh" /\ c.done
        /\ dialogRows' = [dialogRows EXCEPT ![c.id] = StatusOf(c.got)]
        /\ UNCHANGED <<backend, current, form, badge, buttons, anc, catalog>>
    BY DEF RefreshDone, Answered, Elsewhere, dialog
  <1>2. current # e
    BY <1>1 DEF Own, AtHand, OneAtATime
  <1>3. CASE c.id # e
    <2>1. dialogRows'[e] = dialogRows[e]
      BY <1>1, <1>3 DEF Shape
    <2> QED BY <1>1, <1>2, <1>3, <2>1, StaysAway
  <1>4. CASE c.id = e
    <2>1. dialogRows'[e] = StatusOf(backend[e])
      BY <1>1, <1>2, <1>4, Kinds DEF Own, Away, Of, Shape
    <2>2. Away(e)'
      BY <1>1, <1>2, <2>1 DEF Own, Away, Of, StatusOf
    <2>3. AncOK(e)'
      BY <1>1, Kinds DEF Own, AncOK, Of, Out
    <2> QED BY <1>1, <1>2, <2>2, <2>3 DEF Own
  <1> QED BY <1>3, <1>4

\* What only reads brings nothing to form, badge and buttons.
LEMMA ReadAnswered ==
    ASSUME Shape, NEW c \in dialogCalls, NEW e \in DialogEndpoints, Own(e),
           PanelDone(c) \/ SetsDone(c) \/ SimDone(c) \/ RuleDone(c) \/ WizardTimer(c)
    PROVE  Own(e)'
  <1>0. "timer" \in DialogOps /\ c.id \in Ids /\ form \in Form /\ "none" \in Buttons \cup {"none"}
    BY Kinds DEF Shape, DialogCall
  <1>1. c.op \in Harmless \ {"anc"} /\ UNCHANGED <<backend, current, form, badge, buttons, anc, dialogRows, catalog>>
    BY Kinds DEF PanelDone, SetsDone, SimDone, RuleDone, WizardTimer, Answered, Elsewhere, dialog
  <1>2. /\ \A y \in dialogCalls' : y \in dialogCalls \/ (y.id = c.id /\ y.op \in Harmless \ {"anc"})
        /\ \A y \in dialogCalls : y \in dialogCalls' \/ y.op \in Harmless \ {"anc"}
    <2>1. CASE RuleDone(c)
      <3>1. Request("timer", c.id, "none").op = "timer" /\ Request("timer", c.id, "none").id = c.id
        BY <1>0, Asked
      <3> QED BY <1>1, <2>1, <3>1, Kinds DEF RuleDone
    <2>2. CASE ~RuleDone(c)
      BY <1>1, <2>2, Kinds DEF PanelDone, SetsDone, SimDone, WizardTimer
    <2> QED BY <2>1, <2>2
  <1>3. CASE current # e
    BY <1>1, <1>2, <1>3, StaysAway
  <1>4. CASE current = e
    <2>1. c.id = e /\ \A y \in dialogCalls : y.op \notin AncCmd \cup {"save", "coa"}
      BY <1>1, <1>4, Kinds DEF Own, AtHand, OneAtATime
    <2> QED BY <1>1, <1>2, <1>4, <2>1, StaysAtHand
  <1> QED BY <1>3, <1>4

\* A request that fails disturbs its endpoint, and reaches no other (CallFails).
LEMMA Failed ==
    ASSUME Shape, NEW c \in dialogCalls, CallFails(c),
           NEW e \in DialogEndpoints \ disturbed', Own(e)
    PROVE  Own(e)'
  <1>1. /\ dialogCalls' = dialogCalls \ {c} /\ anc' \in {anc, [of |-> c.id, quar |-> FALSE]}
        /\ disturbed' = disturbed \cup ({c.id} \ {Null})
        /\ UNCHANGED <<backend, current, form, badge, buttons, dialogRows, catalog>>
    BY DEF CallFails
  <1>2. c.id # e
    BY <1>1, DetailAssumption
  <1>3. current # e
    BY <1>2 DEF Own, AtHand, OneAtATime
  <1> QED BY <1>1, <1>2, <1>3, StaysAway

\* Every step keeps what holds of every endpoint,
LEMMA DialogSteps ==
    ASSUME Shape, DialogInv, [DialogNext]_dialogVars PROVE Shape' /\ DialogInv'
  <1>1. CASE Operator
    <2>1. ASSUME NEW e \in DialogEndpoints \ disturbed' PROVE Own(e)'
      <3>1. disturbed \subseteq disturbed'
        BY <1>1 DEF Operator, OpenDetail, CloseDetail, ClickStatus, ClickAnc, ClickSave, OpenProfil,
             OpenTab, OpenRadius, RunSimulate, ShowRuleWizard, SaveWizard, ReloadCatalog,
             Click, Leave, Clicked
      <3> QED BY <1>1, <2>1, <3>1, OperatorKeeps DEF DialogInv, Undisturbed
    <2> QED BY <1>1, <2>1, ShapeOperator DEF DialogInv, Undisturbed
  <1>2. ASSUME NEW c \in dialogCalls, DialogServe(c) PROVE Shape' /\ DialogInv'
    BY <1>2, ShapeServe, ServeKeeps DEF DialogInv, Undisturbed, DialogServe
  <1>3. ASSUME NEW c \in dialogCalls, Answer(c) PROVE Shape' /\ DialogInv'
    <2>1. CASE CallFails(c)
      <3>1. disturbed \subseteq disturbed'
        BY <2>1 DEF CallFails
      <3>2. \A e \in DialogEndpoints \ disturbed' : Own(e)'
        BY <2>1, <3>1, Failed DEF DialogInv, Undisturbed
      <3> QED BY <1>3, <3>2, ShapeAnswer DEF DialogInv, Undisturbed
    <2>2. CASE ~CallFails(c)
      <3>1. disturbed' = disturbed
        BY <1>3, <2>2 DEF Answer, FillForm, ShowAnc, AncCommandDone, DecommissionDone,
             UndecommissionDone, SetActiveDone, DialogSaved, CoaDone, RefreshDone, PanelDone,
             SetsDone, SimDone, RuleDone, WizardTimer, Elsewhere
      <3>2. ASSUME NEW e \in DialogEndpoints, Own(e) PROVE Own(e)'
        BY <1>3, <2>2, <3>2, FormFilled, AncShown, AncCommanded, StatusAnswered, SaveAnswered,
           RowRefreshed, ReadAnswered DEF Answer
      <3> QED BY <1>3, <3>1, <3>2, ShapeAnswer DEF DialogInv, Undisturbed
    <2> QED BY <2>1, <2>2
  <1>4. CASE UNCHANGED dialogVars
    BY <1>4 DEF dialogVars, Shape, DialogInv, Undisturbed, Own, AncOK, Away, AtHand, OneAtATime,
         FilledFrom, Of, Out
  <1>5. CASE TableRedrawn
    BY <1>5 DEF TableRedrawn, dialog, Shape, DialogInv, Undisturbed, Own, AncOK, Away, AtHand,
         OneAtATime, FilledFrom, Of, Out
  <1> QED BY <1>1, <1>2, <1>3, <1>4, <1>5 DEF DialogNext

\* A drawn row says what the row in memory says, but for the Aktiv or Inaktiv of
\* those that were set so since (SetActiveDone draws nothing).
DrawnOK ==
  \A e \in DialogEndpoints :
    \/ drawn[e] = dialogRows[e]
    \/ e \in undrawn /\ drawn[e].decomm = dialogRows[e].decomm

\* A step draws the rows, or leaves both the rows and what is drawn, or is the
\* answer to such a command.
LEMMA Drawings ==
    ASSUME [DialogNext]_dialogVars
    PROVE  \/ drawn' = dialogRows'
           \/ UNCHANGED <<dialogRows, drawn, undrawn>>
           \/ \E c \in dialogCalls : SetActiveDone(c)
  <1>1. CASE Operator
    BY <1>1 DEF Operator, OpenDetail, CloseDetail, ClickStatus, ClickAnc, ClickSave, OpenProfil,
         OpenTab, OpenRadius, RunSimulate, ShowRuleWizard, SaveWizard, ReloadCatalog, drawing
  <1>2. ASSUME NEW c \in dialogCalls, DialogServe(c) \/ Answer(c), ~SetActiveDone(c)
        PROVE  drawn' = dialogRows' \/ UNCHANGED <<dialogRows, drawn, undrawn>>
    <2>1. CASE DecommissionDone(c) \/ UndecommissionDone(c) \/ RefreshDone(c)
      BY <2>1 DEF DecommissionDone, UndecommissionDone, RefreshDone, SetRow, DrawRows
    <2>2. CASE DialogServe(c)
      BY <2>2 DEF DialogServe, drawing
    <2>3. CASE FillForm(c) \/ ShowAnc(c) \/ AncCommandDone(c) \/ DialogSaved(c) \/ CoaDone(c)
      BY <2>3 DEF FillForm, ShowAnc, AncCommandDone, DialogSaved, CoaDone, drawing
    <2>4. CASE \/ PanelDone(c) \/ SetsDone(c) \/ SimDone(c) \/ RuleDone(c) \/ WizardTimer(c)
               \/ CallFails(c)
      BY <2>4 DEF PanelDone, SetsDone, SimDone, RuleDone, WizardTimer, CallFails, drawing
    <2> QED BY <1>2, <2>1, <2>2, <2>3, <2>4 DEF Answer
  <1>3. CASE TableRedrawn
    BY <1>3 DEF TableRedrawn, DrawRows
  <1>4. CASE UNCHANGED dialogVars
    BY <1>4 DEF dialogVars
  <1> QED BY <1>1, <1>2, <1>3, <1>4 DEF DialogNext

LEMMA DrawingSteps ==
    ASSUME Shape, DrawnOK, [DialogNext]_dialogVars PROVE DrawnOK'
  <1>1. CASE drawn' = dialogRows' \/ UNCHANGED <<dialogRows, drawn, undrawn>>
    BY <1>1 DEF DrawnOK
  <1>2. ASSUME NEW c \in dialogCalls, SetActiveDone(c) PROVE DrawnOK'
    <2>1. dialogRows \in [DialogEndpoints -> Status] /\ drawn' = drawn
      BY <1>2 DEF Shape, SetActiveDone
    <2>2. SUFFICES ASSUME NEW e \in DialogEndpoints
                   PROVE  \/ drawn[e] = dialogRows'[e]
                          \/ e \in undrawn' /\ drawn[e].decomm = dialogRows'[e].decomm
      BY <2>1 DEF DrawnOK
    <2>3. CASE e # current
      <3>1. dialogRows'[e] = dialogRows[e] /\ undrawn \subseteq undrawn'
        BY <1>2, <2>1, <2>3 DEF SetActiveDone
      <3> QED BY <3>1 DEF DrawnOK
    <2>4. CASE e = current
      <3>1. e # Null /\ e \in undrawn'
        BY <1>2, <2>4, DetailAssumption DEF SetActiveDone
      <3>2. dialogRows' = [dialogRows EXCEPT ![e].active = c.op]
        BY <1>2, <2>4, <3>1 DEF SetActiveDone
      <3>3. dialogRows'[e].decomm = dialogRows[e].decomm
        BY <2>1, <3>2 DEF Status
      <3>4. drawn[e].decomm = dialogRows[e].decomm
        BY DEF DrawnOK
      <3> QED BY <3>1, <3>3, <3>4
    <2> QED BY <2>3, <2>4
  <1> QED BY <1>1, <1>2, Drawings

\* it holds at the start,
LEMMA DialogStarts == ASSUME DialogInit PROVE Shape /\ DialogInv
  <1>1. Shape
    BY DEF DialogInit, Shape, Fresh, Endpoint, StatusOf, Status, Active, BlankForm, Form, Ids
  <1>2. ASSUME NEW e \in DialogEndpoints PROVE Own(e)
    <2>1. backend[e] = Fresh(e) /\ dialogRows[e] = StatusOf(backend[e]) /\ current # e
      BY DetailAssumption DEF DialogInit
    <2>2. AncOK(e) /\ Away(e)
      BY <2>1, DetailAssumption DEF DialogInit, AncOK, Away, Of, Out
    <2> QED BY <2>1, <2>2 DEF Own, Fresh
  <1> QED BY <1>1, <1>2 DEF DialogInv, Undisturbed

\* and so always.
LEMMA DialogIsOK == DialogSpec => [](Shape /\ DialogInv /\ DrawnOK)
  <1>1. DialogInit => Shape /\ DialogInv /\ DrawnOK
    BY DialogStarts DEF DialogInit, DrawnOK
  <1>2. (Shape /\ DialogInv /\ DrawnOK) /\ [DialogNext]_dialogVars
          => (Shape /\ DialogInv /\ DrawnOK)'
    BY DialogSteps, DrawingSteps
  <1> QED BY <1>1, <1>2, PTL DEF DialogSpec

\* What holds of an endpoint at every moment is the truth once nothing of it is out.
LEMMA Truth == ASSUME Shape, DialogInv, DrawnOK PROVE TruthShown
  <1>1. ASSUME NEW e \in Undisturbed PROVE Own(e)
    BY DEF DialogInv
  <1>2. ASSUME NEW e \in Undisturbed, ~Out(StatusCmd \cup {"save", "coa", "refresh"}, e)
        PROVE  /\ dialogRows[e] = StatusOf(backend[e])
               /\ drawn[e].decomm = StatusOf(backend[e]).decomm
               /\ e \in undrawn \/ drawn[e] = StatusOf(backend[e])
    <2>0. SUFFICES dialogRows[e] = StatusOf(backend[e])
      BY DEF DrawnOK, Undisturbed
    <2>1. Own(e)
      BY <1>1
    <2>2. CASE current # e
      BY <1>2, <2>1, <2>2 DEF Own, Away, Out
    <2>3. CASE current = e /\ Out({"get"}, e)
      BY <2>1, <2>3 DEF Own, AtHand, Out
    <2>4. CASE current = e /\ ~Out({"get"}, e)
      BY <1>2, <2>1, <2>4 DEF Own, AtHand, FilledFrom, Out
    <2> QED BY <2>2, <2>3, <2>4
  <1>3. ASSUME NEW e \in Undisturbed, current = e, form.of = e,
               ~Out(DialogOps \ ({"sets", "sim", "rule", "timer"} \cup Panels), e)
        PROVE  /\ badge = StatusOf(backend[e]) /\ buttons = ButtonsFor(badge)
               /\ anc.of = e => anc.quar = backend[e].quar
    <2>1. Own(e)
      BY <1>1
    <2>2. \A o \in {"get", "save", "coa", "anc"} \cup StatusCmd \cup AncCmd :
            o \in DialogOps \ ({"sets", "sim", "rule", "timer"} \cup Panels)
      BY Kinds DEF Panels
    <2>3. /\ ~Out({"get", "save", "coa"}, e) /\ ~Out({"get", "save", "coa"} \cup StatusCmd, e)
          /\ ~Out(AncCmd \cup {"anc"}, e)
      BY <1>3, <2>2 DEF Out
    <2> QED BY <1>3, <2>1, <2>3 DEF Own, AtHand, AncOK, FilledFrom
  <1> QED BY <1>2, <1>3 DEF TruthShown, RowsTellTruth, DialogTellsTruth

\* An endpoint whose dialog was used one request at a time is never saved with the
\* values of another (browse-detail.js: the save reads the form and the current id),
\* whatever overlaps in the dialogs of others.
THEOREM ValuesAreOwn == DialogSpec => []OwnValues
  <1>1. DialogInv => OwnValues
    BY DEF DialogInv, Own, OwnValues
  <1> QED BY <1>1, DialogIsOK, PTL

\* Nor does it lose a role the form does not offer (browse-detail.js: roles that are
\* not in the catalog are sent back as they were).
THEOREM RolesAreKept == DialogSpec => []RolesSurvive
  <1>1. DialogInv => RolesSurvive
    BY DEF DialogInv, Own, RolesSurvive
  <1> QED BY <1>1, DialogIsOK, PTL

\* Once nothing of it is out, its row in memory and its open dialog show its status and
\* its quarantine, the dialog offers the commands that status allows, and the row on
\* screen is older at most in the Aktiv or Inaktiv that was set since it was drawn.
THEOREM TruthIsShown == DialogSpec => []TruthShown
  <1>1. Shape /\ DialogInv /\ DrawnOK => TruthShown
    BY Truth
  <1> QED BY <1>1, DialogIsOK, PTL
=============================================================================
