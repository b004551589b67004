----------------------------- MODULE BrowseTable -----------------------------
(***************************************************************************)
(* The table of the Browse view (views/browse-table.js), its filters       *)
(* (browse-filter.js) and its bulk operations (browse-bulk.js): rows of    *)
(* the catalogue in memory, rows on screen with what the operator has      *)
(* typed into them, and the requests that replace either.                  *)
(* A row has two kinds of inputs: those that are carried over when the     *)
(* rows are drawn anew (`text`; the authorization selects are such), and   *)
(* those that are not (`guest`, the guest registration select).  It also   *)
(* shows a badge, Aktiv or Inaktiv (`active`), which is no input.          *)
(***************************************************************************)
EXTENDS Naturals, FiniteSets

CONSTANTS N,         \* number of endpoints, listed in this order
          Sizes,     \* page sizes
          MaxCalls,  \* an operation begins only below this many open requests
          MaxActs,   \* bound on what the operator and other users do
          DecommSetAuthz, \* the setting: a decommission sets the authorization
          Gone       \* no row

ASSUME TableAssumption ==
  /\ N \in Nat /\ Sizes \subseteq Nat \ {0} /\ Sizes # {}
  /\ MaxCalls \in Nat /\ MaxActs \in Nat /\ DecommSetAuthz \in BOOLEAN
  /\ LET values == [text : BOOLEAN, guest : BOOLEAN, active : BOOLEAN]
     IN  /\ Gone \notin values
         /\ Gone \notin [vals : values, decomm : BOOLEAN, old : BOOLEAN, switched : BOOLEAN]

VARIABLES server,      \* what the backend holds
          rows,        \* state.allRows
          cache,       \* state.allRowsCache, or NoRows
          cached,      \* whether there is an allRowsCache
          table,       \* the rows on screen: their inputs and badge
          checked,     \* the ticked rows on screen
          dirty,       \* state.dirtyIds
          filter,      \* what the filter fields let through, and state.decommOnly
          filterMode,  \* state.filterMode
          loadingAll,  \* state.loadingAll
          page, size,  \* state.currentPage, state.currentSize
          total,       \* state.totalEndpoints
          debounce,    \* a changed filter waits for its 250 ms
          reload,      \* a pxGrid event waits for its 500 ms
          macs,        \* a session lookup is out that ends with applyFilter
          calls,       \* requests out, and answers not yet handled
          acts,        \* actions of users so far
          failed,      \* a load failed and emptied the table
          typed        \* history: text typed into a row since it was drawn

vars == <<server, rows, cache, cached, table, checked, dirty, filter, filterMode,
          loadingAll, page, size, total, debounce, reload, macs, calls, acts, failed,
          typed>>
screen == <<table, checked, failed, typed>>
list   == <<rows, cache, cached, filterMode, loadingAll, page, total>>

Endpoints == 1..N
Values == [text : BOOLEAN, guest : BOOLEAN, active : BOOLEAN]
\* old (history): the endpoint has been changed since, and nothing that the
\* table does on its own will tell it. switched (history): since it was read its
\* status was changed in bulk.
Row    == [vals : Values, decomm : BOOLEAN, old : BOOLEAN, switched : BOOLEAN]
Shown  == Values \cup {Gone}
Rows   == [Endpoints -> Row \cup {Gone}]
NoRows == [e \in Endpoints |-> Gone]
Blank  == [text |-> FALSE, guest |-> FALSE, active |-> FALSE]
None   == "none"

In(r) == {e \in Endpoints : r[e] # Gone}
Reads == {"load", "all", "fresh"}
Ops   == Reads \cup {"save", "delete", "decommission", "undecommission", "template"}
\* ids: the endpoints still to do; id: the one a loop is at; did: those done;
\* then: what waits for a full list.
Call  == [op : Ops, ids : SUBSET Endpoints, id : 0..N, did : SUBSET Endpoints,
          sent : Values, page : Nat, size : Sizes, then : {"load", "filter", "export"},
          served : BOOLEAN, ok : BOOLEAN, got : Rows, total : Nat]
Ask(o, ids) == [op |-> o, ids |-> ids, id |-> 0, did |-> {}, sent |-> Blank,
                page |-> page, size |-> size, then |-> "load", served |-> FALSE,
                ok |-> FALSE, got |-> NoRows, total |-> 0]

First(S) == CHOOSE e \in S : \A x \in S : e <= x
Slice(S, p, s) == {e \in S : LET rank == Cardinality({x \in S : x <= e})
                             IN  (p - 1) * s < rank /\ rank <= p * s}
\* Nothing that is under way will bring the change of S to these rows.
OutdateRows(r, S) == [e \in Endpoints |->
  IF e \in S /\ r[e] # Gone THEN [r[e] EXCEPT !.old = TRUE] ELSE r[e]]

Pages(n, s) == IF n = 0 THEN 1 ELSE (n + s - 1) \div s

NoFilter == [ids |-> Endpoints, decommOnly |-> FALSE]
needsFilterMode == filter # NoFilter
\* Decommissioned endpoints are hidden, or with decommOnly the others are.
Visible(r) == {e \in In(r) : ~r[e].decomm}
applyFiltersToRows(r) == {e \in In(r) \cap filter.ids : r[e].decomm = filter.decommOnly}

Init ==
  /\ server \in [Endpoints -> {[vals |-> [Blank EXCEPT !.active = a], decomm |-> d,
                                old |-> FALSE, switched |-> FALSE] :
                               a \in BOOLEAN, d \in BOOLEAN}]
  /\ \A e \in Endpoints : server[e].decomm => ~server[e].vals.active
  /\ rows = NoRows /\ cache = NoRows /\ cached = FALSE
  /\ table = [e \in Endpoints |-> Gone]
  /\ checked = {} /\ dirty = {} /\ failed = FALSE
  /\ typed = [e \in Endpoints |-> None]
  /\ filter = NoFilter /\ filterMode = FALSE /\ loadingAll = FALSE
  /\ page = 1 /\ size \in Sizes /\ total = 0
  /\ debounce = FALSE /\ reload = FALSE /\ macs = FALSE
  /\ calls = {Ask("load", {})}
  /\ acts = 0

-----------------------------------------------------------------------------
(* Drawing the rows *)

\* Variant: inputs are not carried over.
renderRowsForgets(S) ==
  /\ table' = [e \in Endpoints |-> IF e \in S THEN rows'[e].vals ELSE Gone]
  /\ checked' = checked \cap S
  /\ failed' = FALSE
  /\ typed' = [e \in Endpoints |->
       IF e \in S /\ e \in dirty' /\ table[e] # Gone THEN typed[e] ELSE None]

\* renderRows: ticks stay, and so does the text of dirty rows on screen.
renderRows(S) ==
  /\ table' = [e \in Endpoints |->
       IF e \notin S THEN Gone
       ELSE IF e \in dirty' /\ table[e] # Gone
            THEN [rows'[e].vals EXCEPT !.text = table[e].text]
            ELSE rows'[e].vals]
  /\ checked' = checked \cap S
  /\ failed' = FALSE
  /\ typed' = [e \in Endpoints |->
       IF e \in S /\ e \in dirty' /\ table[e] # Gone THEN typed[e] ELSE None]

\* The placeholder shown while a list is fetched, or nothing after an error.
ClearTable(error) ==
  /\ table' = [e \in Endpoints |-> Gone]
  /\ checked' = {}
  /\ failed' = error
  /\ typed' = [e \in Endpoints |-> None]

\* applyFilter, on page p of n endpoints: the client pages what it has all of.
applyFilter(p, n) ==
  IF filterMode'
  THEN LET S  == applyFiltersToRows(rows')
           tp == Pages(Cardinality(S), size')
           q  == IF p > tp THEN tp ELSE p
       IN  page' = q /\ total' = Cardinality(S) /\ renderRows(Slice(S, q, size'))
  ELSE page' = p /\ total' = n /\ renderRows(Visible(rows'))

-----------------------------------------------------------------------------
(* Loading the list *)

\* load: edits are given up at once, the rows stay if it is silent.
load(silent, p) ==
  /\ calls' = calls \cup {[Ask("load", {}) EXCEPT !.page = p, !.size = size']}
  /\ dirty' = {}
  /\ filterMode' = FALSE
  /\ cached' = FALSE /\ cache' = NoRows
  /\ page' = p
  /\ IF silent THEN UNCHANGED screen ELSE ClearTable(FALSE)
  /\ UNCHANGED <<rows, loadingAll, total>>

\* enterFilterMode, then what waited for it. r are the rows of the moment, C the
\* requests that remain. Nobody waits for a full list that someone else fetches.
enterFilterMode(r, C, then, n) ==
  \/ /\ ~loadingAll /\ ~cached
     /\ loadingAll' = TRUE
     /\ calls' = C \cup {[Ask("all", {}) EXCEPT !.then = then]}
     /\ rows' = r /\ page' = page /\ total' = n
     /\ ClearTable(FALSE)
     /\ UNCHANGED <<cache, cached, filterMode, dirty, macs>>
  \/ /\ loadingAll \/ cached
     /\ calls' = C
     /\ macs' = TRUE
     /\ rows' = IF loadingAll THEN r ELSE cache
     /\ filterMode' = IF loadingAll THEN filterMode ELSE TRUE
     /\ dirty' = dirty
     /\ LET p == IF loadingAll THEN page ELSE 1
        IN  IF then = "load" THEN applyFilter(p, n)
            ELSE page' = p /\ total' = n /\ UNCHANGED screen
     /\ UNCHANGED <<cache, cached, loadingAll>>

\* Variant: the page that was loaded is filtered.
LoadDonePageOnly(c) ==
  /\ c.op = "load" /\ c.ok
  /\ calls' = calls \ {c} /\ rows' = c.got /\ macs' = TRUE
  /\ filterMode' = needsFilterMode
  /\ UNCHANGED <<cache, cached, loadingAll, dirty>>
  /\ applyFilter(page, c.total)

LoadDone(c) ==
  /\ c.op = "load" /\ c.ok
  /\ IF needsFilterMode
     THEN enterFilterMode(c.got, calls \ {c}, "load", c.total)
     ELSE /\ calls' = calls \ {c} /\ rows' = c.got /\ macs' = TRUE
          /\ UNCHANGED <<cache, cached, filterMode, loadingAll, dirty>>
          /\ applyFilter(page, c.total)

LoadFails(c) ==
  /\ c.op = "load" /\ ~c.ok
  /\ calls' = calls \ {c}
  /\ ClearTable(TRUE)
  /\ rows' = OutdateRows(rows, Endpoints)
  /\ UNCHANGED <<cache, cached, filterMode, loadingAll, page, total, dirty, macs>>

\* The full list: of enterFilterMode, or of an export.
AllDone(c) ==
  /\ c.op = "all" /\ c.ok /\ c.then # "export"
  /\ calls' = calls \ {c}
  /\ rows' = c.got /\ cache' = c.got /\ cached' = TRUE
  /\ filterMode' = TRUE /\ loadingAll' = FALSE /\ macs' = TRUE
  /\ UNCHANGED dirty
  /\ IF c.then = "load" THEN applyFilter(1, total)
     ELSE page' = 1 /\ UNCHANGED <<screen, total>>

AllFails(c) ==
  /\ c.op = "all" /\ ~c.ok /\ c.then # "export"
  /\ calls' = calls \ {c}
  /\ loadingAll' = FALSE /\ macs' = TRUE
  /\ UNCHANGED <<rows, cache, cached, filterMode, dirty>>
  /\ IF c.then = "load" THEN applyFilter(page, total)
     ELSE UNCHANGED <<screen, page, total>>

ExportDone(c) ==
  /\ c.op = "all" /\ c.then = "export"
  /\ calls' = calls \ {c}
  /\ cached' = (cached \/ c.ok)
  /\ cache' = IF c.ok THEN c.got ELSE cache
  /\ UNCHANGED <<screen, dirty, rows, filterMode, loadingAll, page, total, macs>>

\* refreshRows, after a save: endpoints that could not be read keep the old row.
FreshDone(c) ==
  /\ c.op = "fresh"
  /\ calls' = calls \ {c}
  /\ LET upd(r) == [e \in Endpoints |->
           IF r[e] = Gone \/ e \notin c.ids THEN r[e]
           ELSE IF c.got[e] # Gone THEN c.got[e] ELSE [r[e] EXCEPT !.old = TRUE]]
     IN  rows' = upd(rows) /\ cache' = upd(cache)
  /\ dirty' = dirty \ In(c.got)
  /\ UNCHANGED <<cached, filterMode, loadingAll, macs>>
  /\ IF In(c.got) = {} THEN UNCHANGED <<screen, page, total>>
     ELSE applyFilter(page, total)

-----------------------------------------------------------------------------
(* Saving, and the operations on ticked rows *)

\* The loop goes to the next of ids whose row is on screen at that moment.
SaveNext(c, ids, did, C) ==
  LET todo == ids \cap In(table)
  IN  IF todo # {}
      THEN LET e == First(todo)
           IN  C \cup {[Ask("save", {x \in ids : x > e}) EXCEPT
                        !.id = e, !.did = did, !.sent = table[e]]}
      ELSE IF did # {} THEN C \cup {Ask("fresh", did)} ELSE C

\* runSaveLoop: the mark is removed when the answer is there, whatever has been
\* typed since the request.
SaveDone(c) ==
  /\ c.op = "save"
  /\ LET did == IF c.ok THEN c.did \cup {c.id} ELSE c.did
     IN  calls' = SaveNext(c, c.ids, did, calls \ {c})
  /\ dirty' = IF c.ok THEN dirty \ {c.id} ELSE dirty
  /\ UNCHANGED <<screen, list, macs>>

\* Bulk delete, one request after the other; the rows are drawn at the end.
DeleteDone(c) ==
  /\ c.op = "delete"
  /\ LET del(r) == IF c.ok THEN [r EXCEPT ![c.id] = Gone] ELSE r
     IN  rows' = del(rows) /\ cache' = del(cache)
  /\ UNCHANGED <<cached, filterMode, loadingAll, dirty, macs>>
  /\ IF c.ids = {}
     THEN calls' = calls \ {c} /\ applyFilter(page, total)
     ELSE /\ LET e == First(c.ids)
             IN  calls' = (calls \ {c}) \cup {[Ask("delete", c.ids \ {e}) EXCEPT !.id = e]}
          /\ UNCHANGED <<screen, page, total>>

\* Bulk decommission and its reverse: did are those the backend reports done. The
\* rows take the status, and keep the badge and the authorization they had.
StatusDone(c) ==
  /\ c.op \in {"decommission", "undecommission"}
  /\ calls' = calls \ {c}
  /\ LET upd(r) == [e \in Endpoints |->
           IF e \notin c.did \/ r[e] = Gone THEN r[e]
           ELSE [r[e] EXCEPT !.decomm = (c.op = "decommission"),
                             !.switched = TRUE,
                             !.old = @ \/ (c.got[e] # Gone /\ c.got[e].old)]]
     IN  rows' = upd(rows) /\ cache' = upd(cache)
  /\ UNCHANGED <<cached, filterMode, loadingAll, dirty, macs>>
  /\ IF c.did = {} THEN UNCHANGED <<screen, page, total>> ELSE applyFilter(page, total)

\* A template that was applied to any endpoint loads the list again, from page
\* `page`; edits of other rows are given up with it.
TemplateDone(c) ==
  /\ c.op = "template"
  /\ UNCHANGED macs
  /\ IF c.did = {}
     THEN calls' = calls \ {c} /\ UNCHANGED <<screen, list, dirty>>
     ELSE /\ calls' = (calls \ {c}) \cup {Ask("load", {})}
          /\ dirty' = {} /\ filterMode' = FALSE /\ cached' = FALSE /\ cache' = NoRows
          /\ ClearTable(FALSE)
          /\ UNCHANGED <<rows, loadingAll, page, total>>

Handle ==
  /\ UNCHANGED <<server, filter, size, debounce, reload, acts>>
  /\ \E c \in calls : c.served /\
       \/ LoadDone(c) \/ LoadFails(c) \/ AllDone(c) \/ AllFails(c) \/ ExportDone(c)
       \/ FreshDone(c) \/ SaveDone(c) \/ DeleteDone(c) \/ StatusDone(c)
       \/ TemplateDone(c)

-----------------------------------------------------------------------------
(* The backend *)

\* Copies of S become old: those read before, and if nobody here knows of the
\* change also those in memory.
Outdate(C, S) == {IF c.served
                  THEN [c EXCEPT !.got = [e \in Endpoints |->
                         IF e \in S /\ @[e] # Gone THEN [@[e] EXCEPT !.old = TRUE]
                                                   ELSE @[e]]]
                  ELSE c : c \in C}

\* A save sends the inputs, a status command also sets the active attribute, and
\* a decommission the authorization if the settings say so.
Written(c, S) == [e \in Endpoints |->
  IF e \notin S \/ server[e] = Gone THEN server[e]
  ELSE CASE c.op = "save"     -> [server[e] EXCEPT !.vals.text = c.sent.text,
                                                   !.vals.guest = c.sent.guest]
         [] c.op = "delete"   -> Gone
         [] c.op = "template" -> [server[e] EXCEPT !.vals.text = TRUE]
         [] c.op = "decommission" ->
              [server[e] EXCEPT !.decomm = TRUE, !.vals.active = FALSE,
                                !.vals.text = @ \/ DecommSetAuthz]
         [] c.op = "undecommission" ->
              [server[e] EXCEPT !.decomm = FALSE, !.vals.active = TRUE]]

\* A read is answered from the catalogue as it is; it may fail.
ServeRead(c) ==
  /\ c.op \in Reads
  /\ \E ok \in BOOLEAN, S \in SUBSET c.ids :
       LET all == In(server)
           has == CASE c.op = "load"  -> Slice(all, c.page, c.size)
                    [] c.op = "all"   -> all
                    [] c.op = "fresh" -> S \cap all
       IN  /\ c.op = "fresh" => ok
           /\ c.op # "fresh" => S = {}
           /\ calls' = (calls \ {c}) \cup {[c EXCEPT !.served = TRUE, !.ok = ok,
                !.got = IF ok THEN [e \in Endpoints |-> IF e \in has THEN server[e] ELSE Gone]
                              ELSE NoRows,
                !.total = IF ok THEN Cardinality(all) ELSE 0]}
  /\ UNCHANGED <<server, rows, cache>>

\* A write is carried out for some of its endpoints and reported, or fails; the
\* report may be lost.
ServeWrite(c) ==
  /\ c.op \notin Reads
  /\ \E S \in SUBSET (IF c.op \in {"save", "delete"} THEN {c.id} ELSE c.ids),
        lost \in BOOLEAN :
       LET reported == IF lost THEN {} ELSE S \cap In(server)
           after    == Written(c, S)
       IN  /\ lost => S # {}
           /\ server' = after
           /\ calls' = Outdate(calls \ {c}, S) \cup
                {[c EXCEPT !.served = TRUE, !.ok = (reported # {}),
                  !.did = IF c.op = "save" THEN @ ELSE reported,
                  !.got = IF c.op \in {"decommission", "undecommission"}
                          THEN [e \in Endpoints |-> IF e \in reported THEN after[e] ELSE Gone]
                          ELSE NoRows]}
           /\ rows' = OutdateRows(rows, IF lost THEN S ELSE {})
           /\ cache' = OutdateRows(cache, IF lost THEN S ELSE {})

Serve ==
  /\ \E c \in calls : ~c.served /\ (ServeRead(c) \/ ServeWrite(c))
  /\ UNCHANGED <<screen, cached, dirty, filter, filterMode, loadingAll, page, size,
                 total, debounce, reload, macs, acts>>

-----------------------------------------------------------------------------
(* Users, timers and events *)

Act == acts < MaxActs /\ acts' = acts + 1
Room == Cardinality(calls) < MaxCalls

\* Another user, or ISE, changes an endpoint: a value, or whether it is active.
OtherWrite(e) ==
  /\ Act /\ server[e] # Gone
  /\ \/ server' = [server EXCEPT ![e].vals.text = ~@]
     \/ server' = [server EXCEPT ![e].vals.active = ~@]
  /\ calls' = Outdate(calls, {e})
  /\ rows' = OutdateRows(rows, {e}) /\ cache' = OutdateRows(cache, {e})
  /\ UNCHANGED <<screen, cached, dirty, filter, filterMode, loadingAll, page, size,
                 total, debounce, reload, macs>>

\* An input of row e, or (bulk edit) of the ticked rows; markDirty ticks the row.
Edit(S, f, v) ==
  /\ Act /\ S # {} /\ S \subseteq In(table)
  /\ table' = [e \in Endpoints |-> IF e \in S THEN [table[e] EXCEPT ![f] = v] ELSE table[e]]
  /\ typed' = [e \in Endpoints |-> IF e \in S /\ f = "text"
                                   THEN (IF v THEN "yes" ELSE "no") ELSE typed[e]]
  /\ dirty' = dirty \cup S /\ failed' = failed
  /\ checked' = checked \cup S
  /\ UNCHANGED <<server, list, filter, size, debounce, reload, macs, calls>>

EditRow(e) == \E f \in {"text", "guest"} :
  table[e] # Gone /\ Edit({e}, f, ~table[e][f])
BulkEdit == \E f \in {"text", "guest"}, v \in BOOLEAN : Edit(checked, f, v)

Tick(e) ==
  /\ Act /\ table[e] # Gone
  /\ checked' = IF e \in checked THEN checked \ {e} ELSE checked \cup {e}
  /\ UNCHANGED <<server, list, table, failed, typed, dirty, filter, size, debounce, reload,
                 macs, calls>>

\* Variant: the inputs are left as they are.
UndoMarksOnly ==
  /\ Act /\ dirty # {}
  /\ dirty' = {} /\ checked' = checked \ dirty
  /\ UNCHANGED <<server, list, table, failed, typed, filter, size, debounce, reload,
                 macs, calls>>

\* revertDirtyRows: the inputs on screen get the values in memory.
Undo ==
  /\ Act /\ dirty # {}
  /\ LET S == dirty \cap In(rows) \cap In(table)
     IN  /\ table' = [e \in Endpoints |-> IF e \in S
                            THEN [rows[e].vals EXCEPT !.active = table[e].active]
                            ELSE table[e]]
         /\ typed' = [e \in Endpoints |-> IF e \in S THEN None ELSE typed[e]]
         /\ checked' = checked \ S
  /\ dirty' = {} /\ failed' = failed
  /\ UNCHANGED <<server, list, filter, size, debounce, reload, macs, calls>>

\* Save all, or the ticked rows. Its button is disabled by the click, and enabled
\* again by the next edit, tick or drawing; here it is never disabled.
Save(ids) ==
  /\ Act /\ Room /\ ids # {}
  /\ calls' = SaveNext(Ask("save", {}), ids, {}, calls)
  /\ UNCHANGED <<server, screen, list, dirty, filter, size, debounce, reload, macs>>

\* Delete, decommission, reactivate or apply a template to the ticked rows.
Bulk(o) ==
  /\ Act /\ Room /\ checked # {} /\ \A c \in calls : c.op # o
  /\ LET e == First(checked)
     IN  calls' = calls \cup {IF o = "delete"
                              THEN [Ask(o, checked \ {e}) EXCEPT !.id = e]
                              ELSE Ask(o, checked)}
  /\ UNCHANGED <<server, screen, list, dirty, filter, size, debounce, reload, macs>>

Goto(p, s) ==
  /\ Act /\ size' = s
  /\ IF filterMode
     THEN /\ UNCHANGED <<rows, cache, cached, filterMode, loadingAll, dirty, calls>>
          /\ applyFilter(p, total)
     ELSE Room /\ load(FALSE, p)
  /\ UNCHANGED <<server, filter, debounce, reload, macs>>
PagePrev == page > 1 /\ Goto(page - 1, size)
PageNext == page < Pages(total, size) /\ Goto(page + 1, size)
PageSize == \E s \in Sizes : s # size /\ Goto(1, s)

\* The refresh buttons.
Refresh ==
  /\ Act /\ Room /\ size' = size
  /\ load(TRUE, page)
  /\ UNCHANGED <<server, filter, debounce, reload, macs>>

FilterInput(S) ==
  /\ Act /\ S # filter.ids
  /\ filter' = [filter EXCEPT !.ids = S] /\ debounce' = TRUE
  /\ UNCHANGED <<server, screen, list, dirty, size, reload, macs, calls>>

\* The chip that asks for the decommissioned endpoints, back on the first page.
DecommChip ==
  /\ Act
  /\ filter' = [filter EXCEPT !.decommOnly = ~@] /\ debounce' = TRUE
  /\ page' = 1
  /\ UNCHANGED <<server, screen, rows, cache, cached, filterMode, loadingAll, total,
                 dirty, size, reload, macs, calls>>

\* Clear all filters: the full list is forgotten too, and onFilterChange runs at
\* once.
FilterClear ==
  /\ Act /\ Room /\ filter # NoFilter
  /\ filter' = NoFilter
  /\ size' = size
  /\ \/ filterMode /\ load(FALSE, 1)
     \/ /\ ~filterMode
        /\ cached' = FALSE /\ cache' = NoRows
        /\ UNCHANGED <<rows, filterMode, loadingAll, dirty, calls>>
        /\ applyFilter(page, total)
  /\ UNCHANGED <<server, debounce, reload, macs>>

\* onFilterChange, 250 or 400 ms after a field was changed; for buttons, chips
\* and dates at once.
FilterTimer ==
  /\ debounce /\ Room
  /\ debounce' = FALSE
  /\ size' = size
  /\ \/ /\ needsFilterMode
        /\ enterFilterMode(rows, calls, "filter", total)
     \/ /\ ~needsFilterMode /\ filterMode
        /\ load(FALSE, 1)
        /\ UNCHANGED macs
     \/ /\ ~needsFilterMode /\ ~filterMode
        /\ UNCHANGED <<rows, cache, cached, filterMode, loadingAll, dirty, calls, macs>>
        /\ applyFilter(page, total)
  /\ UNCHANGED <<server, filter, reload, acts>>

\* Without ticked rows and outside of filter mode an export fetches everything.
Export ==
  /\ Act /\ Room /\ checked = {} /\ ~filterMode /\ ~cached
  /\ \A c \in calls : c.then # "export"
  /\ calls' = calls \cup {[Ask("all", {}) EXCEPT !.then = "export"]}
  /\ UNCHANGED <<server, screen, list, dirty, filter, size, debounce, reload, macs>>

\* pxGrid reports a changed endpoint: the list is loaded again, unless there
\* are unsaved edits.
EndpointEvent ==
  /\ Act /\ ~reload
  /\ reload' = TRUE
  /\ UNCHANGED <<server, screen, list, dirty, filter, size, debounce, macs, calls>>
ReloadTimer ==
  /\ reload /\ Room
  /\ reload' = FALSE
  /\ size' = size
  /\ IF dirty = {} THEN load(TRUE, page) ELSE UNCHANGED <<screen, list, dirty, calls>>
  /\ UNCHANGED <<server, filter, debounce, macs, acts>>

\* The end of a session lookup, or a session event, draws the rows anew.
Redraw ==
  /\ macs' \in {macs, FALSE}
  /\ UNCHANGED <<server, rows, cache, cached, dirty, filter, filterMode, loadingAll,
                 size, debounce, reload, calls, acts>>
  /\ applyFilter(page, total)

Next ==
  \/ Serve \/ Handle \/ Redraw \/ FilterTimer \/ ReloadTimer
  \/ \E e \in Endpoints : OtherWrite(e) \/ EditRow(e) \/ Tick(e)
  \/ BulkEdit \/ Undo \/ Save(dirty) \/ Save(checked)
  \/ \E o \in Ops \ (Reads \cup {"save"}) : Bulk(o)
  \/ PagePrev \/ PageNext \/ PageSize \/ Refresh
  \/ \E S \in SUBSET Endpoints : FilterInput(S)
  \/ DecommChip \/ FilterClear \/ Export \/ EndpointEvent

Spec == Init /\ [][Next]_vars

-----------------------------------------------------------------------------
(* Properties *)

\* The variables have the types the code gives them, and only rows on screen are
\* ticked.
TypeOK ==
  /\ server \in Rows /\ rows \in Rows /\ cache \in Rows /\ cached \in BOOLEAN
  /\ table \in [Endpoints -> Shown] /\ checked \subseteq In(table)
  /\ dirty \subseteq Endpoints
  /\ filter \in [ids : SUBSET Endpoints, decommOnly : BOOLEAN]
  /\ filterMode \in BOOLEAN /\ loadingAll \in BOOLEAN
  /\ page \in Nat \ {0} /\ size \in Sizes /\ total \in Nat
  /\ debounce \in BOOLEAN /\ reload \in BOOLEAN /\ macs \in BOOLEAN
  /\ failed \in BOOLEAN /\ calls \subseteq Call /\ acts \in 0..MaxActs
  /\ typed \in [Endpoints -> {None, "yes", "no"}]

Quiet == calls = {} /\ ~macs /\ ~debounce

\* Text typed into a row stays there as long as the row is on screen and marked
\* as unsaved, whatever events, lookups, saves and answers draw the rows anew.
EditsSurvive ==
  \A e \in dirty \cap In(table) :
    typed[e] # None => table[e].text = (typed[e] = "yes")

\* What a row shows of its endpoint, if nobody else has changed it: everything; but
\* if its status was changed in bulk since it was read, the active badge and the
\* authorization may be those of before, for the command set them in the backend
\* alone (browse-bulk.js:482, endpoint_service.py:1042).
ShowsTruth(e) ==
  IF rows[e].switched
  THEN /\ table[e].guest = server[e].vals.guest
       /\ DecommSetAuthz \/ table[e].text = server[e].vals.text
       /\ server[e].vals.active = ~server[e].decomm
  ELSE table[e] = server[e].vals

\* Once everything is answered, a row without unsaved edits has the status the
\* backend has and shows what the backend holds (as far as ShowsTruth says), unless
\* it was changed by others or its report was lost. Out of filter mode no
\* decommissioned endpoint has a row.
TableTellsTruth ==
  Quiet => \A e \in In(table) \ dirty :
    /\ rows[e] # Gone
    /\ \/ rows[e].old
       \/ /\ server[e] # Gone
          /\ rows[e].decomm = server[e].decomm
          /\ server[e].decomm => filterMode
          /\ ShowsTruth(e)

\* In filter mode the table has every endpoint the filter lets through: the page
\* of all of them, not the matches on the page that was loaded.
FilterFindsAll ==
  (Quiet /\ filterMode /\ needsFilterMode /\ ~failed /\ \A e \in In(rows) : ~rows[e].old) =>
    In(table) = Slice(applyFiltersToRows(server), page, size)

=============================================================================
