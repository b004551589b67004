------------------------------- MODULE Views -------------------------------
\* The views that load and reload themselves: dashboard, metrics, trends,
\* lifecycle, logs and audit.  A view is drawn into the one container of the
\* page; what a left view draws inside its own frame is seen by nobody.
EXTENDS Naturals, Sequences, FiniteSets

CONSTANTS Routes,     \* the routes a user may take
          MaxRenders, \* bound: views rendered
          MaxCalls    \* bound: with so many requests out no other is begun

VARIABLES renders,    \* views rendered so far
          insts,      \* each view, by the number of its rendering
          page,       \* what the container shows
          cleanup,    \* currentCleanup: the view it stops, 0: none
          calls       \* requests that are out

viewVars == <<renders, insts, page, cleanup, calls>>

\* What each view does.  "poll": an interval, stopped by its cleanup; "early":
\* set before the first load; "retry": loads again after 10 s while the cache
\* fills; "whole": draws over the container itself; "unawaited": its first
\* load is not waited for; "filter", "side", "rollback": what can be chosen.
Browse == {"poll"}
Dashboard == {"poll", "early"}
Metrics == {"poll"}
Trends == {"retry", "unawaited", "filter"}
Lifecycle == {"retry", "whole", "filter"}
Logs == {"filter", "side"}
Audit == {"filter", "side", "rollback"}
Features == [browse |-> Browse, dashboard |-> Dashboard, metrics |-> Metrics, trends |-> Trends,
             lifecycle |-> Lifecycle, logs |-> Logs, audit |-> Audit]

ASSUME ViewsAssumption == Routes \subseteq DOMAIN Features /\ MaxRenders \in Nat

View == [route : Routes, loading : BOOLEAN, timer : BOOLEAN, rows : {"none", "rows", "error"},
         open : BOOLEAN]
Page(kind, n) == [kind |-> kind, n |-> n]

Does(n, f) == f \in Features[insts[n].route]
Load(n, first, by) == [op |-> "load", n |-> n, first |-> first, by |-> by]
Room == Cardinality(calls) < MaxCalls
Seen(n) == page = Page("view", n)

NoViews == /\ renders = 0 /\ insts = <<>> /\ page = Page("blank", 0) /\ cleanup = 0
           /\ calls = {}

----------------------------------------------------------------------------
\* Variant: the cleanup of the view before is forgotten.
StartForgets(route, by, out) ==
    LET n == renders + 1 IN
    /\ n <= MaxRenders /\ renders' = n
    /\ insts' = Append(insts, [route |-> route, loading |-> "unawaited" \notin Features[route],
                               timer |-> "early" \in Features[route], rows |-> "none",
                               open |-> FALSE])
    /\ page' = Page("view", n) /\ cleanup' = 0
    /\ calls' = out \union {Load(n, TRUE, by)}

\* A view draws its frame and loads; the cleanup of the view before is run
\* first.  out: the requests that stay out.
Start(route, by, out) ==
    LET n == renders + 1
        f == Features[route]
    IN  /\ n <= MaxRenders
        /\ renders' = n
        /\ insts' = Append(IF cleanup = 0 THEN insts ELSE [insts EXCEPT ![cleanup].timer = FALSE],
                           [route |-> route, loading |-> "unawaited" \notin f,
                            timer |-> "early" \in f, rows |-> "none", open |-> FALSE])
        /\ page' = Page("view", n)
        /\ cleanup' = 0
        /\ calls' = out \union {Load(n, TRUE, by)}

\* An answer: rows, an error, or that the cache still fills.  Whatever has
\* been asked or opened since, it is drawn; the first one ends the rendering,
\* and the cleanup of a view that has one becomes the current one.
Drawn(c, rows, again) ==
    /\ insts' = [insts EXCEPT ![c.n].rows = rows,
                              ![c.n].timer = @ \/ again \/ (c.first /\ Does(c.n, "poll")),
                              ![c.n].loading = @ /\ ~c.first]
    /\ page' = IF Does(c.n, "whole") THEN Page("view", c.n) ELSE page
    /\ cleanup' = IF c.first /\ Does(c.n, "poll") THEN c.n ELSE cleanup
    /\ UNCHANGED renders

\* The interval, or the end of the 10 s.
TimerFires(n, by) ==
    /\ insts[n].timer /\ Room
    /\ insts' = [insts EXCEPT ![n].timer = Does(n, "poll"),
                              ![n].rows = IF Does(n, "whole") THEN "none" ELSE @]
    /\ page' = IF Does(n, "whole") THEN Page("view", n) ELSE page
    /\ calls' = calls \union {Load(n, FALSE, by)}
    /\ UNCHANGED <<renders, cleanup>>

\* Another period, level or search text, or the button that loads again.
LoadAgain(n, by) ==
    /\ Seen(n) /\ Room /\ Does(n, "filter")
    /\ Does(n, "whole") => insts[n].rows = "rows"
    /\ insts' = [insts EXCEPT ![n].timer = FALSE,
                              ![n].rows = IF Does(n, "whole") THEN "none" ELSE @]
    /\ calls' = calls \union {Load(n, FALSE, by)}
    /\ UNCHANGED <<renders, page, cleanup>>

\* The drawer of an audit event, the summary of the logs: read, then shown.
OpenSide(n, by) ==
    /\ Seen(n) /\ Room /\ Does(n, "side") /\ insts[n].rows = "rows"
    /\ calls' = calls \union {[op |-> "side", n |-> n, by |-> by]}
    /\ UNCHANGED <<renders, insts, page, cleanup>>

SideDrawn(c) ==
    /\ insts' = [insts EXCEPT ![c.n].open = TRUE]
    /\ UNCHANGED <<renders, page, cleanup>>

CloseSide(n) ==
    /\ Seen(n) /\ insts[n].open
    /\ insts' = [insts EXCEPT ![n].open = FALSE]
    /\ UNCHANGED <<renders, page, cleanup, calls>>

\* A rollback of an audit event; when it succeeds the drawer is closed and the
\* events are read again.
Rollback(n, by) ==
    /\ Seen(n) /\ Room /\ Does(n, "rollback") /\ insts[n].rows = "rows"
    /\ calls' = calls \union {[op |-> "rollback", n |-> n, by |-> by]}
    /\ UNCHANGED <<renders, insts, page, cleanup>>

RolledBack(c) ==
    /\ insts' = [insts EXCEPT ![c.n].open = FALSE]
    /\ UNCHANGED <<renders, page, cleanup>>
=============================================================================
