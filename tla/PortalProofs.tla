--------------------------- MODULE PortalProofs ---------------------------
\* Safety of the browser client's shell, for any number of views, sessions,
\* requests and user actions: one live view, no token that ends unnoticed, and
\* no view in front of nobody.
EXTENDS Portal, FiniteSetTheorems, TLAPS

\* What a request carries: a first load of a polling view is of one that still
\* loads, and a renewal that was accepted is of a session.
CallOK(c) ==
    /\ c.op = "load" =>
          /\ c \in [op : {"load"}, n : 1..renders, first : BOOLEAN, by : 0..logins]
          /\ c.first /\ Does(c.n, "poll") => insts[c.n].loading
    /\ c.op \in {"side", "rollback"} => c.n \in 1..renders
    /\ c.op = "refresh" =>
          /\ c \in [op : {"refresh"}, by : 0..logins, st : {"out", "ok", "401", "lost"}]
          /\ c.st = "ok" => c.by # 0

FirstLoad(c) == c.op = "load" /\ c.first = TRUE

CallsOK == /\ \A c \in calls : CallOK(c)
           /\ \A c, d \in calls : FirstLoad(c) /\ FirstLoad(d) /\ c.n = d.n => c = d

FrameOK ==
    /\ renders \in 0..MaxRenders /\ insts \in Seq(View) /\ Len(insts) = renders
    /\ page.kind \in {"blank", "view", "login", "error"} /\ page.n \in 0..renders
    /\ cleanup \in 0..renders

SessionOK ==
    /\ boot \in {"status", "worker", "verify", "prefs", "up"}
    /\ user \in 0..logins /\ cookie \in 0..logins /\ valid \in SUBSET (1..logins)
    /\ logins \in Nat
    /\ age \in {"none", "fresh", "due", "expired"}
    /\ hash \in Routes \union {NoHash} /\ hashEvent \in BOOLEAN
    /\ refresher \in BOOLEAN /\ polled \in BOOLEAN /\ excused \in BOOLEAN /\ overlap \in BOOLEAN

\* Without an overlap, what is loading is the view rendered last, and the
\* cleanup of the one before has been run.
LastLoads == ~overlap => \A n \in 1..renders : insts[n].loading => n = renders /\ cleanup = 0

\* A poll that has run has left a renewal, which is out or has failed.
Renewing == polled => excused \/ \E c \in calls : c.op = "refresh"

ViewsOK == FrameOK /\ CallsOK /\ LastLoads /\ OneLiveView

IInv == ViewsOK /\ SessionOK /\ Renewing /\ ExpiresOnlyOffline /\ LoggedOutSeesLogin

NoWhole == \A n \in 1..renders : ~Does(n, "whole")
Asked == \E c \in calls : c.op = "status"

----------------------------------------------------------------------------
\* No view that polls retries, and none is loaded without waiting (app.js
\* waits for the views that return a cleanup).
LEMMA FeatureFacts ==
    ASSUME NEW r \in Routes, "poll" \in Features[r]
    PROVE  "retry" \notin Features[r] /\ "unawaited" \notin Features[r]
<1>1. r \in {"browse", "dashboard", "metrics", "trends", "lifecycle", "logs", "audit"}
  BY ViewsAssumption DEF Features
<1>. QED
  BY <1>1 DEF Features, Browse, Dashboard, Metrics, Trends, Lifecycle, Logs, Audit

\* The login page asks for the state of the setup, and nothing else changes.
LEMMA AskStatusAsks ==
    ASSUME NEW out
    PROVE  /\ \E c \in AskStatus(out) : c.op = "status"
           /\ out \subseteq AskStatus(out)
           /\ \A c \in AskStatus(out) : c \in out \/ c.op = "status"
<1>. DEFINE S == {c \in out : c.op = "status"}
<1>. DEFINE new == [op |-> "status", n |-> 1 + Cardinality(S)]
<1>1. CASE Cardinality(S) = 2
  <2>1. Cardinality({}) = 0
    BY FS_EmptySet
  <2>2. S # {}
    BY <2>1, <1>1
  <2>3. AskStatus(out) = out
    BY <1>1 DEF AskStatus
  <2>. QED
    BY <2>2, <2>3
<1>2. CASE Cardinality(S) # 2
  <2>1. AskStatus(out) = out \union {new}
    BY <1>2 DEF AskStatus
  <2>2. new.op = "status"
    OBVIOUS
  <2>. HIDE DEF new
  <2>. QED
    BY <2>1, <2>2
<1>. QED
  BY <1>1, <1>2

\* The requests that stay out once one has ended.
LEMMA LeftLeaves ==
    ASSUME NEW c, NEW o
    PROVE  /\ o = "401" /\ Handlers => \E d \in Left(c, o) : d.op = "status"
           /\ calls \ {c} \subseteq Left(c, o)
           /\ \A d \in Left(c, o) : d \in calls \ {c} \/ d.op = "status"
  BY AskStatusAsks DEF Left

----------------------------------------------------------------------------
\* Requests come and go while no view changes but in what it shows.
SameLoads == \A n \in 1..renders : /\ insts'[n].route = insts[n].route
                                  /\ insts'[n].loading = insts[n].loading

LEMMA CallsKept ==
    ASSUME CallsOK, FrameOK, renders' = renders, SameLoads,
           logins \in Nat, logins' \in Nat, logins <= logins',
           \A d \in calls' : d \in calls \/ (CallOK(d)' /\ ~FirstLoad(d))
    PROVE  CallsOK'
<1>1. \A d \in calls : CallOK(d)'
  <2>. SUFFICES ASSUME NEW d \in calls PROVE CallOK(d)'
    OBVIOUS
  <2>0. CallOK(d)
    BY DEF CallsOK
  <2>1. 0..logins \subseteq 0..logins'
    OBVIOUS
  <2>2. ASSUME d.op = "load"
        PROVE  /\ d \in [op : {"load"}, n : 1..renders', first : BOOLEAN, by : 0..logins']
               /\ d.first /\ Does(d.n, "poll")' => insts'[d.n].loading
    BY <2>0, <2>1, <2>2 DEF CallOK, Does, SameLoads
  <2>3. ASSUME d.op = "refresh"
        PROVE  /\ d \in [op : {"refresh"}, by : 0..logins', st : {"out", "ok", "401", "lost"}]
               /\ d.st = "ok" => d.by # 0
    BY <2>0, <2>1, <2>3 DEF CallOK
  <2>. QED
    BY <2>0, <2>2, <2>3 DEF CallOK
<1>. QED
  BY <1>1 DEF CallsOK, FirstLoad

\* A new view: the interval of the one before has been stopped, and the new one
\* loads unless nobody waits for it.
LEMMA StartKeeps ==
    ASSUME ViewsOK, NEW route \in Routes, NEW by \in 0..logins, NEW out,
           logins \in Nat, logins' = logins, overlap \in BOOLEAN,
           \A d \in out : d \in calls \/ (CallOK(d)' /\ ~FirstLoad(d)),
           Start(route, by, out),
           overlap' = (overlap \/ \E n \in 1..renders : insts[n].loading)
    PROVE  ViewsOK'
<1>k. PICK k : k = renders + 1
  OBVIOUS
<1>. DEFINE f == Features[route]
<1>. DEFINE new == [route |-> route, loading |-> "unawaited" \notin f, timer |-> "early" \in f,
                    rows |-> "none", open |-> FALSE]
<1>. DEFINE old == IF cleanup = 0 THEN insts ELSE [insts EXCEPT ![cleanup].timer = FALSE]
<1>0. /\ renders \in Nat /\ cleanup \in 0..renders /\ insts \in Seq(View) /\ Len(insts) = renders
      /\ MaxRenders \in Nat
  BY ViewsAssumption DEF ViewsOK, FrameOK
<1>1. /\ k <= MaxRenders /\ renders' = k /\ page' = [kind |-> "view", n |-> k] /\ cleanup' = 0
      /\ calls' = out \union {Load(k, TRUE, by)}
  BY <1>k DEF Start, Page
<1>2. insts' = Append(old, new)
  BY <1>k DEF Start
<1>3. new \in View
  BY DEF View
<1>4. /\ old \in Seq(View) /\ Len(old) = renders
      /\ \A n \in 1..renders : /\ old[n].route = insts[n].route
                               /\ old[n].loading = insts[n].loading
                               /\ old[n].timer => insts[n].timer /\ n # cleanup
  <2>1. CASE cleanup = 0
    BY <2>1, <1>0
  <2>2. CASE cleanup # 0
    <3>. DEFINE w == [insts[cleanup] EXCEPT !.timer = FALSE]
    <3>1. cleanup \in 1..renders /\ insts[cleanup] \in View
      BY <2>2, <1>0
    <3>2. /\ w \in View /\ w.timer = FALSE
          /\ w.route = insts[cleanup].route /\ w.loading = insts[cleanup].loading
      BY <3>1 DEF View
    <3>3. old = [insts EXCEPT ![cleanup] = w]
      BY <2>2
    <3>. HIDE DEF old, w
    <3>4. old \in Seq(View) /\ Len(old) = renders
      BY <3>1, <3>2, <3>3, <1>0
    <3>5. \A n \in 1..renders : old[n] = IF n = cleanup THEN w ELSE insts[n]
      BY <3>1, <3>3, <1>0
    <3>. QED
      BY <3>2, <3>4, <3>5
  <2>. QED
    BY <2>1, <2>2
<1>. HIDE DEF old, new
<1>5. /\ insts' \in Seq(View) /\ Len(insts') = k /\ insts'[k] = new
      /\ \A n \in 1..renders : insts'[n] = old[n]
  BY <1>k, <1>0, <1>2, <1>3, <1>4
<1>6. FrameOK'
  BY <1>k, <1>0, <1>1, <1>5 DEF FrameOK
<1>7. /\ new.route = route /\ new.loading = ("unawaited" \notin f) /\ new.timer = ("early" \in f)
  BY DEF new
<1>8. Does(k, "poll")' => new.loading
  BY <1>5, <1>7, FeatureFacts DEF Does
<1>9. CallsOK'
  <2>1. \A d \in calls : CallOK(d)'
    <3>. SUFFICES ASSUME NEW d \in calls PROVE CallOK(d)'
      OBVIOUS
    <3>1. CallOK(d)
      BY DEF ViewsOK, CallsOK
    <3>2. 1..renders \subseteq 1..renders'
      BY <1>k, <1>0, <1>1
    <3>3. ASSUME d.op = "load", d.first, Does(d.n, "poll")' PROVE insts'[d.n].loading
      BY <3>1, <3>3, <1>4, <1>5 DEF CallOK, Does
    <3>. QED
      BY <3>1, <3>2, <3>3 DEF CallOK
  <2>. DEFINE l == Load(k, TRUE, by)
  <2>2. /\ l.op = "load" /\ l.n = k /\ l.first = TRUE
        /\ l \in [op : {"load"}, n : 1..renders', first : BOOLEAN, by : 0..logins']
    BY <1>k, <1>0, <1>1 DEF Load
  <2>3. CallOK(l)'
    BY <2>2, <1>5, <1>8 DEF CallOK
  <2>4. \A d \in calls : FirstLoad(d) => d.n # k
    BY <1>k, <1>0 DEF ViewsOK, CallsOK, CallOK, FirstLoad
  <2>5. calls' = out \union {l}
    BY <1>1
  <2>. HIDE DEF l
  <2>6. ASSUME NEW c \in calls', NEW d \in calls', FirstLoad(c), FirstLoad(d), c.n = d.n
        PROVE  c = d
    BY <2>2, <2>4, <2>5, <2>6 DEF ViewsOK, CallsOK
  <2>. QED
    BY <2>1, <2>3, <2>5, <2>6 DEF CallsOK
<1>10. LastLoads'
  <2>. SUFFICES ASSUME ~overlap', NEW n \in 1..k, insts'[n].loading PROVE n = k
    BY <1>1 DEF LastLoads
  <2>1. CASE n \in 1..renders
    <3>1. insts[n].loading
      BY <2>1, <1>4, <1>5
    <3>. QED
      BY <2>1, <3>1
  <2>. QED
    BY <2>1, <1>k, <1>0
<1>11. OneLiveView'
  <2>. SUFFICES ASSUME ~overlap', NEW n \in 1..k, insts'[n].timer, Does(n, "poll")'
                PROVE  insts'[n].loading
    BY <1>1 DEF OneLiveView
  <2>1. CASE n = k
    BY <2>1, <1>5, <1>8
  <2>2. CASE n \in 1..renders
    <3>1. insts[n].timer /\ Does(n, "poll") /\ n # cleanup
      BY <2>2, <1>4, <1>5 DEF Does
    <3>2. insts[n].loading
      BY <2>2, <3>1 DEF ViewsOK, OneLiveView
    <3>. QED
      BY <2>2, <3>2
  <2>. QED
    BY <2>1, <2>2, <1>k, <1>0
<1>. QED
  BY <1>6, <1>9, <1>10, <1>11 DEF ViewsOK

\* One view changes in what it shows: its timer may stop, or be set by a view
\* that retries.
LEMMA ShownKeeps ==
    ASSUME ViewsOK, NEW n \in 1..renders, NEW w \in View,
           insts' = [insts EXCEPT ![n] = w],
           w.route = insts[n].route, w.loading = insts[n].loading,
           w.timer => insts[n].timer \/ Does(n, "retry"),
           renders' = renders, cleanup' = cleanup, page' = page \/ page' = Page("view", n),
           overlap' = overlap, logins \in Nat, logins' = logins,
           \A d \in calls' : d \in calls \/ (CallOK(d)' /\ ~FirstLoad(d))
    PROVE  ViewsOK' /\ \A i \in 1..renders : insts'[i].route = insts[i].route
<1>0. /\ renders \in Nat /\ cleanup \in 0..renders /\ insts \in Seq(View) /\ Len(insts) = renders
  BY ViewsAssumption DEF ViewsOK, FrameOK
<1>1. /\ insts' \in Seq(View) /\ Len(insts') = renders
      /\ \A i \in 1..renders : insts'[i] = IF i = n THEN w ELSE insts[i]
  BY <1>0
<1>2. FrameOK'
  BY <1>0, <1>1 DEF ViewsOK, FrameOK, Page
<1>3. SameLoads
  BY <1>1 DEF SameLoads
<1>4. CallsOK'
  BY <1>3, CallsKept DEF ViewsOK
<1>5. LastLoads'
  BY <1>3 DEF ViewsOK, LastLoads, SameLoads
<1>6. OneLiveView'
  <2>. SUFFICES ASSUME ~overlap', NEW i \in 1..renders, insts'[i].timer, Does(i, "poll")'
                PROVE  i = cleanup \/ insts'[i].loading
    BY DEF OneLiveView
  <2>0. insts[i] \in View
    BY <1>0
  <2>1. Does(i, "poll") /\ insts[i].route \in Routes
    BY <2>0, <1>3 DEF Does, SameLoads, View
  <2>2. ~Does(i, "retry")
    BY <2>1, FeatureFacts DEF Does
  <2>3. insts[i].timer
    BY <2>2, <1>1
  <2>. QED
    BY <2>1, <2>3, <1>3 DEF ViewsOK, OneLiveView, SameLoads
<1>. QED
  BY <1>2, <1>3, <1>4, <1>5, <1>6 DEF ViewsOK, SameLoads

\* A load is answered; the first answer to a view that polls sets its interval
\* and makes its cleanup the current one.
LEMMA DrawnKeeps ==
    ASSUME ViewsOK, NEW c \in calls, c.op = "load",
           NEW rows \in {"none", "rows", "error"}, NEW again \in BOOLEAN,
           again => Does(c.n, "retry"), Drawn(c, rows, again),
           overlap' = overlap, logins \in Nat, logins' = logins,
           \A d \in calls' : d \in calls \ {c} \/ (CallOK(d)' /\ ~FirstLoad(d))
    PROVE  /\ ViewsOK' /\ \A i \in 1..renders : insts'[i].route = insts[i].route
           /\ renders' = renders
           /\ page' = page \/ Does(c.n, "whole")
           /\ c.n \in 1..renders
<1>0. /\ renders \in Nat /\ cleanup \in 0..renders /\ insts \in Seq(View) /\ Len(insts) = renders
      /\ CallOK(c)
  BY ViewsAssumption DEF ViewsOK, FrameOK, CallsOK
<1>1. c.n \in 1..renders /\ c.first \in BOOLEAN
  BY <1>0 DEF CallOK
<1>2. insts[c.n] \in View
  BY <1>0, <1>1
<1>r. /\ insts[c.n].route \in Routes
      /\ insts[c.n].timer \in BOOLEAN /\ insts[c.n].loading \in BOOLEAN
  BY <1>2 DEF View
<1>3. renders' = renders
  BY DEF Drawn
<1>. DEFINE sets == c.first /\ Does(c.n, "poll")
<1>. DEFINE w == [insts[c.n] EXCEPT !.rows = rows, !.timer = @ \/ again \/ sets,
                                     !.loading = @ /\ ~c.first]
<1>4. /\ w \in View /\ w.route = insts[c.n].route
      /\ w.timer => insts[c.n].timer \/ again \/ sets
      /\ w.loading => insts[c.n].loading /\ ~c.first
      /\ insts[c.n].loading /\ ~c.first => w.loading
  BY <1>1, <1>2, <1>r DEF View
<1>5. insts' = [insts EXCEPT ![c.n] = w]
  BY <1>0, <1>1, <1>2 DEF Drawn, View
<1>6. cleanup' = IF sets THEN c.n ELSE cleanup
  BY DEF Drawn
<1>7. page' = page \/ (page' = Page("view", c.n) /\ Does(c.n, "whole"))
  BY DEF Drawn
<1>. HIDE DEF w
<1>8. /\ insts' \in Seq(View) /\ Len(insts') = renders
      /\ \A i \in 1..renders : insts'[i] = IF i = c.n THEN w ELSE insts[i]
  BY <1>0, <1>1, <1>4, <1>5
<1>9. \A i \in 1..renders : /\ insts'[i].route = insts[i].route
                            /\ insts'[i].loading => insts[i].loading
  BY <1>4, <1>8
<1>10. FrameOK'
  BY <1>0, <1>1, <1>3, <1>6, <1>7, <1>8 DEF ViewsOK, FrameOK, Page
<1>11. CallsOK'
  <2>1. ASSUME NEW d \in calls \ {c} PROVE CallOK(d)'
    <3>1. CallOK(d)
      BY DEF ViewsOK, CallsOK
    <3>2. ASSUME d.op = "load", d.first, Does(d.n, "poll")' PROVE insts'[d.n].loading
      <4>1. d.n \in 1..renders /\ Does(d.n, "poll")
        BY <3>1, <3>2, <1>9 DEF CallOK, Does
      <4>2. insts[d.n].loading
        BY <3>1, <3>2, <4>1 DEF CallOK
      <4>3. CASE d.n = c.n
        <5>1. d.first = TRUE
          BY <3>1, <3>2 DEF CallOK
        <5>2. ~c.first
          BY <1>1, <3>2, <4>3, <5>1 DEF ViewsOK, CallsOK, FirstLoad
        <5>. QED
          BY <4>1, <4>2, <4>3, <5>2, <1>4, <1>8
      <4>4. CASE d.n # c.n
        BY <4>1, <4>2, <4>4, <1>8
      <4>. QED
        BY <4>3, <4>4
    <3>. QED
      BY <3>1, <3>2, <1>3 DEF CallOK
  <2>. QED
    BY <2>1 DEF ViewsOK, CallsOK, FirstLoad
<1>12. ASSUME sets, ~overlap PROVE c.n = renders /\ cleanup = 0
  <2>1. insts[c.n].loading
    BY <1>0, <1>12 DEF CallOK
  <2>. QED
    BY <2>1, <1>1, <1>12 DEF ViewsOK, LastLoads
<1>13. LastLoads'
  <2>. SUFFICES ASSUME ~overlap, NEW i \in 1..renders, insts'[i].loading
                PROVE  i = renders /\ cleanup' = 0
    BY <1>3 DEF LastLoads
  <2>1. i = renders /\ cleanup = 0
    BY <1>9 DEF ViewsOK, LastLoads
  <2>2. ~sets
    BY <2>1, <1>4, <1>8, <1>12
  <2>. QED
    BY <2>1, <2>2, <1>6
<1>14. OneLiveView'
  <2>. SUFFICES ASSUME ~overlap, NEW i \in 1..renders, insts'[i].timer, Does(i, "poll")'
                PROVE  i = cleanup' \/ insts'[i].loading
    BY <1>3 DEF OneLiveView
  <2>0. insts[i] \in View
    BY <1>0
  <2>1. Does(i, "poll") /\ insts[i].route \in Routes
    BY <2>0, <1>9 DEF Does, View
  <2>2. i = c.n => ~again
    BY <2>1, FeatureFacts DEF Does
  <2>3. CASE sets /\ i = c.n
    BY <2>3, <1>6
  <2>4. CASE ~(sets /\ i = c.n)
    <3>1. insts[i].timer
      BY <2>2, <2>4, <1>4, <1>8
    <3>2. i = cleanup \/ insts[i].loading
      BY <3>1, <2>1 DEF ViewsOK, OneLiveView
    <3>3. ~sets
      <4>. SUFFICES ASSUME sets PROVE FALSE
        OBVIOUS
      <4>1. c.n = renders /\ cleanup = 0
        BY <1>12
      <4>2. insts[i].loading
        BY <3>2, <4>1, <1>0
      <4>3. i = renders
        BY <4>2 DEF ViewsOK, LastLoads
      <4>. QED
        BY <4>1, <4>3, <2>4
    <3>4. i = c.n => ~c.first
      BY <2>1, <3>3
    <3>. QED
      BY <3>2, <3>3, <3>4, <1>4, <1>6, <1>8
  <2>. QED
    BY <2>3, <2>4
<1>. QED
  BY <1>1, <1>3, <1>7, <1>9, <1>10, <1>11, <1>13, <1>14 DEF ViewsOK

----------------------------------------------------------------------------
QuietOps == {"verify", "prefs", "status", "login", "logout", "alerts", "locale"}
Renewal(d) == /\ d \in [op : {"refresh"}, by : 0..logins, st : {"out", "ok", "401", "lost"}]
              /\ d.st = "ok" => d.by # 0

\* Requests that are not a view's say nothing about views.
LEMMA QuietCalls ==
    ASSUME NEW d, d.op \in QuietOps \/ Renewal(d)'
    PROVE  CallOK(d)' /\ ~FirstLoad(d)
  BY DEF QuietOps, Renewal, CallOK, FirstLoad

LoginPages == {Page("login", 0), Page("error", 0)}

\* A step that leaves the views alone.
LEMMA QuietKeeps ==
    ASSUME ViewsOK, SessionOK, UNCHANGED <<renders, insts, cleanup, overlap>>,
           page' = page \/ page' \in LoginPages,
           logins' \in Nat, logins <= logins',
           \A d \in calls' : d \in calls \/ d.op \in QuietOps \/ Renewal(d)'
    PROVE  ViewsOK'
<1>0. renders \in Nat /\ logins \in Nat
  BY ViewsAssumption, PortalAssumption DEF ViewsOK, FrameOK, SessionOK
<1>1. SameLoads
  BY DEF SameLoads
<1>2. \A d \in calls' : d \in calls \/ (CallOK(d)' /\ ~FirstLoad(d))
  BY QuietCalls
<1>3. CallsOK'
  BY <1>0, <1>1, <1>2, CallsKept DEF ViewsOK
<1>4. FrameOK'
  BY <1>0 DEF ViewsOK, FrameOK, LoginPages, Page
<1>. QED
  BY <1>3, <1>4 DEF ViewsOK, LastLoads, OneLiveView, Does

\* Nobody comes to stand before a view who did not already.
LEMMA LoginKept ==
    ASSUME LoggedOutSeesLogin, renders' = renders,
           \A i \in 1..renders : insts'[i].route = insts[i].route,
           boot' = "up" /\ user' = 0 => boot = "up" /\ user = 0,
           \/ page' = page
           \/ page'.kind # "view"
           \/ \E i \in 1..renders : Does(i, "whole"),
           \A d \in calls : d.op = "status" => d \in calls'
    PROVE  LoggedOutSeesLogin'
  BY DEF LoggedOutSeesLogin, Does

\* The route's view is drawn, or the login page asked for.
LEMMA RenderViewKeeps ==
    ASSUME ViewsOK, SessionOK, NEW u \in 0..logins, NEW out, RenderView(u, out),
           logins' = logins,
           \A d \in out : d \in calls \/ d.op \in QuietOps
    PROVE  /\ ViewsOK' /\ overlap' \in BOOLEAN /\ out \subseteq calls'
           /\ u = 0 => Asked'
<1>0. logins \in Nat /\ cookie \in 0..logins
  BY PortalAssumption DEF SessionOK
<1>1. CASE u = 0
  <2>1. calls' = AskStatus(out) /\ UNCHANGED <<renders, insts, page, cleanup, overlap>>
    BY <1>1 DEF RenderView
  <2>2. \A d \in calls' : d \in calls \/ d.op \in QuietOps
    BY <2>1, AskStatusAsks DEF QuietOps
  <2>3. ViewsOK'
    BY <1>0, <2>1, <2>2, QuietKeeps
  <2>. QED
    BY <2>1, <2>3, AskStatusAsks DEF SessionOK, Asked
<1>2. CASE u # 0
  <2>1. currentRoute \in Routes
    BY PortalAssumption DEF currentRoute
  <2>2. /\ Start(currentRoute, cookie, out)
        /\ overlap' = (overlap \/ \E n \in 1..renders : insts[n].loading)
    BY <1>2 DEF RenderView
  <2>3. \A d \in out : d \in calls \/ (CallOK(d)' /\ ~FirstLoad(d))
    BY QuietCalls
  <2>4. ViewsOK'
    BY <1>0, <2>1, <2>2, <2>3, StartKeeps DEF SessionOK
  <2>. QED
    BY <1>2, <2>2, <2>4 DEF Start
<1>. QED
  BY <1>1, <1>2

----------------------------------------------------------------------------
\* Start of the page.
LEMMA InitHolds == Init => IInv
<1>. SUFFICES ASSUME Init PROVE IInv
  OBVIOUS
<1>1. FrameOK
  BY ViewsAssumption DEF Init, NoViews, FrameOK, Page
<1>2. CallsOK /\ LastLoads /\ OneLiveView
  BY DEF Init, NoViews, CallsOK, LastLoads, OneLiveView
<1>3. SessionOK
  <2>1. /\ logins \in Nat /\ user \in 0..logins /\ cookie \in 0..logins
        /\ valid \in SUBSET (1..logins)
    BY PortalAssumption DEF Init
  <2>2. hash \in Routes \union {NoHash}
    BY PortalAssumption DEF Init
  <2>3. age \in {"none", "fresh", "due", "expired"} /\ excused \in BOOLEAN
    BY DEF Init
  <2>. QED
    BY <2>1, <2>2, <2>3 DEF Init, SessionOK
<1>. QED
  BY <1>1, <1>2, <1>3
  DEF IInv, ViewsOK, Init, NoViews, Renewing, ExpiresOnlyOffline, LoggedOutSeesLogin

LEMMA BootStatusKeeps == IInv /\ BootStatus => IInv'
<1>. SUFFICES ASSUME IInv, BootStatus PROVE IInv'
  OBVIOUS
<1>. USE DEF BootStatus, viewVars, sessionVars, timeVars
<1>1. SessionOK'
  BY DEF IInv, SessionOK
<1>2. ViewsOK'
  BY <1>1, QuietKeeps, PortalAssumption DEF IInv, SessionOK
<1>. QED
  BY <1>1, <1>2 DEF IInv, Renewing, ExpiresOnlyOffline, LoggedOutSeesLogin

LEMMA BootHandlersKeeps == IInv /\ BootHandlers => IInv'
<1>. SUFFICES ASSUME IInv, BootHandlers PROVE IInv'
  OBVIOUS
<1>. USE DEF BootHandlers, viewVars, sessionVars, timeVars
<1>1. SessionOK'
  BY DEF IInv, SessionOK, isTokenExpired
<1>2. /\ calls \subseteq calls'
      /\ \A d \in calls' : d \in calls \/ d.op \in QuietOps
      /\ boot' = "up" => Asked'
  <2>1. CASE user = 0 \/ isTokenExpired
    BY <2>1, AskStatusAsks DEF QuietOps, Asked
  <2>2. CASE ~(user = 0 \/ isTokenExpired)
    BY <2>2 DEF QuietOps
  <2>. QED
    BY <2>1, <2>2
<1>3. ViewsOK'
  BY <1>1, <1>2, QuietKeeps, PortalAssumption DEF IInv, SessionOK
<1>4. LoggedOutSeesLogin'
  BY <1>2 DEF LoggedOutSeesLogin, Asked
<1>5. Renewing' /\ ExpiresOnlyOffline'
  BY <1>2 DEF IInv, Renewing, ExpiresOnlyOffline
<1>. QED
  BY <1>1, <1>3, <1>4, <1>5 DEF IInv

\* What an ended request leaves of the user, the token and the faults.
LEMMA EndedLeaves ==
    ASSUME SessionOK, NEW o, Ended(o)
    PROVE  /\ user' \in 0..logins /\ age' \in {"none", "fresh", "due", "expired"}
           /\ o # "401" => user' = user
           /\ age' = "expired" => age = "expired"
  BY PortalAssumption DEF SessionOK, Ended

LEMMA BootVerifiedKeeps ==
    ASSUME IInv, NEW c \in calls, c.op = "verify", BootVerified(c)
    PROVE  IInv'
<1>1. PICK o \in Outcomes(c) :
        IF o = "ok"
        THEN /\ user' = c.by /\ boot' = "prefs" /\ UNCHANGED age
             /\ calls' = (calls \ {c}) \union {[op |-> "prefs", by |-> cookie, boot |-> TRUE]}
        ELSE /\ user' = 0 /\ age' = "none" /\ boot' = "up" /\ calls' = AskStatus(calls \ {c})
  BY DEF BootVerified
<1>2. UNCHANGED <<renders, insts, page, cleanup, cookie, valid, logins, refresher, polled,
                  excused, hash, hashEvent, overlap>>
  BY DEF BootVerified, timeVars
<1>3. o = "ok" => c.by \in 1..logins
  BY DEF IInv, SessionOK, Outcomes
<1>4. SessionOK'
  BY <1>1, <1>2, <1>3, PortalAssumption DEF IInv, SessionOK
<1>5. /\ calls \ {c} \subseteq calls'
      /\ \A d \in calls' : d \in calls \/ d.op \in QuietOps
      /\ boot' = "up" => Asked'
  BY <1>1, AskStatusAsks DEF QuietOps, Asked
<1>6. ViewsOK'
  BY <1>2, <1>4, <1>5, QuietKeeps, PortalAssumption DEF IInv, SessionOK
<1>7. LoggedOutSeesLogin'
  BY <1>5 DEF LoggedOutSeesLogin, Asked
<1>8. Renewing'
  BY <1>2, <1>5 DEF IInv, Renewing
<1>9. ExpiresOnlyOffline'
  BY <1>1, <1>2 DEF IInv, ExpiresOnlyOffline
<1>. QED
  BY <1>4, <1>6, <1>7, <1>8, <1>9 DEF IInv

LEMMA PrefsReadKeeps ==
    ASSUME IInv, NEW c \in calls, c.op = "prefs", PrefsRead(c)
    PROVE  IInv'
<1>. DEFINE Out(o) == IF age' \in {"fresh", "due"}
                      THEN Left(c, o) \union {[op |-> "alerts", by |-> cookie]}
                      ELSE Left(c, o)
<1>1. PICK o \in Outcomes(c) :
        /\ Ended(o)
        /\ boot' = IF c.boot THEN "up" ELSE boot
        /\ IF c.boot \/ hash # NoHash THEN UNCHANGED <<hash, hashEvent>>
           ELSE hash' = Fallback /\ hashEvent' = TRUE
        /\ RenderView(user', Out(o))
  BY DEF PrefsRead
<1>2. UNCHANGED <<cookie, valid, logins, refresher, polled, excused>>
  BY DEF PrefsRead, timeVars
<1>3. /\ user' \in 0..logins /\ age' \in {"none", "fresh", "due", "expired"}
      /\ age' = "expired" => age = "expired"
  BY <1>1, EndedLeaves DEF IInv
<1>4. /\ calls \ {c} \subseteq Out(o)
      /\ \A d \in Out(o) : d \in calls \/ d.op \in QuietOps
  BY LeftLeaves DEF QuietOps
<1>. HIDE DEF Out
<1>5. /\ ViewsOK' /\ overlap' \in BOOLEAN /\ Out(o) \subseteq calls'
      /\ user' = 0 => Asked'
  BY <1>1, <1>2, <1>3, <1>4, RenderViewKeeps DEF IInv
<1>6. SessionOK'
  <2>1. /\ boot' \in {"status", "worker", "verify", "prefs", "up"}
        /\ hash' \in Routes \union {NoHash} /\ hashEvent' \in BOOLEAN
    BY <1>1, PortalAssumption DEF IInv, SessionOK
  <2>. QED
    BY <2>1, <1>2, <1>3, <1>5 DEF IInv, SessionOK
<1>7. LoggedOutSeesLogin'
  BY <1>5 DEF LoggedOutSeesLogin, Asked
<1>8. Renewing'
  BY <1>2, <1>4, <1>5 DEF IInv, Renewing
<1>9. ExpiresOnlyOffline'
  BY <1>2, <1>3 DEF IInv, ExpiresOnlyOffline
<1>. QED
  BY <1>5, <1>6, <1>7, <1>8, <1>9 DEF IInv

----------------------------------------------------------------------------
\* The login page.
LEMMA LoginDrawnKeeps ==
    ASSUME IInv, NEW c \in calls, c.op = "status", LoginDrawn(c)
    PROVE  IInv'
<1>1. /\ page' \in LoginPages /\ calls' = calls \ {c}
      /\ UNCHANGED <<renders, insts, cleanup, boot, user, age, cookie, valid, logins, refresher,
                     polled, excused, hash, hashEvent, overlap>>
  BY DEF LoginDrawn, LoginPages, sessionVars, timeVars
<1>2. SessionOK'
  BY <1>1 DEF IInv, SessionOK
<1>3. ViewsOK'
  BY <1>1, <1>2, QuietKeeps, PortalAssumption DEF IInv, SessionOK
<1>4. LoggedOutSeesLogin'
  BY <1>1 DEF LoggedOutSeesLogin, LoginPages, Page
<1>. QED
  BY <1>1, <1>2, <1>3, <1>4 DEF IInv, Renewing, ExpiresOnlyOffline

\* A request more, and nothing else.
LEMMA AskedMoreKeeps ==
    ASSUME IInv, NEW d, d.op \in QuietOps, calls' = calls \union {d},
           UNCHANGED <<renders, insts, page, cleanup, boot, user, age, cookie, valid, logins,
                       refresher, polled, excused, hash, hashEvent, overlap>>
    PROVE  IInv'
<1>2. SessionOK'
  BY DEF IInv, SessionOK
<1>3. ViewsOK'
  BY <1>2, QuietKeeps, PortalAssumption DEF IInv, SessionOK
<1>4. LoggedOutSeesLogin'
  BY LoginKept DEF IInv
<1>. QED
  BY <1>2, <1>3, <1>4 DEF IInv, Renewing, ExpiresOnlyOffline

LEMMA AsksKeep == IInv /\ (Login \/ Logout \/ AlertPoll \/ SetLocale) => IInv'
<1>. SUFFICES ASSUME IInv, Login \/ Logout \/ AlertPoll \/ SetLocale
              PROVE  IInv'
  OBVIOUS
<1>. DEFINE Asks(d) == d.op \in QuietOps /\ calls' = calls \union {d}
<1>1. \E d : Asks(d)
  <2>1. CASE Login
    <3>1. Asks([op |-> "login"])
      BY <2>1 DEF Login, QuietOps
    <3>. QED
      BY <3>1
  <2>2. CASE Logout
    <3>1. Asks([op |-> "logout", by |-> cookie])
      BY <2>2 DEF Logout, QuietOps
    <3>. QED
      BY <3>1
  <2>3. CASE AlertPoll
    <3>1. Asks([op |-> "alerts", by |-> cookie])
      BY <2>3 DEF AlertPoll, QuietOps
    <3>. QED
      BY <3>1
  <2>4. CASE SetLocale
    <3>1. Asks([op |-> "locale", by |-> cookie])
      BY <2>4 DEF SetLocale, QuietOps
    <3>. QED
      BY <3>1
  <2>. QED
    BY <2>1, <2>2, <2>3, <2>4
<1>2. UNCHANGED <<renders, insts, page, cleanup, boot, user, age, cookie, valid, logins,
                  refresher, polled, excused, hash, hashEvent, overlap>>
  BY DEF Login, Logout, AlertPoll, SetLocale, sessionVars, timeVars
<1>. QED
  BY <1>1, <1>2, AskedMoreKeeps

LEMMA LoggedInKeeps ==
    ASSUME IInv, NEW c \in calls, c.op = "login", LoggedIn(c)
    PROVE  IInv'
<1>0. UNCHANGED <<renders, insts, page, cleanup, boot, refresher, hash, hashEvent, overlap>>
  BY DEF LoggedIn
<1>1. \/ /\ logins' = logins + 1 /\ valid' = valid \union {logins + 1} /\ cookie' = logins + 1
         /\ user' = logins + 1 /\ age' = "fresh" /\ polled' = FALSE /\ excused' = FALSE
         /\ calls' = (calls \ {c}) \union {[op |-> "prefs", by |-> logins + 1, boot |-> FALSE]}
      \/ /\ user' = 0 /\ age' = "none" /\ calls' = AskStatus(calls \ {c})
         /\ UNCHANGED <<logins, valid, cookie, polled, excused>>
      \/ /\ calls' = calls \ {c} /\ UNCHANGED <<user, age, cookie, valid, logins, polled, excused>>
  BY DEF LoggedIn, sessionVars
<1>2. /\ logins' \in Nat /\ logins <= logins'
      /\ user' \in 0..logins' /\ cookie' \in 0..logins' /\ valid' \in SUBSET (1..logins')
      /\ age' \in {"none", "fresh", "due", "expired"}
      /\ polled' \in BOOLEAN /\ excused' \in BOOLEAN
  <2>1. /\ logins \in Nat /\ user \in 0..logins /\ cookie \in 0..logins
        /\ valid \in SUBSET (1..logins)
        /\ age \in {"none", "fresh", "due", "expired"}
        /\ polled \in BOOLEAN /\ excused \in BOOLEAN
    BY DEF IInv, SessionOK
  <2>2. polled' \in BOOLEAN /\ excused' \in BOOLEAN
    BY <1>1, <2>1
  <2>3. age' \in {"none", "fresh", "due", "expired"}
    BY <1>1, <2>1
  <2>4. CASE logins' = logins + 1 /\ valid' = valid \union {logins + 1}
             /\ cookie' = logins + 1 /\ user' = logins + 1
    BY <2>1, <2>2, <2>3, <2>4
  <2>5. CASE UNCHANGED <<logins, valid, cookie>> /\ user' \in {0, user}
    BY <2>1, <2>2, <2>3, <2>5
  <2>. QED
    BY <1>1, <2>4, <2>5
<1>3. SessionOK'
  BY <1>0, <1>2 DEF IInv, SessionOK
<1>4. /\ calls \ {c} \subseteq calls'
      /\ \A d \in calls' : d \in calls \/ d.op \in QuietOps
  BY <1>1, AskStatusAsks DEF QuietOps
<1>5. ViewsOK'
  BY <1>0, <1>2, <1>4, QuietKeeps DEF IInv
<1>6. LoggedOutSeesLogin'
  <2>1. CASE user' # 0
    BY <2>1 DEF LoggedOutSeesLogin
  <2>2. CASE calls' = AskStatus(calls \ {c})
    BY <2>2, AskStatusAsks DEF LoggedOutSeesLogin
  <2>3. CASE calls' = calls \ {c} /\ user' = user
    BY <2>3, <1>0, <1>4, LoginKept DEF IInv
  <2>. QED
    BY <1>1, <2>1, <2>2, <2>3 DEF IInv, SessionOK
<1>7. Renewing' /\ ExpiresOnlyOffline'
  BY <1>1, <1>4 DEF IInv, Renewing, ExpiresOnlyOffline
<1>. QED
  BY <1>3, <1>5, <1>6, <1>7 DEF IInv

LEMMA LoggedOutKeeps ==
    ASSUME IInv, NEW c \in calls, c.op = "logout", LoggedOut(c)
    PROVE  IInv'
<1>1. /\ UNCHANGED <<renders, insts, page, cleanup, boot, logins, polled, excused, hash, hashEvent,
                     overlap>>
      /\ refresher' = FALSE /\ user' = 0 /\ age' = "none" /\ calls' = AskStatus(calls \ {c})
      /\ valid' \subseteq valid /\ cookie' \in {0, cookie}
  BY DEF LoggedOut
<1>2. SessionOK'
  <2>1. /\ logins \in Nat /\ cookie \in 0..logins /\ valid \in SUBSET (1..logins)
    BY DEF IInv, SessionOK
  <2>2. /\ user' \in 0..logins' /\ cookie' \in 0..logins' /\ valid' \in SUBSET (1..logins')
    BY <1>1, <2>1
  <2>. QED
    BY <1>1, <2>2 DEF IInv, SessionOK
<1>3. /\ calls \ {c} \subseteq calls' /\ Asked'
      /\ \A d \in calls' : d \in calls \/ d.op \in QuietOps
  BY <1>1, AskStatusAsks DEF QuietOps, Asked
<1>4. ViewsOK'
  BY <1>1, <1>3, QuietKeeps DEF IInv, SessionOK
<1>5. LoggedOutSeesLogin'
  BY <1>3 DEF LoggedOutSeesLogin, Asked
<1>6. Renewing' /\ ExpiresOnlyOffline'
  BY <1>1, <1>3 DEF IInv, Renewing, ExpiresOnlyOffline
<1>. QED
  BY <1>2, <1>4, <1>5, <1>6 DEF IInv

----------------------------------------------------------------------------
\* The renewal of the token.
LEMMA RefreshIsRenewal ==
    ASSUME SessionOK, UNCHANGED <<cookie, logins>>, Refresh
    PROVE  /\ calls \subseteq calls' /\ \E d \in calls' : d.op = "refresh"
           /\ \A d \in calls' : d \in calls \/ Renewal(d)'
<1>. DEFINE r == [op |-> "refresh", by |-> cookie, st |-> "out"]
<1>1. r.op = "refresh" /\ r.st = "out" /\ Renewal(r)
  BY DEF SessionOK, Renewal
<1>2. calls' = calls \union {r}
  BY DEF Refresh
<1>. HIDE DEF r
<1>3. ASSUME NEW d, Renewal(d) PROVE Renewal(d)'
  BY <1>3 DEF Renewal
<1>. QED
  BY <1>1, <1>2, <1>3

LEMMA RefreshTimerKeeps == IInv /\ RefreshTimer => IInv'
<1>. SUFFICES ASSUME IInv, RefreshTimer PROVE IInv'
  OBVIOUS
<1>1. /\ UNCHANGED <<renders, insts, page, cleanup, boot, user, age, cookie, valid, logins, polled,
                     excused, hash, hashEvent, overlap>>
      /\ refresher' = FALSE /\ (Refresh \/ calls' = calls)
  BY DEF RefreshTimer, sessionVars
<1>2. SessionOK'
  BY <1>1 DEF IInv, SessionOK
<1>3. calls \subseteq calls' /\ \A d \in calls' : d \in calls \/ Renewal(d)'
  BY <1>1, RefreshIsRenewal DEF IInv
<1>4. ViewsOK'
  BY <1>1, <1>3, QuietKeeps DEF IInv, SessionOK
<1>5. LoggedOutSeesLogin'
  BY <1>1, <1>3, LoginKept DEF IInv
<1>6. Renewing' /\ ExpiresOnlyOffline'
  BY <1>1, <1>3 DEF IInv, Renewing, ExpiresOnlyOffline
<1>. QED
  BY <1>2, <1>4, <1>5, <1>6 DEF IInv

LEMMA RefreshPollKeeps == IInv /\ RefreshPoll => IInv'
<1>. SUFFICES ASSUME IInv, RefreshPoll PROVE IInv'
  OBVIOUS
<1>1. /\ UNCHANGED <<renders, insts, page, cleanup, boot, user, age, cookie, valid, logins,
                     refresher, excused, hash, hashEvent, overlap>>
      /\ polled' = TRUE /\ Refresh
  BY DEF RefreshPoll, sessionVars
<1>2. SessionOK'
  BY <1>1 DEF IInv, SessionOK
<1>3. /\ calls \subseteq calls' /\ \A d \in calls' : d \in calls \/ Renewal(d)'
      /\ \E d \in calls' : d.op = "refresh"
  BY <1>1, RefreshIsRenewal DEF IInv
<1>4. ViewsOK'
  BY <1>1, <1>3, QuietKeeps DEF IInv, SessionOK
<1>5. LoggedOutSeesLogin'
  BY <1>1, <1>3, LoginKept DEF IInv
<1>6. Renewing' /\ ExpiresOnlyOffline'
  BY <1>1, <1>3 DEF IInv, Renewing, ExpiresOnlyOffline
<1>. QED
  BY <1>2, <1>4, <1>5, <1>6 DEF IInv

LEMMA RefreshServedKeeps ==
    ASSUME IInv, NEW c \in calls, c.op = "refresh", RefreshServed(c)
    PROVE  IInv'
<1>1. PICK o \in Outcomes(c) : calls' = (calls \ {c}) \union {[c EXCEPT !.st = o]}
  BY DEF RefreshServed
<1>2. UNCHANGED <<renders, insts, page, cleanup, boot, user, age, cookie, valid, logins, refresher,
                  polled, excused, hash, hashEvent, overlap>>
  BY DEF RefreshServed, sessionVars, timeVars
<1>3. /\ c \in [op : {"refresh"}, by : 0..logins, st : {"out", "ok", "401", "lost"}]
      /\ logins \in Nat /\ valid \in SUBSET (1..logins)
  BY DEF IInv, ViewsOK, CallsOK, CallOK, SessionOK
<1>4. o \in {"ok", "401", "lost"} /\ (o = "ok" => c.by # 0)
  BY <1>3 DEF Outcomes
<1>. DEFINE r == [c EXCEPT !.st = o]
<1>5. r \in [op : {"refresh"}, by : 0..logins, st : {"out", "ok", "401", "lost"}]
  BY <1>3, <1>4
<1>6. r.op = "refresh" /\ r.st = o /\ r.by = c.by
  BY <1>3
<1>7. calls' = (calls \ {c}) \union {r}
  BY <1>1
<1>. HIDE DEF r
<1>8. Renewal(r)'
  BY <1>2, <1>4, <1>5, <1>6 DEF Renewal
<1>9. SessionOK'
  BY <1>2 DEF IInv, SessionOK
<1>10. ViewsOK'
  BY <1>2, <1>3, <1>7, <1>8, QuietKeeps DEF IInv
<1>11. LoggedOutSeesLogin'
  BY <1>2, <1>7, LoginKept DEF IInv
<1>12. Renewing' /\ ExpiresOnlyOffline'
  BY <1>2, <1>6, <1>7 DEF IInv, Renewing, ExpiresOnlyOffline
<1>. QED
  BY <1>9, <1>10, <1>11, <1>12 DEF IInv

LEMMA RefreshDoneKeeps ==
    ASSUME IInv, NEW c \in calls, c.op = "refresh", RefreshDone(c)
    PROVE  IInv'
<1>1. /\ UNCHANGED <<renders, insts, page, cleanup, boot, valid, logins, hash, hashEvent, overlap>>
      /\ calls' = Left(c, c.st)
      /\ \/ /\ c.st = "ok" /\ user' = c.by /\ age' = "fresh" /\ cookie' = c.by
            /\ refresher' = TRUE /\ polled' = FALSE /\ excused' = FALSE
         \/ /\ c.st # "ok" /\ excused' = TRUE /\ UNCHANGED <<cookie, refresher, polled>>
            /\ user' = IF c.st = "401" THEN 0 ELSE user
            /\ age' = IF c.st = "401" THEN "none" ELSE age
  BY DEF RefreshDone
<1>2. c.by \in 0..logins /\ (c.st = "ok" => c.by # 0)
  BY DEF IInv, ViewsOK, CallsOK, CallOK
<1>3. SessionOK'
  <2>1. /\ logins \in Nat /\ user' \in 0..logins' /\ cookie' \in 0..logins'
        /\ age' \in {"none", "fresh", "due", "expired"}
    BY <1>1, <1>2 DEF IInv, SessionOK
  <2>2. refresher' \in BOOLEAN /\ polled' \in BOOLEAN /\ excused' \in BOOLEAN
    BY <1>1 DEF IInv, SessionOK
  <2>. QED
    BY <1>1, <2>1, <2>2 DEF IInv, SessionOK
<1>4. /\ calls \ {c} \subseteq calls'
      /\ \A d \in calls' : d \in calls \/ d.op \in QuietOps
      /\ c.st = "401" /\ Handlers => \E d \in calls' : d.op = "status"
  BY <1>1, LeftLeaves DEF QuietOps
<1>5. ViewsOK'
  BY <1>1, <1>4, QuietKeeps DEF IInv, SessionOK
<1>6. LoggedOutSeesLogin'
  <2>1. CASE c.st = "401" /\ Handlers
    BY <2>1, <1>4 DEF LoggedOutSeesLogin
  <2>2. CASE ~Handlers
    BY <2>2, <1>1 DEF LoggedOutSeesLogin, Handlers
  <2>3. CASE c.st # "401"
    BY <2>3, <1>1, <1>2, <1>4, LoginKept DEF IInv
  <2>. QED
    BY <2>1, <2>2, <2>3
<1>7. Renewing'
  BY <1>1 DEF Renewing
<1>8. ExpiresOnlyOffline'
  BY <1>1 DEF IInv, ExpiresOnlyOffline
<1>. QED
  BY <1>3, <1>5, <1>6, <1>7, <1>8 DEF IInv

LEMMA TimeKeeps == IInv /\ (TokenAges \/ Sleep \/ Revoke) => IInv'
<1>. SUFFICES ASSUME IInv, TokenAges \/ Sleep \/ Revoke PROVE IInv'
  OBVIOUS
<1>1. /\ UNCHANGED <<renders, insts, page, cleanup, calls, boot, user, cookie, logins, refresher,
                     polled, hash, hashEvent, overlap>>
      /\ valid' \subseteq valid
      /\ \/ UNCHANGED <<age, excused>>
         \/ age' = "due" /\ UNCHANGED excused
         \/ /\ age' = "expired" /\ UNCHANGED excused /\ polled
            /\ \A d \in calls : d.op # "refresh"
         \/ age' = "expired" /\ excused' = TRUE
  BY DEF TokenAges, Sleep, Revoke, viewVars, timeVars
<1>2. age' \in {"none", "fresh", "due", "expired"} /\ excused' \in BOOLEAN
  BY <1>1 DEF IInv, SessionOK
<1>3. SessionOK'
  BY <1>1, <1>2 DEF IInv, SessionOK
<1>4. ViewsOK'
  BY <1>1, QuietKeeps DEF IInv, SessionOK
<1>5. LoggedOutSeesLogin'
  BY <1>1, LoginKept DEF IInv
<1>6. Renewing'
  BY <1>1 DEF IInv, Renewing
<1>7. ExpiresOnlyOffline'
  BY <1>1 DEF IInv, Renewing, ExpiresOnlyOffline
<1>. QED
  BY <1>3, <1>4, <1>5, <1>6, <1>7 DEF IInv

\* Whoever's request ends, the login page is on its way to a user it logs out.
LEMMA EndKeepsLogin ==
    ASSUME IInv, NEW c \in calls, NEW o, Ended(o), boot' = boot, renders' = renders,
           \A i \in 1..renders : insts'[i].route = insts[i].route,
           page' = page \/ \E i \in 1..renders : Does(i, "whole"),
           o = "401" => calls' = Left(c, o),
           calls \ {c} \subseteq calls', c.op # "status"
    PROVE  LoggedOutSeesLogin'
<1>1. CASE o = "401" /\ Handlers
  BY <1>1, LeftLeaves DEF LoggedOutSeesLogin
<1>2. CASE ~Handlers
  BY <1>2 DEF LoggedOutSeesLogin, Handlers
<1>3. CASE o # "401"
  BY <1>3, LoginKept DEF IInv, Ended
<1>. QED
  BY <1>1, <1>2, <1>3

LEMMA EndKeepsSession ==
    ASSUME IInv, NEW c \in calls, NEW o, Ended(o), c.op # "refresh", calls \ {c} \subseteq calls',
           UNCHANGED <<boot, cookie, valid, logins, refresher, polled, excused, hash, hashEvent>>,
           overlap' \in BOOLEAN
    PROVE  SessionOK' /\ Renewing' /\ ExpiresOnlyOffline'
<1>1. SessionOK'
  BY EndedLeaves DEF IInv, SessionOK
<1>2. Renewing'
  BY DEF IInv, Renewing
<1>3. ExpiresOnlyOffline'
  BY EndedLeaves DEF IInv, ExpiresOnlyOffline
<1>. QED
  BY <1>1, <1>2, <1>3

LEMMA AlertsReadKeeps ==
    ASSUME IInv, NEW c \in calls, c.op = "alerts", AlertsRead(c)
    PROVE  IInv'
<1>1. PICK o \in Outcomes(c) : Ended(o) /\ calls' = Left(c, o)
  BY DEF AlertsRead
<1>2. UNCHANGED <<renders, insts, page, cleanup, boot, cookie, valid, logins, refresher, polled,
                  excused, hash, hashEvent, overlap>>
  BY DEF AlertsRead, timeVars
<1>3. /\ calls \ {c} \subseteq calls'
      /\ \A d \in calls' : d \in calls \/ d.op \in QuietOps
  BY <1>1, LeftLeaves DEF QuietOps
<1>4. SessionOK' /\ Renewing' /\ ExpiresOnlyOffline'
  BY <1>1, <1>2, <1>3, EndKeepsSession DEF IInv, SessionOK
<1>5. ViewsOK'
  BY <1>2, <1>3, QuietKeeps DEF IInv, SessionOK
<1>6. LoggedOutSeesLogin'
  BY <1>1, <1>2, <1>3, EndKeepsLogin
<1>. QED
  BY <1>4, <1>5, <1>6 DEF IInv

----------------------------------------------------------------------------
\* The views.
LEMMA NavigateKeeps == IInv /\ (\E r \in Routes : Navigate(r)) => IInv'
<1>. SUFFICES ASSUME IInv, NEW r \in Routes, Navigate(r) PROVE IInv'
  OBVIOUS
<1>1. /\ UNCHANGED <<renders, insts, page, cleanup, calls, boot, user, age, cookie, valid, logins,
                     refresher, polled, excused, overlap>>
      /\ hash' = r /\ hashEvent' = TRUE
  BY DEF Navigate, viewVars, sessionVars, timeVars
<1>2. SessionOK'
  BY <1>1 DEF IInv, SessionOK
<1>3. ViewsOK'
  BY <1>1, QuietKeeps DEF IInv, SessionOK
<1>. QED
  BY <1>1, <1>2, <1>3, LoginKept DEF IInv, Renewing, ExpiresOnlyOffline

LEMMA HashChangedKeeps == IInv /\ HashChanged => IInv'
<1>. SUFFICES ASSUME IInv, HashChanged PROVE IInv'
  OBVIOUS
<1>1. /\ UNCHANGED <<boot, user, age, cookie, valid, logins, refresher, polled, excused, hash>>
      /\ hashEvent' = FALSE
  BY DEF HashChanged, sessionVars, timeVars
<1>2. CASE Handlers
  <2>1. RenderView(user, calls)
    BY <1>2 DEF HashChanged
  <2>2. /\ ViewsOK' /\ overlap' \in BOOLEAN /\ calls \subseteq calls'
        /\ user = 0 => Asked'
    BY <1>1, <2>1, RenderViewKeeps DEF IInv, SessionOK
  <2>3. SessionOK'
    BY <1>1, <2>2 DEF IInv, SessionOK
  <2>4. LoggedOutSeesLogin'
    BY <1>1, <2>2 DEF LoggedOutSeesLogin, Asked
  <2>. QED
    BY <1>1, <2>2, <2>3, <2>4 DEF IInv, Renewing, ExpiresOnlyOffline
<1>3. CASE ~Handlers
  <2>1. UNCHANGED <<renders, insts, page, cleanup, calls, overlap>>
    BY <1>3 DEF HashChanged, viewVars
  <2>2. SessionOK'
    BY <1>1, <2>1 DEF IInv, SessionOK
  <2>3. ViewsOK'
    BY <1>1, <2>1, QuietKeeps DEF IInv, SessionOK
  <2>. QED
    BY <1>1, <2>1, <2>2, <2>3, LoginKept DEF IInv, Renewing, ExpiresOnlyOffline
<1>. QED
  BY <1>2, <1>3

LEMMA LocaleStoredKeeps ==
    ASSUME IInv, NEW c \in calls, c.op = "locale", LocaleStored(c)
    PROVE  IInv'
<1>1. PICK o \in Outcomes(c) :
        /\ Ended(o)
        /\ IF o = "ok" THEN RenderView(user, calls \ {c})
           ELSE calls' = Left(c, o) /\ UNCHANGED <<renders, insts, page, cleanup, overlap>>
  BY DEF LocaleStored
<1>2. UNCHANGED <<boot, cookie, valid, logins, refresher, polled, excused, hash, hashEvent>>
  BY DEF LocaleStored, timeVars
<1>3. CASE o = "ok"
  <2>1. /\ ViewsOK' /\ overlap' \in BOOLEAN /\ calls \ {c} \subseteq calls'
        /\ user = 0 => Asked'
    BY <1>1, <1>2, <1>3, RenderViewKeeps DEF IInv, SessionOK
  <2>2. user' = user
    BY <1>1, <1>3 DEF Ended
  <2>3. LoggedOutSeesLogin'
    BY <1>2, <2>1, <2>2 DEF LoggedOutSeesLogin, Asked
  <2>. QED
    BY <1>1, <1>2, <2>1, <2>3, EndKeepsSession DEF IInv
<1>4. CASE o # "ok"
  <2>1. calls' = Left(c, o) /\ UNCHANGED <<renders, insts, page, cleanup, overlap>>
    BY <1>1, <1>4
  <2>2. /\ calls \ {c} \subseteq calls'
        /\ \A d \in calls' : d \in calls \/ d.op \in QuietOps
    BY <2>1, LeftLeaves DEF QuietOps
  <2>3. SessionOK' /\ Renewing' /\ ExpiresOnlyOffline'
    BY <1>1, <1>2, <2>1, <2>2, EndKeepsSession DEF IInv, SessionOK
  <2>4. ViewsOK'
    BY <1>2, <2>1, <2>2, QuietKeeps DEF IInv, SessionOK
  <2>5. LoggedOutSeesLogin'
    BY <1>1, <1>2, <2>1, <2>2, EndKeepsLogin
  <2>. QED
    BY <2>3, <2>4, <2>5 DEF IInv
<1>. QED
  BY <1>3, <1>4

\* A view's own requests, other than its first load.
LEMMA ViewCalls ==
    ASSUME NEW n \in 1..renders, renders' = renders, NEW by \in 0..logins, logins' = logins,
           NEW d, d \in {Load(n, FALSE, by), [op |-> "side", n |-> n, by |-> by],
                         [op |-> "rollback", n |-> n, by |-> by]}
    PROVE  CallOK(d)' /\ ~FirstLoad(d)
<1>1. CASE d = Load(n, FALSE, by)
  <2>1. /\ d.op = "load" /\ d.first = FALSE
        /\ d \in [op : {"load"}, n : 1..renders', first : BOOLEAN, by : 0..logins']
    BY <1>1 DEF Load
  <2>. QED
    BY <2>1 DEF CallOK, FirstLoad
<1>2. CASE d \in {[op |-> "side", n |-> n, by |-> by], [op |-> "rollback", n |-> n, by |-> by]}
  <2>1. d.op \in {"side", "rollback"} /\ d.n = n
    BY <1>2
  <2>. QED
    BY <2>1 DEF CallOK, FirstLoad
<1>. QED
  BY <1>1, <1>2

LEMMA InViewKeeps == IInv /\ InView => IInv'
<1>. SUFFICES ASSUME IInv, InView PROVE IInv'
  OBVIOUS
<1>1. UNCHANGED <<boot, user, age, cookie, valid, logins, refresher, polled, excused, hash,
                  hashEvent, overlap>>
  BY DEF InView, sessionVars, timeVars
<1>2. PICK n \in 1..renders :
        TimerFires(n, cookie) \/ LoadAgain(n, cookie) \/ OpenSide(n, cookie) \/ CloseSide(n)
            \/ Rollback(n, cookie)
  BY DEF InView
<1>3. /\ insts \in Seq(View) /\ Len(insts) = renders /\ renders \in Nat
      /\ cookie \in 0..logins /\ logins \in Nat
  BY ViewsAssumption DEF IInv, ViewsOK, FrameOK, SessionOK
<1>4. insts[n] \in View
  BY <1>3
<1>5. /\ renders' = renders /\ cleanup' = cleanup
      /\ page' = page \/ (page' = Page("view", n) /\ Does(n, "whole"))
      /\ calls \subseteq calls'
      /\ \A d \in calls' : d \in calls \/ d \in {Load(n, FALSE, cookie),
                [op |-> "side", n |-> n, by |-> cookie], [op |-> "rollback", n |-> n, by |-> cookie]}
  BY <1>2 DEF TimerFires, LoadAgain, OpenSide, CloseSide, Rollback
<1>6. \A d \in calls' : d \in calls \/ (CallOK(d)' /\ ~FirstLoad(d))
  BY <1>1, <1>3, <1>5, ViewCalls
<1>. DEFINE Shows(w) == /\ w \in View /\ insts' = [insts EXCEPT ![n] = w]
                        /\ w.route = insts[n].route /\ w.loading = insts[n].loading
                        /\ w.timer => insts[n].timer
<1>7. \E w : Shows(w)
  <2>1. CASE TimerFires(n, cookie)
    <3>. DEFINE w == [insts[n] EXCEPT !.timer = Does(n, "poll"),
                                      !.rows = IF Does(n, "whole") THEN "none" ELSE @]
    <3>1. insts[n].timer /\ insts' = [insts EXCEPT ![n] = w]
      BY <2>1, <1>3, <1>4 DEF TimerFires, View
    <3>2. Does(n, "poll") \in BOOLEAN
      BY DEF Does
    <3>3. w \in View /\ w.route = insts[n].route /\ w.loading = insts[n].loading
      BY <1>4, <3>2 DEF View
    <3>. HIDE DEF w
    <3>. QED
      BY <3>1, <3>3
  <2>2. CASE LoadAgain(n, cookie)
    <3>. DEFINE w == [insts[n] EXCEPT !.timer = FALSE,
                                      !.rows = IF Does(n, "whole") THEN "none" ELSE @]
    <3>1. insts' = [insts EXCEPT ![n] = w]
      BY <2>2, <1>3, <1>4 DEF LoadAgain, View
    <3>2. w \in View /\ w.route = insts[n].route /\ w.loading = insts[n].loading /\ w.timer = FALSE
      BY <1>4 DEF View
    <3>. HIDE DEF w
    <3>. QED
      BY <3>1, <3>2
  <2>3. CASE CloseSide(n)
    <3>. DEFINE w == [insts[n] EXCEPT !.open = FALSE]
    <3>1. insts' = [insts EXCEPT ![n] = w]
      BY <2>3, <1>3, <1>4 DEF CloseSide, View
    <3>2. /\ w \in View /\ w.route = insts[n].route /\ w.loading = insts[n].loading
          /\ w.timer = insts[n].timer
      BY <1>4 DEF View
    <3>. HIDE DEF w
    <3>. QED
      BY <3>1, <3>2
  <2>4. CASE OpenSide(n, cookie) \/ Rollback(n, cookie)
    <3>1. insts' = insts
      BY <2>4 DEF OpenSide, Rollback
    <3>2. insts' = [insts EXCEPT ![n] = insts[n]]
      BY <3>1, <1>3
    <3>. QED
      BY <3>2, <1>4
  <2>. QED
    BY <1>2, <2>1, <2>2, <2>3, <2>4
<1>8. PICK w : Shows(w)
  BY <1>7
<1>9. ViewsOK' /\ \A i \in 1..renders : insts'[i].route = insts[i].route
  BY <1>1, <1>3, <1>5, <1>6, <1>8, ShownKeeps DEF IInv
<1>10. SessionOK'
  BY <1>1 DEF IInv, SessionOK
<1>11. LoggedOutSeesLogin'
  BY <1>1, <1>5, <1>9, LoginKept DEF IInv
<1>. QED
  BY <1>1, <1>5, <1>9, <1>10, <1>11 DEF IInv, Renewing, ExpiresOnlyOffline

LEMMA LoadAnsweredKeeps ==
    ASSUME IInv, NEW c \in calls, c.op = "load", ViewAnswered(c)
    PROVE  IInv'
<1>. DEFINE Rows(o, again) == IF o # "ok" THEN "error" ELSE IF again THEN "none" ELSE "rows"
<1>1. PICK o \in Outcomes(c) :
        /\ Ended(o) /\ calls' = Left(c, o)
        /\ \E again \in {FALSE} \union {o = "ok" /\ Does(c.n, "retry")} : Drawn(c, Rows(o, again), again)
        /\ UNCHANGED <<boot, cookie, valid, logins, refresher, polled, excused, hash, hashEvent,
                       overlap>>
  BY DEF ViewAnswered, timeVars
<1>2. PICK again \in {FALSE} \union {o = "ok" /\ Does(c.n, "retry")} : Drawn(c, Rows(o, again), again)
  BY <1>1
<1>3. again \in BOOLEAN /\ (again => Does(c.n, "retry"))
  BY <1>2
<1>4. /\ calls \ {c} \subseteq calls'
      /\ \A d \in calls' : d \in calls \ {c} \/ d.op \in QuietOps
  BY <1>1, LeftLeaves DEF QuietOps
<1>5. \A d \in calls' : d \in calls \ {c} \/ (CallOK(d)' /\ ~FirstLoad(d))
  BY <1>4, QuietCalls
<1>6. logins \in Nat /\ overlap \in BOOLEAN
  BY DEF IInv, SessionOK
<1>7. Rows(o, again) \in {"none", "rows", "error"}
  OBVIOUS
<1>. HIDE DEF Rows
<1>8. /\ ViewsOK' /\ \A i \in 1..renders : insts'[i].route = insts[i].route
      /\ renders' = renders /\ c.n \in 1..renders
      /\ page' = page \/ Does(c.n, "whole")
  BY <1>1, <1>2, <1>3, <1>5, <1>6, <1>7, DrawnKeeps DEF IInv
<1>9. SessionOK' /\ Renewing' /\ ExpiresOnlyOffline'
  BY <1>1, <1>4, <1>6, EndKeepsSession
<1>10. LoggedOutSeesLogin'
  BY <1>1, <1>4, <1>8, EndKeepsLogin
<1>. QED
  BY <1>8, <1>9, <1>10 DEF IInv

LEMMA SideAnsweredKeeps ==
    ASSUME IInv, NEW c \in calls, c.op \in {"side", "rollback"}, ViewAnswered(c)
    PROVE  IInv'
<1>1. PICK o \in Outcomes(c) :
        /\ Ended(o)
        /\ \/ calls' = Left(c, o)
           \/ o # "401" /\ calls' = (calls \ {c}) \union {Load(c.n, FALSE, cookie)}
        /\ SideDrawn(c) \/ RolledBack(c) \/ UNCHANGED <<renders, insts, page, cleanup>>
        /\ UNCHANGED <<boot, cookie, valid, logins, refresher, polled, excused, hash, hashEvent,
                       overlap>>
  BY DEF ViewAnswered, timeVars
<1>2. UNCHANGED <<renders, page, cleanup>>
  BY <1>1 DEF SideDrawn, RolledBack
<1>3. /\ insts \in Seq(View) /\ Len(insts) = renders /\ renders \in Nat /\ c.n \in 1..renders
      /\ cookie \in 0..logins /\ logins \in Nat /\ overlap \in BOOLEAN
  BY ViewsAssumption DEF IInv, ViewsOK, FrameOK, CallsOK, CallOK, SessionOK
<1>4. insts[c.n] \in View
  BY <1>3
<1>5. calls \ {c} \subseteq calls'
  <2>1. calls \ {c} \subseteq Left(c, o)
    BY LeftLeaves
  <2>. QED
    BY <1>1, <2>1
<1>6. \A d \in calls' : d \in calls \/ (CallOK(d)' /\ ~FirstLoad(d))
  <2>1. CASE calls' = Left(c, o)
    BY <2>1, LeftLeaves, QuietCalls DEF QuietOps
  <2>2. CASE calls' = (calls \ {c}) \union {Load(c.n, FALSE, cookie)}
    BY <2>2, <1>1, <1>2, <1>3, ViewCalls
  <2>. QED
    BY <1>1, <2>1, <2>2
<1>. DEFINE Shows(w) == /\ w \in View /\ insts' = [insts EXCEPT ![c.n] = w]
                        /\ w.route = insts[c.n].route /\ w.loading = insts[c.n].loading
                        /\ w.timer = insts[c.n].timer
<1>7. \E w : Shows(w)
  <2>. DEFINE v(b) == [insts[c.n] EXCEPT !.open = b]
  <2>1. ASSUME NEW b \in BOOLEAN, insts' = [insts EXCEPT ![c.n].open = b] PROVE \E w : Shows(w)
    <3>1. insts' = [insts EXCEPT ![c.n] = v(b)]
      BY <2>1, <1>3, <1>4 DEF View
    <3>2. /\ v(b) \in View /\ v(b).route = insts[c.n].route
          /\ v(b).loading = insts[c.n].loading /\ v(b).timer = insts[c.n].timer
      BY <1>4 DEF View
    <3>. HIDE DEF v
    <3>. QED
      BY <3>1, <3>2
  <2>2. CASE insts' = insts
    <3>1. insts' = [insts EXCEPT ![c.n] = insts[c.n]]
      BY <2>2, <1>3
    <3>. QED
      BY <3>1, <1>4
  <2>. QED
    BY <1>1, <2>1, <2>2 DEF SideDrawn, RolledBack
<1>8. PICK w : Shows(w)
  BY <1>7
<1>9. ViewsOK' /\ \A i \in 1..renders : insts'[i].route = insts[i].route
  BY <1>1, <1>2, <1>3, <1>6, <1>8, ShownKeeps DEF IInv
<1>10. SessionOK' /\ Renewing' /\ ExpiresOnlyOffline'
  BY <1>1, <1>3, <1>5, EndKeepsSession
<1>11. LoggedOutSeesLogin'
  BY <1>1, <1>2, <1>5, <1>9, EndKeepsLogin
<1>. QED
  BY <1>9, <1>10, <1>11 DEF IInv

----------------------------------------------------------------------------
\* Every answer keeps the invariant, and every step.
LEMMA AnswerKeeps == ASSUME IInv, NEW c \in calls, Answer(c) PROVE IInv'
  BY BootVerifiedKeeps, PrefsReadKeeps, LoginDrawnKeeps, LoggedInKeeps, LoggedOutKeeps,
     RefreshServedKeeps, RefreshDoneKeeps, AlertsReadKeeps, LocaleStoredKeeps,
     LoadAnsweredKeeps, SideAnsweredKeeps
  DEF Answer

LEMMA NextKeeps == IInv /\ [Next]_vars => IInv'
<1>. SUFFICES ASSUME IInv, [Next]_vars PROVE IInv'
  OBVIOUS
<1>1. CASE Next
  BY <1>1, BootStatusKeeps, BootHandlersKeeps, AsksKeep, RefreshTimerKeeps, RefreshPollKeeps,
     TimeKeeps, NavigateKeeps, HashChangedKeeps, InViewKeeps, AnswerKeeps
  DEF Next
<1>2. CASE UNCHANGED vars
  <2>1. UNCHANGED <<renders, insts, page, cleanup, calls, boot, user, age, cookie, valid, logins,
                    refresher, polled, excused, hash, hashEvent, overlap>>
    BY <1>2 DEF vars, viewVars, sessionVars, timeVars
  <2>2. SessionOK'
    BY <2>1 DEF IInv, SessionOK
  <2>3. ViewsOK'
    BY <2>1, QuietKeeps DEF IInv, SessionOK
  <2>. QED
    BY <2>1, <2>2, <2>3, LoginKept DEF IInv, Renewing, ExpiresOnlyOffline
<1>. QED
  BY <1>1, <1>2

LEMMA Invariance == Spec => []IInv
  BY InitHolds, NextKeeps, PTL DEF Spec

\* At most one interval of a view runs, whatever is navigated to and answered
\* when (renderView and runCleanup in app.js), unless renderings overlap.
THEOREM OneViewIsLive == Spec => []OneLiveView
<1>1. IInv => OneLiveView
  BY DEF IInv, ViewsOK
<1>. QED
  BY <1>1, Invariance, PTL

\* A token ends only in a page that slept, or whose renewal failed
\* (scheduleTokenRefresh and the poll of app.js).
THEOREM TokensEndOnlyOffline == Spec => []ExpiresOnlyOffline
<1>1. IInv => ExpiresOnlyOffline
  BY DEF IInv
<1>. QED
  BY <1>1, Invariance, PTL

\* A user who is logged out, by whichever request, has the login page or will
\* (the handler of refused requests in api.js and app.js).
THEOREM LoggedOutSeeNoView == Spec => []LoggedOutSeesLogin
<1>1. IInv => LoggedOutSeesLogin
  BY DEF IInv
<1>. QED
  BY <1>1, Invariance, PTL
=============================================================================
