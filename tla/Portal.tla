------------------------------ MODULE Portal ------------------------------
\* The shell of the browser client (app.js, auth.js, login.js, api.js): start,
\* login and logout, the renewal of the session's token, the rendering of the
\* views, and what a refused request does.  A login makes one session; its
\* renewed tokens are the session's, and end with it.
EXTENDS Views

CONSTANTS MaxLogins, \* bound: sessions
          Admins,    \* the sessions whose user is an admin
          MaxActs    \* bound: what the user does and what goes wrong

VARIABLES boot,      \* how far the start of the page has come
          user,      \* the user stored in the browser, by session; 0: none
          age,       \* how the stored time of expiry stands
          cookie,    \* the session of the cookie, 0: none
          valid,     \* the sessions the backend accepts
          logins,    \* sessions made so far
          hash,      \* the route in the address bar, "" for none
          hashEvent, \* a hashchange event is pending
          refresher, \* the timer of the token's renewal is set
          polled,    \* the one-minute poll has run since the renewal was due
          excused,   \* the page slept, or a renewal failed, since the last one
          overlap,   \* two renderings have been under way at once
          acts       \* what the user has done and what has gone wrong

sessionVars == <<user, age, cookie, valid, logins>>
timeVars == <<refresher, polled, excused>>
vars == <<viewVars, boot, sessionVars, timeVars, hash, hashEvent, overlap, acts>>

Fallback == "browse"
NoHash == ""

ASSUME PortalAssumption == Fallback \in Routes

AdminRoutes == {"logs", "metrics", "lifecycle"}

\* A stored time of expiry that has passed, or none.
isTokenExpired == age \in {"none", "expired"}

\* The route of the address bar, if there is one and the user may take it.
currentRoute ==
    IF hash \in Routes /\ (hash \in AdminRoutes => user \in Admins) THEN hash ELSE Fallback

\* Handlers: the handler of refused requests and the one of hash changes are
\* there once the service worker is registered.
Handlers == boot \notin {"status", "worker"}

\* The login page asks for the state of the setup before it draws the form.
AskStatus(out) ==
    LET n == Cardinality({c \in out : c.op = "status"})
    IN  IF n = 2 THEN out ELSE out \union {[op |-> "status", n |-> 1 + n]}

\* Drawing the route's view for user u; without one, the login page.
RenderView(u, out) ==
    IF u = 0 THEN /\ calls' = AskStatus(out)
                  /\ UNCHANGED <<renders, insts, page, cleanup, overlap>>
    ELSE /\ Start(currentRoute, cookie, out)
         /\ overlap' = (overlap \/ \E n \in 1..renders : insts[n].loading)

Fault == acts < MaxActs /\ acts' = acts + 1
Click == Fault /\ Room

\* How a request ends: answered, refused when its session is over, or without
\* an answer.
Outcomes(c) == (IF c.by \in valid THEN {"ok"} ELSE {"401"})
                   \union (IF acts < MaxActs THEN {"lost"} ELSE {})

\* Variant: a refusal is left to the caller.
EndedQuietly(o) == /\ acts' = IF o = "lost" THEN acts + 1 ELSE acts
                   /\ UNCHANGED <<user, age>>

\* What request() does before its caller learns of the end: a refusal clears
\* the stored user and shows the login page, whoever's request it was.
Ended(o) ==
    /\ acts' = IF o = "lost" THEN acts + 1 ELSE acts
    /\ user' = IF o = "401" THEN 0 ELSE user
    /\ age' = IF o = "401" THEN "none" ELSE age

Left(c, o) == IF o = "401" /\ Handlers THEN AskStatus(calls \ {c}) ELSE calls \ {c}


----------------------------------------------------------------------------
\* The page as a browser loads it, or loads again: the stored user, the cookie
\* and the address are those of the last visit, whose session may have ended.
Init == /\ NoViews /\ boot = "status" /\ hashEvent = FALSE
        /\ refresher = FALSE /\ polled = FALSE /\ overlap = FALSE /\ acts = 0
        /\ hash \in {NoHash, Fallback} /\ logins \in {0, 1}
        /\ user \in 0..logins /\ cookie = logins /\ valid \in SUBSET (1..logins)
        /\ age \in (IF user = 0 THEN {"none"} ELSE {"fresh", "due", "expired"})
        /\ age = "expired" => valid = {}
        /\ excused = (age = "expired")

\* boot(): the language, then the polls, then the service worker.
BootStatus ==
    /\ boot = "status" /\ boot' = "worker"
    /\ UNCHANGED <<viewVars, sessionVars, timeVars, hash, hashEvent, overlap, acts>>

\* ... the handlers and the timer of the renewal; then the login page, or the
\* stored user's session is checked with the backend.
BootHandlers ==
    /\ boot = "worker"
    /\ refresher' = ~isTokenExpired
    /\ IF user = 0 \/ isTokenExpired
       THEN /\ user' = 0 /\ age' = "none" /\ boot' = "up" /\ calls' = AskStatus(calls)
       ELSE /\ boot' = "verify" /\ calls' = calls \union {[op |-> "verify", by |-> cookie]}
            /\ UNCHANGED <<user, age>>
    /\ UNCHANGED <<renders, insts, page, cleanup, cookie, valid, logins, polled, excused,
                   hash, hashEvent, overlap, acts>>

BootVerified(c) ==
    LET out == calls \ {c} IN
    /\ \E o \in Outcomes(c) :
        /\ acts' = IF o = "lost" THEN acts + 1 ELSE acts
        /\ IF o = "ok"
           THEN /\ user' = c.by /\ boot' = "prefs" /\ UNCHANGED age
                /\ calls' = out \union {[op |-> "prefs", by |-> cookie, boot |-> TRUE]}
           ELSE /\ user' = 0 /\ age' = "none" /\ boot' = "up" /\ calls' = AskStatus(out)
    /\ UNCHANGED <<renders, insts, page, cleanup, cookie, valid, logins, timeVars,
                   hash, hashEvent, overlap>>

\* The language of the user, after the start or a login: with it or without it
\* the view is drawn, and the alerts are asked for.
PrefsRead(c) ==
    \E o \in Outcomes(c) :
        /\ Ended(o)
        /\ boot' = IF c.boot THEN "up" ELSE boot
        /\ IF c.boot \/ hash # NoHash THEN UNCHANGED <<hash, hashEvent>>
           ELSE hash' = Fallback /\ hashEvent' = TRUE
        /\ RenderView(user', IF age' \in {"fresh", "due"}
                             THEN Left(c, o) \union {[op |-> "alerts", by |-> cookie]}
                             ELSE Left(c, o))
        /\ UNCHANGED <<cookie, valid, logins, timeVars>>

----------------------------------------------------------------------------
\* The login page.
LoginDrawn(c) ==
    /\ \/ page' = Page("login", 0) /\ UNCHANGED acts
       \/ page' = Page("error", 0) /\ Fault
    /\ calls' = calls \ {c}
    /\ UNCHANGED <<renders, insts, cleanup, boot, sessionVars, timeVars, hash, hashEvent,
                   overlap>>

Login ==
    /\ page = Page("login", 0) /\ logins < MaxLogins /\ Click
    /\ \A c \in calls : c.op # "login"
    /\ calls' = calls \union {[op |-> "login"]}
    /\ UNCHANGED <<renders, insts, page, cleanup, boot, sessionVars, timeVars, hash, hashEvent,
                   overlap>>

\* Accepted: a session of its own, and the user's language is asked for.  The
\* timer of the renewal is left to the poll.  A wrong password is a refusal
\* like any other.
LoggedIn(c) ==
    LET s == logins + 1
        out == calls \ {c}
    IN  /\ \/ /\ logins' = s /\ valid' = valid \union {s} /\ cookie' = s
              /\ user' = s /\ age' = "fresh" /\ polled' = FALSE /\ excused' = FALSE
              /\ calls' = out \union {[op |-> "prefs", by |-> s, boot |-> FALSE]}
              /\ UNCHANGED acts
           \/ /\ user' = 0 /\ age' = "none" /\ calls' = AskStatus(out)
              /\ UNCHANGED <<logins, valid, cookie, polled, excused, acts>>
           \/ /\ Fault /\ calls' = out
              /\ UNCHANGED <<sessionVars, polled, excused>>
        /\ UNCHANGED <<renders, insts, page, cleanup, boot, refresher, hash, hashEvent,
                       overlap>>

\* Logging out is asked of the backend, which ends the session; whatever it
\* answers, the user is cleared.
Logout ==
    /\ user # 0 /\ boot = "up" /\ Click
    /\ calls' = calls \union {[op |-> "logout", by |-> cookie]}
    /\ UNCHANGED <<renders, insts, page, cleanup, boot, sessionVars, timeVars, hash, hashEvent,
                   overlap>>

\* Variant: the login page is left to the next navigation.
LoggedOutStays(c) ==
    /\ valid' = valid \ {c.by} /\ cookie' = 0
    /\ refresher' = FALSE /\ user' = 0 /\ age' = "none" /\ calls' = calls \ {c}
    /\ UNCHANGED <<renders, insts, page, cleanup, boot, logins, polled, excused, hash, hashEvent,
                   overlap, acts>>

LoggedOut(c) ==
    /\ \E done \in BOOLEAN :
        /\ valid' = IF done THEN valid \ {c.by} ELSE valid
        /\ cookie' = IF done THEN 0 ELSE cookie
        /\ IF done THEN UNCHANGED acts ELSE Fault
    /\ refresher' = FALSE /\ user' = 0 /\ age' = "none" /\ calls' = AskStatus(calls \ {c})
    /\ UNCHANGED <<renders, insts, page, cleanup, boot, logins, polled, excused, hash, hashEvent,
                   overlap>>

----------------------------------------------------------------------------
\* The renewal of the token: by a timer, 15 minutes before it ends, and by a
\* poll every minute (bound: not while a renewal is out, which has 30 s).
Refresh == calls' = calls \union {[op |-> "refresh", by |-> cookie, st |-> "out"]}

RefreshTimer ==
    /\ refresher /\ age \in {"due", "expired"} /\ refresher' = FALSE /\ Room
    /\ IF isTokenExpired THEN UNCHANGED calls ELSE Refresh
    /\ UNCHANGED <<renders, insts, page, cleanup, boot, sessionVars, polled, excused, hash,
                   hashEvent, overlap, acts>>

\* Variant: the renewal is left to the timer alone.
RefreshPollIdle ==
    /\ Handlers /\ age = "due" /\ ~polled /\ polled' = TRUE
    /\ UNCHANGED <<viewVars, boot, sessionVars, refresher, excused, hash, hashEvent, overlap, acts>>

RefreshPoll ==
    /\ Handlers /\ age = "due" /\ Room /\ \A c \in calls : c.op # "refresh"
    /\ polled' = TRUE /\ Refresh
    /\ UNCHANGED <<renders, insts, page, cleanup, boot, sessionVars, refresher, excused, hash,
                   hashEvent, overlap, acts>>

RefreshServed(c) ==
    /\ c.st = "out"
    /\ \E o \in Outcomes(c) :
        /\ calls' = (calls \ {c}) \union {[c EXCEPT !.st = o]}
        /\ acts' = IF o = "lost" THEN acts + 1 ELSE acts
    /\ UNCHANGED <<renders, insts, page, cleanup, boot, sessionVars, timeVars, hash, hashEvent,
                   overlap>>

\* The answer stores what it says, whoever has come or gone meanwhile.
RefreshDone(c) ==
    /\ c.st # "out"
    /\ IF c.st = "ok"
       THEN /\ user' = c.by /\ age' = "fresh" /\ cookie' = c.by
            /\ refresher' = TRUE /\ polled' = FALSE /\ excused' = FALSE
       ELSE /\ user' = IF c.st = "401" THEN 0 ELSE user
            /\ age' = IF c.st = "401" THEN "none" ELSE age
            /\ excused' = TRUE
            /\ UNCHANGED <<cookie, refresher, polled>>
    /\ calls' = Left(c, c.st)
    /\ UNCHANGED <<renders, insts, page, cleanup, boot, valid, logins, hash, hashEvent, overlap,
                   acts>>

\* Time passes: the last 15 minutes begin; they end after the poll has run
\* and its request, which has 30 s, has ended.
TokenAges ==
    /\ \/ /\ age = "fresh" /\ age' = "due" /\ UNCHANGED valid
       \/ /\ age = "due" /\ polled /\ \A c \in calls : c.op # "refresh"
          /\ age' = "expired" /\ valid' = valid \ {cookie}
    /\ UNCHANGED <<viewVars, boot, user, cookie, logins, timeVars, hash, hashEvent, overlap,
                   acts>>

\* The page sleeps, with its timers, past the end of the token.
Sleep ==
    /\ age \in {"fresh", "due"} /\ Click
    /\ age' = "expired" /\ valid' = valid \ {cookie} /\ excused' = TRUE
    /\ UNCHANGED <<viewVars, boot, user, cookie, logins, refresher, polled, hash, hashEvent,
                   overlap>>

\* The backend ends the user's sessions: a logout elsewhere, a new password.
Revoke ==
    /\ cookie \in valid /\ Click
    /\ valid' = valid \ {cookie}
    /\ UNCHANGED <<viewVars, boot, user, age, cookie, logins, timeVars, hash, hashEvent, overlap>>

\* The badge of the alerts, every minute while the token is not expired.
AlertPoll ==
    /\ boot # "status" /\ ~isTokenExpired /\ Room
    /\ \A c \in calls : c.op # "alerts"
    /\ calls' = calls \union {[op |-> "alerts", by |-> cookie]}
    /\ UNCHANGED <<renders, insts, page, cleanup, boot, sessionVars, timeVars, hash, hashEvent,
                   overlap, acts>>

AlertsRead(c) ==
    /\ \E o \in Outcomes(c) : Ended(o) /\ calls' = Left(c, o)
    /\ UNCHANGED <<renders, insts, page, cleanup, boot, cookie, valid, logins, timeVars, hash,
                   hashEvent, overlap>>

----------------------------------------------------------------------------
\* A link is followed; the event of the changed address renders the view.
Navigate(r) ==
    /\ hash # r /\ Click /\ hash' = r /\ hashEvent' = TRUE
    /\ UNCHANGED <<viewVars, boot, sessionVars, timeVars, overlap>>

HashChanged ==
    /\ hashEvent /\ hashEvent' = FALSE
    /\ IF Handlers THEN RenderView(user, calls) ELSE UNCHANGED <<viewVars, overlap>>
    /\ UNCHANGED <<boot, sessionVars, timeVars, hash, acts>>

\* Another language is stored, then the view is drawn again.
SetLocale ==
    /\ boot = "up" /\ user # 0 /\ page.kind = "view" /\ Click
    /\ calls' = calls \union {[op |-> "locale", by |-> cookie]}
    /\ UNCHANGED <<renders, insts, page, cleanup, boot, sessionVars, timeVars, hash, hashEvent,
                   overlap>>

LocaleStored(c) ==
    /\ \E o \in Outcomes(c) :
        /\ Ended(o)
        /\ IF o = "ok" THEN RenderView(user, calls \ {c})
           ELSE calls' = Left(c, o) /\ UNCHANGED <<renders, insts, page, cleanup, overlap>>
    /\ UNCHANGED <<boot, cookie, valid, logins, timeVars, hash, hashEvent>>

\* What the user does in the view, and its timers.
InView ==
    /\ \E n \in 1..renders :
        \/ TimerFires(n, cookie) /\ UNCHANGED acts
        \/ Click /\ \/ LoadAgain(n, cookie)
                    \/ OpenSide(n, cookie)
                    \/ CloseSide(n)
                    \/ user \in Admins /\ Rollback(n, cookie)
    /\ UNCHANGED <<boot, sessionVars, timeVars, hash, hashEvent, overlap>>

\* Answers to a view.
ViewAnswered(c) ==
    \E o \in Outcomes(c) :
        /\ Ended(o)
        /\ \/ /\ c.op = "load" /\ calls' = Left(c, o)
              /\ \E again \in {FALSE} \union {o = "ok" /\ Does(c.n, "retry")} :
                    Drawn(c, IF o # "ok" THEN "error" ELSE IF again THEN "none" ELSE "rows", again)
           \/ /\ c.op = "side" /\ calls' = Left(c, o)
              /\ IF o = "ok" THEN SideDrawn(c) ELSE UNCHANGED <<renders, insts, page, cleanup>>
           \/ /\ c.op = "rollback"
              /\ IF o = "ok"
                 THEN /\ RolledBack(c)
                      /\ calls' = (calls \ {c}) \union
                                      {Load(c.n, FALSE, cookie)}
                 ELSE calls' = Left(c, o) /\ UNCHANGED <<renders, insts, page, cleanup>>
        /\ UNCHANGED <<boot, cookie, valid, logins, timeVars, hash, hashEvent, overlap>>

Answer(c) ==
    \/ c.op = "verify" /\ BootVerified(c)
    \/ c.op = "prefs" /\ PrefsRead(c)
    \/ c.op = "status" /\ LoginDrawn(c)
    \/ c.op = "login" /\ LoggedIn(c)
    \/ c.op = "logout" /\ LoggedOut(c)
    \/ c.op = "refresh" /\ (RefreshServed(c) \/ RefreshDone(c))
    \/ c.op = "alerts" /\ AlertsRead(c)
    \/ c.op = "locale" /\ LocaleStored(c)
    \/ c.op \in {"load", "side", "rollback"} /\ ViewAnswered(c)

Next ==
    \/ BootStatus \/ BootHandlers \/ Login \/ Logout
    \/ RefreshTimer \/ RefreshPoll \/ TokenAges \/ Sleep \/ Revoke \/ AlertPoll
    \/ (\E r \in Routes : Navigate(r)) \/ HashChanged \/ SetLocale \/ InView
    \/ \E c \in calls : Answer(c)

Spec == Init /\ [][Next]_vars

\* The intervals of the browser run on, and every request ends within its 30 s.
Fairness == /\ WF_vars(AlertPoll)
            /\ WF_vars(\E c \in calls : Answer(c))
FairSpec == Spec /\ Fairness

----------------------------------------------------------------------------
\* What the variables hold (the state of app.js, auth.js and api.js).
TypeOK ==
    /\ renders \in 0..MaxRenders /\ insts \in Seq(View) /\ Len(insts) = renders
    /\ page.kind \in {"blank", "view", "login", "error"} /\ page.n \in 0..renders
    /\ cleanup \in 0..renders
    /\ \A c \in calls : c.op \in {"load", "side", "rollback"} => c.n \in 1..renders
    /\ boot \in {"status", "worker", "verify", "prefs", "up"}
    /\ user \in 0..logins /\ cookie \in 0..logins /\ valid \in SUBSET (1..logins)
    /\ logins \in 0..MaxLogins
    /\ age \in {"none", "fresh", "due", "expired"}
    /\ hash \in Routes \union {NoHash} /\ hashEvent \in BOOLEAN
    /\ refresher \in BOOLEAN /\ polled \in BOOLEAN /\ excused \in BOOLEAN /\ overlap \in BOOLEAN

\* As long as no view is rendered while another is still loading, at most one
\* interval of a view runs: every one belongs to the view whose cleanup is the
\* current one, or to the view that is loading (renderView and runCleanup).
OneLiveView ==
    ~overlap => \A n \in 1..renders :
                    insts[n].timer /\ Does(n, "poll") => n = cleanup \/ insts[n].loading

\* A token ends in an awake page only after a renewal has failed: the poll
\* stands in wherever the timer is not set, as it is not after a login.
ExpiresOnlyOffline == age = "expired" => excused

\* Nobody who is logged out looks at a view: the login page is there or on
\* its way.  The lifecycle view is excepted, which draws over the page.
LoggedOutSeesLogin ==
    boot = "up" /\ user = 0 /\ (\A n \in 1..renders : ~Does(n, "whole"))
        => page.kind # "view" \/ \E c \in calls : c.op = "status"

\* A user whose session the backend has ended, and whose token is not at its
\* end, is logged out in the browser too: the poll of the alerts finds out.
Stranded == boot = "up" /\ user # 0 /\ cookie \notin valid /\ ~isTokenExpired
RejectedReachesLogin == Stranded ~> ~Stranded
=============================================================================
