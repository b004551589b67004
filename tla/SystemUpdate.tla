---------------------------- MODULE SystemUpdate ----------------------------
(***************************************************************************)
(* The update cards of the settings page (settings/section-update.js): a     *)
(* package is chosen, checked by the server and applied, with or without a   *)
(* restart; or the server is asked to compare itself with GitHub and to pull,*)
(* and the page asks for its health until it answers again.                  *)
(*                                                                          *)
(* Whether a package is good is the server's answer and always the same.     *)
(***************************************************************************)
EXTENDS AdminCalls

CONSTANTS
    Packages,   \* package files the user may choose
    Good,       \* those the server finds fit to apply
    MaxPolls    \* external: health calls that fit in 45 seconds

VARIABLES
    chosen,     \* the file in the input: {} or {it}
    validated,  \* validatedFile: {} or {it}
    preview,    \* the package whose check is drawn, hidden or not: {} or {it}
    on,         \* buttons that are not disabled
    pullShown,  \* the pull button is in the page
    applied,    \* packages the server was sent to apply
    server,     \* "up", "leaving" (a restart was accepted) or "down"
    poll        \* health calls the page has left to make, {} or {n}

updateVars == <<chosen, validated, preview, on, pullShown, applied, server, poll>>

AtFirst == {"check", "restart", "pull"}
UpdateInit ==
    /\ chosen = {} /\ validated = {} /\ preview = {}
    /\ on = AtFirst /\ pullShown = FALSE
    /\ applied = {} /\ server = "up" /\ poll = {}

Call(k, f) == [n |-> Slot, kind |-> k, file |-> f]
Turn(off, back) == on' = (on \ off) \cup back

----------------------------------------------------------------------------
(* A package.                                                                *)
Validation(f) == out' = out \cup {Call("validate", {f})}

Choose(f) ==
    /\ User /\ Room
    /\ chosen' = {f}
    /\ validated' = {}
    /\ Turn({"validate", "apply", "applyRestart"}, {"validate"})
    /\ Validation(f)
    /\ UNCHANGED <<pullShown, preview, applied, server, poll>>

Unchoose ==
    /\ User
    /\ chosen # {}
    /\ chosen' = {} /\ validated' = {}
    /\ Turn({"validate", "apply", "applyRestart"}, {})
    /\ UNCHANGED <<pullShown, preview, applied, server, poll, out>>

Validate ==
    /\ User /\ Room
    /\ "validate" \in on
    /\ Turn({"validate", "apply"}, {})
    /\ \E f \in chosen : Validation(f)
    /\ UNCHANGED <<pullShown, chosen, validated, preview, applied, server, poll>>

(* A mutation: the package counts as validated whatever the server says.     *)
ValidatedAny(c) ==
    /\ c.kind = "validate"
    /\ preview' = c.file
    /\ validated' = c.file
    /\ Turn({"apply", "applyRestart"},
            {"validate"} \cup (IF c.file \subseteq Good THEN {"apply", "applyRestart"} ELSE {}))
    /\ out' = out \ {c}
    /\ UNCHANGED <<pullShown, chosen, applied, server, poll, acts>>

(* The answer is drawn whatever is chosen by now.                            *)
Validated(c) ==
    /\ c.kind = "validate"
    /\ preview' = c.file
    /\ validated' = IF c.file \subseteq Good THEN c.file ELSE validated
    /\ Turn({"apply", "applyRestart"},
            {"validate"} \cup (IF c.file \subseteq Good THEN {"apply", "applyRestart"} ELSE {}))
    /\ out' = out \ {c}
    /\ UNCHANGED <<pullShown, chosen, applied, server, poll, acts>>

ValidationFailed(c) ==
    /\ c.kind = "validate"
    /\ Turn({}, {"validate"})
    /\ out' = out \ {c}
    /\ UNCHANGED <<pullShown, chosen, validated, preview, applied, server, poll, acts>>

Apply(button) ==
    /\ User /\ Room
    /\ button \in {"apply", "applyRestart"} \cap on
    /\ validated # {}
    /\ Turn({"apply", button}, {})
    /\ out' = out \cup {Call(button, validated)}
    /\ applied' = applied \cup validated
    /\ UNCHANGED <<pullShown, chosen, validated, preview, server, poll>>

(* With the second button a restart is asked for once the package is applied.*)
ApplyAnswer(c) ==
    /\ c.kind \in {"apply", "applyRestart"}
    /\ out' = (out \ {c}) \cup (IF c.kind = "apply" THEN {} ELSE {[c EXCEPT !.kind = "restart", !.file = {}]})
    /\ UNCHANGED <<updateVars, acts>>

ApplyFailed(c) ==
    /\ c.kind \in {"apply", "applyRestart"}
    /\ Turn({}, {"apply", c.kind})
    /\ out' = out \ {c}
    /\ UNCHANGED <<pullShown, chosen, validated, preview, applied, server, poll, acts>>

Restart ==
    /\ User /\ Room
    /\ "restart" \in on
    /\ Turn({"restart"}, {})
    /\ out' = out \cup {Call("restart", {})}
    /\ UNCHANGED <<pullShown, chosen, validated, preview, applied, server, poll>>

(* Accepted or not, the page is loaded again eight seconds later.            *)
RestartAnswer(c) ==
    /\ c.kind = "restart"
    /\ server' \in {server, "leaving"}
    /\ out' = (out \ {c}) \cup {[c EXCEPT !.kind = "reload"]}
    /\ UNCHANGED <<chosen, validated, preview, on, pullShown, applied, poll, acts>>

Reload(c) ==
    /\ c.kind = "reload"
    /\ out' = {} /\ chosen' = {} /\ validated' = {} /\ preview' = {}
    /\ on' = AtFirst /\ pullShown' = FALSE
    /\ poll' = {}
    /\ UNCHANGED <<applied, server, acts>>

----------------------------------------------------------------------------
(* GitHub.                                                                   *)
Package == <<chosen, validated, preview, applied>>

Check ==
    /\ User /\ Room
    /\ "check" \in on
    /\ Turn({"check"}, {}) /\ pullShown' = FALSE
    /\ out' = out \cup {Call("check", {})}
    /\ UNCHANGED <<Package, server, poll>>

(* An update is there, or not; a failed comparison shows none.               *)
CheckAnswer(c) ==
    /\ c.kind = "check"
    /\ pullShown' \in BOOLEAN
    /\ Turn({}, {"check"})
    /\ out' = out \ {c}
    /\ UNCHANGED <<Package, server, poll, acts>>

(* The branch switch, once stored, clears what the last check showed.        *)
BranchStored ==
    /\ User
    /\ pullShown' = FALSE
    /\ UNCHANGED <<Package, on, server, poll, out>>

Pull ==
    /\ User /\ Room
    /\ pullShown /\ "pull" \in on
    /\ Turn({"check", "pull"}, {})
    /\ out' = out \cup {Call("pull", {})}
    /\ UNCHANGED <<Package, pullShown, server, poll>>

(* The pull is done, and the server will restart or not (the page polls only *)
(* if it will); or it failed, and the button stays.                          *)
PullAnswer(c) ==
    /\ c.kind = "pull"
    /\ \/ server' = "leaving" /\ poll' = {MaxPolls} /\ pullShown' = FALSE
       \/ pullShown' = FALSE /\ UNCHANGED <<server, poll>>
       \/ UNCHANGED <<pullShown, server, poll>>
    /\ Turn({}, {"check", "pull"})
    /\ out' = out \ {c}
    /\ UNCHANGED <<Package, acts>>

(* external: the server leaves and comes back.                               *)
Server(from, to) ==
    /\ server = from /\ server' = to
    /\ UNCHANGED <<Package, on, pullShown, poll, out, acts>>

(* A health call is answered by a server that has not left yet as well.      *)
Poll ==
    /\ \E n \in poll :
         poll' = IF server # "down" \/ n = 0 THEN {} ELSE {n - 1}
    /\ UNCHANGED <<Package, on, pullShown, server, out, acts>>

UpdateNext ==
    \/ \E f \in Packages : Choose(f)
    \/ Unchoose \/ Validate \/ Restart \/ Check \/ BranchStored \/ Pull
    \/ \E b \in {"apply", "applyRestart"} : Apply(b)
    \/ \E c \in out :
         \/ Validated(c) \/ ValidationFailed(c) \/ ApplyAnswer(c) \/ ApplyFailed(c)
         \/ RestartAnswer(c) \/ CheckAnswer(c) \/ PullAnswer(c)
         \/ Reload(c)
    \/ Server("leaving", "down") \/ Server("down", "up") \/ Poll

----------------------------------------------------------------------------
UpdateTypeOK ==
    /\ chosen \subseteq Packages /\ validated \subseteq Packages /\ preview \subseteq Packages
    /\ on \subseteq AtFirst \cup {"validate", "apply", "applyRestart"}
    /\ server \in {"up", "leaving", "down"}
    /\ \A n \in poll : n \in 0 .. MaxPolls

(* A package the server refused is never sent to be applied, though a failed *)
(* apply enables its button again whatever has been chosen and checked since *)
(* (section-update.js:86-88 and 127-146).                                    *)
AppliesFit == applied \subseteq Good

(* The server is never asked to pull while it compares itself with GitHub or *)
(* pulls already: the page cannot start the one before the other's answer    *)
(* (section-update.js:380-446).                                              *)
PullAlone ==
    \A c, d \in out : {c.kind, d.kind} \subseteq {"check", "pull"} => c = d
=============================================================================
