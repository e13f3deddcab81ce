--------------------------- MODULE RequestService ---------------------------
(***************************************************************************)
(* What the front end of the CLI promises whoever sends it requests: they  *)
(* are answered one at a time and in the order they were asked, until the  *)
(* service ends, well or badly.  If it ends well, nothing is left open.    *)
(***************************************************************************)
EXTENDS Naturals

VARIABLES asked, answered, status

vars == <<asked, answered, status>>

Init ==
    /\ asked \in Nat
    /\ answered = 0
    /\ status = "serving"

Ask ==
    /\ asked' = asked + 1
    /\ UNCHANGED <<answered, status>>

Answer ==
    /\ status = "serving"
    /\ answered < asked
    /\ answered' = answered + 1
    /\ UNCHANGED <<asked, status>>

EndWell ==
    /\ status = "serving"
    /\ answered = asked
    /\ status' = "ok"
    /\ UNCHANGED <<asked, answered>>

EndBadly ==
    /\ status = "serving"
    /\ status' = "err"
    /\ UNCHANGED <<asked, answered>>

Next == Ask \/ Answer \/ EndWell \/ EndBadly

Spec == Init /\ [][Next]_vars
=============================================================================
