---------------------------- MODULE LinkExchange ----------------------------
(***************************************************************************)
(* What common/link_session.c promises a caller on the master, with the    *)
(* wires and timeouts left out: an exchange is opened, the slave carries   *)
(* its request out at most once, and the caller is told that it succeeded  *)
(* only if the slave did.  A failed exchange promises nothing: the request *)
(* may have been carried out, may yet be, or may be lost.                  *)
(***************************************************************************)
EXTENDS Naturals

VARIABLES
  open,    \* is an exchange in progress?
  served,  \* how often the slave has carried out the latest request
  result   \* what the latest exchange returned

vars == <<open, served, result>>

Init == open = FALSE /\ served = 0 /\ result = "none"

Ask ==
  /\ ~open
  /\ open' = TRUE /\ served' = 0 /\ result' = "none"

CarryOut ==
  /\ served = 0
  /\ served' = 1
  /\ UNCHANGED <<open, result>>

Succeed ==
  /\ open /\ served = 1
  /\ open' = FALSE /\ result' = "ok"
  /\ UNCHANGED served

Fail ==
  /\ open
  /\ open' = FALSE /\ result' = "failed"
  /\ UNCHANGED served

Next == Ask \/ CarryOut \/ Succeed \/ Fail

Spec == Init /\ [][Next]_vars
=============================================================================
