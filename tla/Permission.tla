---------------------------- MODULE Permission ----------------------------
(***************************************************************************)
(* What a permission exchange promises, whichever network it starts from.  *)
(* The originator's side asks for a transfer, the beneficiary's side       *)
(* decides it once, and the originator's side is told of an acceptance at  *)
(* most once and only after it was decided.  Outbound (TRISA asks, Sygna   *)
(* decides) implements it; Inbound (Sygna asks, TRISA decides) does so     *)
(* only while one request is outstanding at a time.                        *)
(***************************************************************************)
CONSTANT Transfers        \* the transfers, one per permission request

VARIABLE status           \* how far each transfer has come

Decisions == {"accepted", "rejected"}

TypeOK == status \in [Transfers -> {"none", "requested", "confirmed"} \cup Decisions]

Init == status = [t \in Transfers |-> "none"]

Move(t, from, to) == /\ status[t] = from
                     /\ status' = [status EXCEPT ![t] = to]

Request(t) == Move(t, "none", "requested")

Decide(t) == \E d \in Decisions : Move(t, "requested", d)

Confirm(t) == Move(t, "accepted", "confirmed")

Next == \E t \in Transfers : Request(t) \/ Decide(t) \/ Confirm(t)

\* Every step advances one transfer by one stage.
Safety == Init /\ [][Next]_status
===========================================================================
