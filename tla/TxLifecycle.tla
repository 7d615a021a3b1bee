------------------------------ MODULE TxLifecycle ------------------------------
(***************************************************************************)
(* What the wallet promises about each transaction it has recorded: it is  *)
(* recorded as submitted, may be seen pending, settles once, and is never  *)
(* forgotten nor judged again, whatever crashes and restarts there are.    *)
(* TxStore and AmmSetup implement it.                                      *)
(***************************************************************************)
CONSTANT Hashes

VARIABLE status   \* what a restart finds recorded of each transaction

Settled == {"success", "reverted", "dropped"}
Statuses == {"none", "submitted", "pending"} \cup Settled

Init == status = [h \in Hashes |-> "none"]

\* `from` are the statuses a transaction may leave, `to` the one it takes.
Move(h, from, to) == status[h] \in from /\ status' = [status EXCEPT ![h] = to]

Submit(h) == Move(h, {"none"}, "submitted")

Pend(h) == Move(h, {"submitted"}, "pending")

Settle(h) == \E r \in Settled : Move(h, {"submitted", "pending"}, r)

Next == \E h \in Hashes : Submit(h) \/ Pend(h) \/ Settle(h)

Spec == Init /\ [][Next]_status
===============================================================================
