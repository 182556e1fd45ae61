------------------------------- MODULE MCOutbox -------------------------------
(* A small instance of the idempotency store for TLC. *)
EXTENDS Outbox

===============================================================================
