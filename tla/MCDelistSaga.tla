----------------------------- MODULE MCDelistSaga -----------------------------
(***************************************************************************)
(* A small instance of the delist saga: three channels, one of which has   *)
(* no publisher, and three deliveries of sale events.                      *)
(***************************************************************************)
EXTENDS DelistSaga

===============================================================================
