------------------------------- MODULE MCWorker -------------------------------
(***************************************************************************)
(* Two calls of run: one for a source, one for an agent on that source.    *)
(***************************************************************************)
EXTENDS Worker, TLC

CONSTANTS global, source, agent, poll, negotiate

MCScope == (poll :> {source}) @@ (negotiate :> {source, agent})
===============================================================================
