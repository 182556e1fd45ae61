------------------------------- MODULE OnceCell -------------------------------
(***************************************************************************)
(* What an idempotency store promises its callers, with none of the        *)
(* promise bookkeeping: the side effect named by a key happens at most     *)
(* once, and whoever asks for that key is told the outcome of that one     *)
(* effect.                                                                  *)
(***************************************************************************)
CONSTANTS Caller,     \* the calls made to the store
          Key,        \* natural keys of external mutations
          Outcome,    \* how the effect of a key can end
          NoOutcome   \* not there yet, different from every outcome

VARIABLES effect,     \* effect[k]: how the one effect of k ended
          told        \* told[c]: what caller c was answered

cellVars == <<effect, told>>

CellInit == /\ effect = [k \in Key |-> NoOutcome]
            /\ told = [c \in Caller |-> NoOutcome]

\* The side effect named by k takes place, once and for all.
Perform(k, o) == /\ effect[k] = NoOutcome
                 /\ effect' = [effect EXCEPT ![k] = o]
                 /\ UNCHANGED told

\* A caller that asked for k learns how the effect of k ended.
Tell(c, k) == /\ told[c] = NoOutcome
              /\ effect[k] # NoOutcome
              /\ told' = [told EXCEPT ![c] = effect[k]]
              /\ UNCHANGED effect

CellNext == \/ \E k \in Key, o \in Outcome : Perform(k, o)
            \/ \E c \in Caller, k \in Key : Tell(c, k)

CellSpec == CellInit /\ [][CellNext]_cellVars
===============================================================================
