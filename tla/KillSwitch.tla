------------------------------ MODULE KillSwitch ------------------------------
(***************************************************************************)
(* The kill switches, packages/policy/src/killswitch.ts.                   *)
(*                                                                         *)
(* A switch is an element of Switch: the global one, or one that names a   *)
(* source, an agent or a platform.  The ActionScope of a registration is   *)
(* the set of the switches that name one of its dimensions.  Every method  *)
(* of the class is synchronous, so each is one step of its caller: the     *)
(* operators below are the effects of those calls.                         *)
(***************************************************************************)
CONSTANTS Switch,   \* the KillScopes that may be tripped
          Global,   \* the switch of kind "global"
          Run,      \* the registrations that are made
          Scope     \* Scope[r]: the switches that name r's scope

ASSUME SwitchAssumption == /\ Global \in Switch
                           /\ Scope \in [Run -> SUBSET Switch]

VARIABLES tripped,     \* #global, #sources, #agents and #platforms
          registered,  \* the keys of #registered
          aborted      \* the registrations whose signal has fired

switchVars == <<tripped, registered, aborted>>

SwitchInit == /\ tripped = {}
              /\ registered = {}
              /\ aborted = {}

\* isHalted(scope), when the switches in T are tripped.
HaltedBy(T, r) == Global \in T \/ Scope[r] \cap T # {}
Halted(r) == HaltedBy(tripped, r)

\* trip(scope) and the #propagate() that ends it.
Trip(s) == /\ tripped' = tripped \cup {s}
           /\ aborted' = aborted \cup {r \in registered : HaltedBy(tripped \cup {s}, r)}
           /\ UNCHANGED registered

\* reset(scope): a signal that has fired stays so.
Reset(s) == /\ tripped' = tripped \ {s}
            /\ UNCHANGED <<registered, aborted>>

\* register(scope): the signal may have fired before the caller gets it.
Register(r) == /\ registered' = registered \cup {r}
               /\ aborted' = IF Halted(r) THEN aborted \cup {r} ELSE aborted
               /\ UNCHANGED tripped

\* deregister(signal)
Deregister(r) == /\ registered' = registered \ {r}
                 /\ UNCHANGED <<tripped, aborted>>

SwitchTypeOK == /\ tripped \in SUBSET Switch
                /\ registered \in SUBSET Run
                /\ aborted \in SUBSET Run
===============================================================================
