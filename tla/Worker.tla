-------------------------------- MODULE Worker --------------------------------
(***************************************************************************)
(* The cooperative worker loop, packages/policy/src/worker.ts, and the     *)
(* operators who trip and reset the kill switches under it.                *)
(*                                                                         *)
(* An element of Run is one call of Worker.run.  `for await` waits for the *)
(* source (pulling), the body waits for handle (handling), and leaving the *)
(* loop from inside the body waits for the source's return() (closing)     *)
(* before `finally` deregisters the signal.  A switch may be tripped or    *)
(* reset during each of those waits.  A source may yield without end; how  *)
(* many of its items were processed decides nothing and is left out.       *)
(***************************************************************************)
EXTENDS KillSwitch

VARIABLES at,         \* where each call of run is
          result,     \* how it will settle: WorkerResult.halted, or an error
          pulsed      \* history: its scope was halted at some time of the run

loopVars == <<at, result>>
vars == <<switchVars, loopVars, pulsed>>

Running == {"pulling", "handling", "closing"}

Init == /\ SwitchInit
        /\ at = [r \in Run |-> "idle"]
        /\ result = [r \in Run |-> "none"]
        /\ pulsed = {}

\* Records, for the step being taken, whose scope is halted during its run.
Pulse == pulsed' = pulsed \cup {r \in Run : at'[r] \in Running /\ HaltedBy(tripped', r)}

(***************************************************************************)
(* Somebody trips or resets a switch: an operator, another worker, or the  *)
(* handler of an item itself.                                              *)
(***************************************************************************)
TripSwitch(s) == Trip(s) /\ UNCHANGED loopVars /\ Pulse
ResetSwitch(s) == Reset(s) /\ UNCHANGED loopVars /\ Pulse

(***************************************************************************)
(* run(source, handle)                                                     *)
(***************************************************************************)
\* Already halted: it registers, returns and deregisters in one stretch.
RunHalted(r) == /\ at[r] = "idle"
                /\ Halted(r)
                /\ at' = [at EXCEPT ![r] = "returned"]
                /\ result' = [result EXCEPT ![r] = "halted"]
                /\ aborted' = aborted \cup {r}
                /\ pulsed' = pulsed \cup {r}
                /\ UNCHANGED <<tripped, registered>>

RunStarts(r) == /\ at[r] = "idle"
                /\ ~Halted(r)
                /\ Register(r)
                /\ at' = [at EXCEPT ![r] = "pulling"]
                /\ UNCHANGED result
                /\ Pulse

\* Faulty: the switch is asked and not the signal.
AbortSeenOnSwitch(r) == Halted(r)

\* signal.aborted, before and after an item.
AbortSeen(r) == r \in aborted

\* The loop body is left by `return` or by an error of handle.
Leave(r, how) == /\ at' = [at EXCEPT ![r] = "closing"]
                 /\ result' = [result EXCEPT ![r] = how]
                 /\ UNCHANGED switchVars

\* The loop is over: `finally` runs in the same stretch.
Finish(r, where, how) == /\ at' = [at EXCEPT ![r] = where]
                         /\ result' = [result EXCEPT ![r] = how]
                         /\ Deregister(r)

\* Faulty: the signal is checked after an item only.
ItemArrivesUnchecked(r) == /\ at[r] = "pulling"
                           /\ at' = [at EXCEPT ![r] = "handling"]
                           /\ UNCHANGED <<switchVars, result>>
                           /\ Pulse

ItemArrives(r) == /\ at[r] = "pulling"
                  /\ \/ AbortSeen(r) /\ Leave(r, "halted")
                     \/ /\ ~AbortSeen(r)
                        /\ at' = [at EXCEPT ![r] = "handling"]
                        /\ UNCHANGED <<switchVars, result>>
                  /\ Pulse

SourceEnds(r) == /\ at[r] = "pulling"
                 /\ Finish(r, "returned", IF AbortSeen(r) THEN "halted" ELSE "finished")
                 /\ Pulse

SourceThrows(r) == /\ at[r] = "pulling"
                   /\ Finish(r, "threw", "error")
                   /\ Pulse

HandleDone(r) == /\ at[r] = "handling"
                 /\ \/ AbortSeen(r) /\ Leave(r, "halted")
                    \/ /\ ~AbortSeen(r)
                       /\ at' = [at EXCEPT ![r] = "pulling"]
                       /\ UNCHANGED <<switchVars, result>>
                 /\ Pulse

HandleThrows(r) == /\ at[r] = "handling"
                   /\ Leave(r, "error")
                   /\ Pulse

\* source.return() settles; its own error replaces a result.
Closed(r) == /\ at[r] = "closing"
             /\ \/ result[r] = "halted" /\ Finish(r, "returned", "halted")
                \/ Finish(r, "threw", "error")
             /\ Pulse

SourceStep(r) == ItemArrives(r) \/ SourceEnds(r) \/ SourceThrows(r)
BodyStep(r) == HandleDone(r) \/ HandleThrows(r) \/ Closed(r)

Next == \/ \E s \in Switch : TripSwitch(s) \/ ResetSwitch(s)
        \/ \E r \in Run : RunHalted(r) \/ RunStarts(r) \/ SourceStep(r) \/ BodyStep(r)

Spec == Init /\ [][Next]_vars

(***************************************************************************)
(* Handlers and return() settle, which any awaited promise must.  That a   *)
(* source answers is an assumption of its own: the sources of the desk     *)
(* poll and yield, but a run on one that goes idle sees no abort.  Nothing *)
(* obliges a source to end.                                                *)
(***************************************************************************)
BodyFairness == \A r \in Run : WF_vars(BodyStep(r))
SourceFairness == \A r \in Run : WF_vars(SourceStep(r))

FairSpec == Spec /\ BodyFairness /\ SourceFairness

-------------------------------------------------------------------------------
TypeOK == /\ SwitchTypeOK
          /\ at \in [Run -> {"idle", "returned", "threw"} \cup Running]
          /\ result \in [Run -> {"none", "halted", "finished", "error"}]
          /\ pulsed \in SUBSET Run

(***************************************************************************)
(* The signal of a registered scope that is halted has fired, whichever of *)
(* the trip and the registration came first, and whatever was tripped and  *)
(* reset before (killswitch.ts:50, 85).                                    *)
(***************************************************************************)
HaltedImpliesAborted == \A r \in registered : Halted(r) => r \in aborted

(***************************************************************************)
(* A run's signal is tracked exactly while it is running: every way out of *)
(* the loop, by return, by the end of the source or by an error of source, *)
(* handle or return(), passes through `finally` (worker.ts:34-36).         *)
(***************************************************************************)
OnlyRunsAreRegistered == registered = {r \in Run : at[r] \in Running}

(***************************************************************************)
(* Once its scope has been halted a run begins no further item, not even   *)
(* when the switch has been reset before the item came (worker.ts:28).     *)
(***************************************************************************)
HaltedRunsStartNothing ==
  [][\A r \in Run : at[r] # "handling" /\ at'[r] = "handling" => r \notin pulsed']_vars

(***************************************************************************)
(* WorkerResult.halted is the truth about the run: a run that reports no   *)
(* halt was never halted, not even for a moment while it waited, and one   *)
(* that reports a halt was (worker.ts:26-33).                              *)
(***************************************************************************)
ResultIsTrue == \A r \in Run : /\ result[r] = "finished" => r \notin pulsed
                               /\ result[r] = "halted" => r \in pulsed

(***************************************************************************)
(* A run whose scope is halted ends, were it for a moment only and reset   *)
(* again, and though its source has no end: whatever it waits for then,    *)
(* the item or the answer that comes next is its last (worker.ts:8-13,     *)
(* 27-32, killswitch.ts:80-89).                                            *)
(***************************************************************************)
HaltedRunsEnd == \A r \in Run : r \in pulsed ~> at[r] \in {"returned", "threw"}
===============================================================================
