---------------------------- MODULE BoundedChannel ----------------------------
(***************************************************************************)
(* The bounded channel of packages/throughput/src/channel.ts: one shard of *)
(* the router of shard.ts.                                                 *)
(*                                                                         *)
(* Each method runs to its first await in one step.  A push that found the *)
(* buffer full awaits a promise; #wakeProducer resolves it, which queues   *)
(* the rest of that push as a microtask, and everything that is already    *)
(* queued, or still to run in the current task, comes first (Continue).    *)
(*                                                                         *)
(* An element of PushCall is one call of push or tryPush, and stands for   *)
(* the item it carries; an element of PullCall is one call of pull.        *)
(***************************************************************************)
EXTENDS Naturals, Sequences, FiniteSets

CONSTANTS PushCall, PullCall,
          Capacity,            \* the channel's capacity
          NoItem               \* a pull that has not been answered

ASSUME ChannelAssumption == /\ Capacity \in Nat \ {0}
                            /\ NoItem \notin PushCall

VARIABLES buf,          \* #buf
          pushWaiters,  \* #pushWaiters
          pullWaiters,  \* #pullWaiters
          microtasks,   \* pushes that were woken, in the order they will run
          closed,       \* #closed
          push,         \* push[p]: how far call p is
          got,          \* got[c]: what pull c resolved to
          waited        \* history: the pushes that had to wait

channelVars == <<buf, pushWaiters, pullWaiters, microtasks, closed, push, got, waited>>

ChannelInit == /\ buf = <<>>
               /\ pushWaiters = <<>>
               /\ pullWaiters = <<>>
               /\ microtasks = <<>>
               /\ closed = FALSE
               /\ push = [p \in PushCall |-> "idle"]
               /\ got = [c \in PullCall |-> NoItem]
               /\ waited = {}

Called(c) == got[c] # NoItem \/ \E i \in DOMAIN pullWaiters : pullWaiters[i] = c

Becomes(p, st) == push' = [push EXCEPT ![p] = st]

\* Faulty: the consumer stays in line and is handed the next item too.
HandOverKeeps(p) == /\ pullWaiters # <<>>
                    /\ got' = [got EXCEPT ![Head(pullWaiters)] = p]
                    /\ Becomes(p, "done")
                    /\ UNCHANGED <<buf, pushWaiters, pullWaiters, microtasks, closed, waited>>

\* `consumer(item)`: straight to the consumer that has waited longest.
HandOver(p) == /\ pullWaiters # <<>>
               /\ got' = [got EXCEPT ![Head(pullWaiters)] = p]
               /\ pullWaiters' = Tail(pullWaiters)
               /\ Becomes(p, "done")
               /\ UNCHANGED <<buf, pushWaiters, microtasks, closed, waited>>

\* Faulty: `>` for `>=`.
BufferOneMore(p) == /\ pullWaiters = <<>>
                    /\ Len(buf) <= Capacity
                    /\ buf' = Append(buf, p)
                    /\ Becomes(p, "done")
                    /\ UNCHANGED <<pushWaiters, pullWaiters, microtasks, closed, got, waited>>

\* `this.#buf.push(item)` when there is room.
Buffer(p) == /\ pullWaiters = <<>>
             /\ Len(buf) < Capacity
             /\ buf' = Append(buf, p)
             /\ Becomes(p, "done")
             /\ UNCHANGED <<pushWaiters, pullWaiters, microtasks, closed, got, waited>>

Full == pullWaiters = <<>> /\ Len(buf) >= Capacity

(***************************************************************************)
(* push(item): only this method looks at #closed, and only on entry.       *)
(***************************************************************************)
WaitForRoom(p) == /\ Full
                  /\ pushWaiters' = Append(pushWaiters, p)
                  /\ waited' = waited \cup {p}
                  /\ Becomes(p, "waiting")
                  /\ UNCHANGED <<buf, pullWaiters, microtasks, closed, got>>

Refuse(p) == /\ Becomes(p, "refused")
             /\ UNCHANGED <<buf, pushWaiters, pullWaiters, microtasks, closed, got, waited>>

Push(p) == /\ push[p] = "idle"
           /\ \/ closed /\ Refuse(p)
              \/ ~closed /\ (HandOver(p) \/ Buffer(p) \/ WaitForRoom(p))

TryPush(p) == /\ push[p] = "idle"
              /\ HandOver(p) \/ Buffer(p) \/ (Full /\ Refuse(p))

\* Faulty: the rest of a push gives up on a closed channel.
ContinueWhileOpen == /\ microtasks # <<>>
                     /\ ~closed
                     /\ buf' = Append(buf, Head(microtasks))
                     /\ microtasks' = Tail(microtasks)
                     /\ Becomes(Head(microtasks), "done")
                     /\ UNCHANGED <<pushWaiters, pullWaiters, closed, got, waited>>

\* What is left of a push after its await: nothing is looked at again.
Continue == /\ microtasks # <<>>
            /\ buf' = Append(buf, Head(microtasks))
            /\ microtasks' = Tail(microtasks)
            /\ Becomes(Head(microtasks), "done")
            /\ UNCHANGED <<pushWaiters, pullWaiters, closed, got, waited>>

(***************************************************************************)
(* pull() and #wakeProducer()                                              *)
(***************************************************************************)
WakeProducer ==
  IF pushWaiters = <<>>
  THEN UNCHANGED <<pushWaiters, microtasks, push>>
  ELSE /\ microtasks' = Append(microtasks, Head(pushWaiters))
       /\ pushWaiters' = Tail(pushWaiters)
       /\ Becomes(Head(pushWaiters), "woken")

Take(c) == /\ buf # <<>>
           /\ got' = [got EXCEPT ![c] = Head(buf)]
           /\ buf' = Tail(buf)
           /\ WakeProducer
           /\ UNCHANGED <<pullWaiters, closed, waited>>

WaitForItem(c) == /\ buf = <<>>
                  /\ pullWaiters' = Append(pullWaiters, c)
                  /\ UNCHANGED <<buf, pushWaiters, microtasks, closed, push, got, waited>>

Pull(c) == ~Called(c) /\ (Take(c) \/ WaitForItem(c))

\* close() wakes nobody.
Close == /\ closed' = TRUE
         /\ UNCHANGED <<buf, pushWaiters, pullWaiters, microtasks, push, got, waited>>

ChannelNext == \/ \E p \in PushCall : Push(p) \/ TryPush(p)
               \/ \E c \in PullCall : Pull(c)
               \/ Continue
               \/ Close

ChannelSpec == ChannelInit /\ [][ChannelNext]_channelVars

(* Queued microtasks run; nobody is obliged to push, pull or close. *)
ChannelFairSpec == ChannelSpec /\ WF_channelVars(Continue)

-------------------------------------------------------------------------------
ChannelTypeOK == /\ buf \in Seq(PushCall)
                 /\ pushWaiters \in Seq(PushCall)
                 /\ pullWaiters \in Seq(PullCall)
                 /\ microtasks \in Seq(PushCall)
                 /\ closed \in BOOLEAN
                 /\ push \in [PushCall -> {"idle", "waiting", "woken", "done", "refused"}]
                 /\ got \in [PullCall -> PushCall \cup {NoItem}]
                 /\ waited \in SUBSET PushCall

Places(s, p) == Cardinality({i \in DOMAIN s : s[i] = p})
Copies(p) == Places(buf, p) + Places(pushWaiters, p) + Places(microtasks, p)
             + Cardinality({c \in PullCall : got[c] = p})

(***************************************************************************)
(* No item is lost, delivered twice or delivered after its push failed: an *)
(* item that a call took is in one place, with its waiting producer, in    *)
(* the buffer or with one consumer, and an item that was refused is        *)
(* nowhere (channel.ts:27-38, 53-60).                                      *)
(***************************************************************************)
ItemsAreConserved ==
  \A p \in PushCall : Copies(p) = IF push[p] \in {"idle", "refused"} THEN 0 ELSE 1

(***************************************************************************)
(* A producer waits only for room that is not there: while some push waits *)
(* and no woken one is about to run, the buffer is full.  No interleaving  *)
(* of pulls with the pushes they wake loses a wake-up (channel.ts:56, 62). *)
(***************************************************************************)
NoNeedlessWait == pushWaiters # <<>> /\ microtasks = <<>> => Len(buf) >= Capacity

(***************************************************************************)
(* Beyond its capacity the buffer holds only items whose push had waited,  *)
(* at most one per blocked producer: callers that are not blocked cannot   *)
(* make it grow (channel.ts:34, 47).                                       *)
(***************************************************************************)
OvershootIsWoken ==
  Cardinality({i \in DOMAIN buf : buf[i] \notin waited}) <= Capacity

(***************************************************************************)
(* A push that was woken is admitted, also when the channel was closed in  *)
(* between (channel.ts:35-37).                                             *)
(***************************************************************************)
WokenAreAdmitted == \A p \in PushCall : push[p] = "woken" ~> push[p] = "done"

(***************************************************************************)
(* "Pull an item; resolves immediately if buffered, else awaits the next   *)
(* push" (channel.ts:52).  It does not hold: a woken push appends to the   *)
(* buffer without looking for a consumer, so a pull made between the wake  *)
(* and the append stays unanswered beside an item it could have.           *)
(***************************************************************************)
PullsAreAnswered == ~(buf # <<>> /\ pullWaiters # <<>>)
===============================================================================
