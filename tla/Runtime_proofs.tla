----------------------------- MODULE Runtime_proofs -----------------------------
(***************************************************************************)
(* What holds of a running process, for any parameters: of the workers     *)
(* under the kill switch, that a tripped switch reaches every run, and of  *)
(* the desk on its durable store, that it answers as the in-memory store   *)
(* does, loses a patch only to a race and runs a migration once.           *)
(***************************************************************************)
EXTENDS Worker, Desk, FiniteSetTheorems, SequenceTheorems, WellFoundedInduction, TLAPS

(***************************************************************************)
(* The workers                                                             *)
(***************************************************************************)
\* A fired signal and a halt in the past are the same thing while a run is
\* tracked, and a run that has not settled has no result of a settled one.
SignalsAreHistory ==
  /\ aborted \subseteq pulsed
  /\ \A r \in registered : r \in pulsed => r \in aborted
  /\ \A r \in Run : at[r] = "closing" => result[r] \in {"halted", "error"}
  /\ \A r \in Run : at[r] \in {"idle", "pulling", "handling"} => result[r] = "none"
  /\ \A r \in Run : at[r] = "idle" => r \notin aborted /\ r \notin pulsed

\* The inductive invariant.
IInv == /\ TypeOK
        /\ HaltedImpliesAborted
        /\ OnlyRunsAreRegistered
        /\ ResultIsTrue
        /\ SignalsAreHistory

LEMMA InitInv == Init => IInv
BY DEF Init, SwitchInit, IInv, TypeOK, SwitchTypeOK, HaltedImpliesAborted, Running,
       OnlyRunsAreRegistered, ResultIsTrue, SignalsAreHistory

\* Tripping fires the signals of exactly the runs it halts.
LEMMA TripKeeps ==
  ASSUME IInv, NEW s \in Switch, TripSwitch(s)
  PROVE  IInv'
<1> USE DEF IInv, TypeOK, SwitchTypeOK, OnlyRunsAreRegistered, Running
<1>1. /\ tripped' = tripped \cup {s}
      /\ aborted' = aborted \cup {r \in registered : HaltedBy(tripped', r)}
      /\ registered' = registered
      /\ at' = at /\ result' = result
      /\ pulsed' = pulsed \cup {r \in Run : at[r] \in Running /\ HaltedBy(tripped', r)}
  BY DEF TripSwitch, Trip, loopVars, Pulse
<1>2. pulsed' = pulsed \cup {r \in registered : HaltedBy(tripped', r)}
  BY <1>1
<1>3. TypeOK' /\ OnlyRunsAreRegistered'
  BY <1>1
<1>4. HaltedImpliesAborted'
  BY <1>1 DEF HaltedImpliesAborted, Halted
<1>5. ResultIsTrue' /\ SignalsAreHistory'
  BY <1>1, <1>2 DEF ResultIsTrue, SignalsAreHistory
<1> QED
  BY <1>3, <1>4, <1>5

\* Resetting halts nobody, and leaves the signals that have fired.
LEMMA ResetKeeps ==
  ASSUME IInv, NEW s \in Switch, ResetSwitch(s)
  PROVE  IInv'
<1> USE DEF IInv, TypeOK, SwitchTypeOK, OnlyRunsAreRegistered, Running
<1>1. /\ tripped' = tripped \ {s}
      /\ aborted' = aborted /\ registered' = registered
      /\ at' = at /\ result' = result
      /\ pulsed' = pulsed \cup {r \in Run : at[r] \in Running /\ HaltedBy(tripped', r)}
  BY DEF ResetSwitch, Reset, loopVars, Pulse
<1>2. \A r \in Run : HaltedBy(tripped', r) => Halted(r)
  BY <1>1 DEF HaltedBy, Halted
<1>3. pulsed' \subseteq pulsed \cup aborted
  BY <1>1, <1>2 DEF HaltedImpliesAborted
<1>4. pulsed' = pulsed
  BY <1>1, <1>3 DEF SignalsAreHistory
<1>5. TypeOK' /\ OnlyRunsAreRegistered'
  BY <1>1, <1>4
<1>6. HaltedImpliesAborted'
  BY <1>1, <1>2 DEF HaltedImpliesAborted, Halted
<1>7. ResultIsTrue' /\ SignalsAreHistory'
  BY <1>1, <1>4 DEF ResultIsTrue, SignalsAreHistory
<1> QED
  BY <1>5, <1>6, <1>7

\* A step of a run, once it is known what it changes.
LEMMA RunKeeps ==
  ASSUME IInv, NEW r \in Run,
         RunHalted(r) \/ RunStarts(r) \/ SourceStep(r) \/ BodyStep(r)
  PROVE  IInv'
<1> USE DEF IInv, TypeOK, SwitchTypeOK, Running
<1>1. CASE RunHalted(r)
  BY <1>1 DEF RunHalted, HaltedImpliesAborted, OnlyRunsAreRegistered, ResultIsTrue,
              SignalsAreHistory, Halted, HaltedBy
<1>2. CASE RunStarts(r)
  <2>1. /\ at[r] = "idle" /\ at' = [at EXCEPT ![r] = "pulling"]
        /\ ~Halted(r)
        /\ registered' = registered \cup {r} /\ aborted' = aborted
        /\ tripped' = tripped /\ result' = result

    BY <1>2 DEF RunStarts, Register
  <2>2. \A q \in Run : HaltedBy(tripped', q) <=> Halted(q)
    BY <2>1 DEF Halted, HaltedBy
  <2>3. pulsed' = pulsed \cup {q \in registered' : Halted(q)}
    BY <1>2, <2>1, <2>2 DEF RunStarts, Pulse, OnlyRunsAreRegistered
  <2>4. pulsed' = pulsed
    BY <2>1, <2>3 DEF HaltedImpliesAborted, SignalsAreHistory
  <2>5. TypeOK' /\ OnlyRunsAreRegistered'
    BY <2>1, <2>4 DEF OnlyRunsAreRegistered
  <2>6. HaltedImpliesAborted'
    BY <2>1, <2>2 DEF HaltedImpliesAborted, Halted
  <2>7. ResultIsTrue' /\ SignalsAreHistory'
    BY <2>1, <2>4 DEF ResultIsTrue, SignalsAreHistory, OnlyRunsAreRegistered
  <2> QED
    BY <2>5, <2>6, <2>7
<1>3. CASE SourceStep(r) \/ BodyStep(r)
  <2>1. /\ tripped' = tripped /\ aborted' = aborted
        /\ at[r] \in Running
        /\ registered' = IF at'[r] \in Running THEN registered ELSE registered \ {r}
        /\ at' \in [Run -> {"idle", "returned", "threw"} \cup Running]
        /\ at'[r] # "idle"
        /\ \A q \in Run \ {r} : at'[q] = at[q] /\ result'[q] = result[q]
        /\ result' \in [Run -> {"none", "halted", "finished", "error"}]
    BY <1>3 DEF SourceStep, BodyStep, ItemArrives, SourceEnds, SourceThrows, HandleDone,
                HandleThrows, Closed, Leave, Finish, Deregister, AbortSeen, switchVars
  <2>2. /\ at'[r] \in {"pulling", "handling"} => result'[r] = "none"
        /\ at'[r] = "closing" => result'[r] \in {"halted", "error"}
        /\ result'[r] = "finished" => r \notin aborted
        /\ result'[r] = "halted" => r \in aborted
    BY <1>3 DEF SourceStep, BodyStep, ItemArrives, SourceEnds, SourceThrows, HandleDone,
                HandleThrows, Closed, Leave, Finish, AbortSeen, switchVars, ResultIsTrue,
                SignalsAreHistory, OnlyRunsAreRegistered
  <2>3. pulsed' = pulsed \cup {q \in Run : at'[q] \in Running /\ Halted(q)}
    BY <1>3, <2>1 DEF SourceStep, BodyStep, ItemArrives, SourceEnds, SourceThrows, HandleDone,
                HandleThrows, Closed, Pulse, Halted
  <2>4. registered' = {q \in Run : at'[q] \in Running}
    BY <2>1 DEF OnlyRunsAreRegistered
  <2>5. pulsed' = pulsed
    BY <2>1, <2>3, <2>4 DEF HaltedImpliesAborted, SignalsAreHistory
  <2>6. HaltedImpliesAborted'
    BY <2>1 DEF HaltedImpliesAborted, Halted, HaltedBy
  <2>7. ResultIsTrue' /\ SignalsAreHistory'
    BY <2>1, <2>2, <2>4, <2>5 DEF ResultIsTrue, SignalsAreHistory, OnlyRunsAreRegistered
  <2> QED
    BY <2>1, <2>4, <2>5, <2>6, <2>7 DEF OnlyRunsAreRegistered
<1> QED
  BY <1>1, <1>2, <1>3

\* IInv holds in every reachable state.
THEOREM Inductive == Spec => []IInv
<1>1. ASSUME IInv, [Next]_vars PROVE IInv'
  <2>1. CASE Next
    BY <1>1, <2>1, TripKeeps, ResetKeeps, RunKeeps DEF Next
  <2>2. CASE UNCHANGED vars
    BY <1>1, <2>2 DEF vars, switchVars, loopVars, IInv, TypeOK, SwitchTypeOK, Running,
                      HaltedImpliesAborted, Halted, HaltedBy, OnlyRunsAreRegistered,
                      ResultIsTrue, SignalsAreHistory
  <2> QED
    BY <1>1, <2>1, <2>2
<1> QED
  BY <1>1, InitInv, PTL DEF Spec

\* Every variable keeps its type.
THEOREM TypeCorrect == Spec => []TypeOK
BY Inductive, PTL DEF IInv

\* No halted scope has a tracked signal that has not fired, whatever the
\* order of trips, resets and registrations (killswitch.ts:50, 85).
THEOREM HaltReachesEveryone == Spec => []HaltedImpliesAborted
BY Inductive, PTL DEF IInv

\* Signals are tracked exactly while their run runs (worker.ts:34-36).
THEOREM NoLeak == Spec => []OnlyRunsAreRegistered
BY Inductive, PTL DEF IInv

\* The halted flag of a result is right in both directions (worker.ts:26-33).
THEOREM ResultsAreTrue == Spec => []ResultIsTrue
BY Inductive, PTL DEF IInv

\* No item is begun once the scope has been halted (worker.ts:28).
THEOREM NothingStartsHalted == Spec => HaltedRunsStartNothing
<1>1. ASSUME IInv, Next, NEW r \in Run, at[r] # "handling", at'[r] = "handling"
      PROVE  r \notin pulsed'
  <2> USE DEF IInv, TypeOK, SwitchTypeOK
  <2>1. ItemArrives(r)
    BY <1>1 DEF Next, TripSwitch, ResetSwitch, loopVars, RunHalted, RunStarts, SourceStep,
                BodyStep, SourceEnds, SourceThrows, HandleDone, HandleThrows, Closed, Leave,
                Finish, ItemArrives
  <2>2. r \notin aborted /\ r \in registered /\ tripped' = tripped
    BY <1>1, <2>1 DEF ItemArrives, Leave, AbortSeen, switchVars, OnlyRunsAreRegistered, Running
  <2>3. r \notin pulsed /\ ~Halted(r)
    BY <1>1, <2>2 DEF SignalsAreHistory, HaltedImpliesAborted
  <2> QED
    BY <2>1, <2>2, <2>3 DEF ItemArrives, Pulse, Halted
<1>2. ASSUME IInv, [Next]_vars
      PROVE  [\A r \in Run : at[r] # "handling" /\ at'[r] = "handling"
                             => r \notin pulsed']_vars
  BY <1>1, <1>2
<1> QED
  BY <1>2, Inductive, PTL DEF Spec, HaltedRunsStartNothing

(***************************************************************************)
(* The desk: how rows are sorted                                           *)
(***************************************************************************)
StrictOrder(R, S) ==
  /\ \A i \in S : <<i, i>> \notin R
  /\ \A i, j \in S : i # j => <<i, j>> \in R \/ <<j, i>> \in R
  /\ \A i, j, k \in S : <<i, j>> \in R /\ <<j, k>> \in R => <<i, k>> \in R

\* In a strict order of 1 .. n there is an element before which there are k - 1,
\* for each k: a sort has a row for each place.
LEMMA Ranked ==
  ASSUME NEW n \in Nat, NEW R, StrictOrder(R, 1 .. n)
  PROVE  \A k \in 1 .. n : \E i \in 1 .. n :
           Cardinality({j \in 1 .. n : <<j, i>> \in R}) + 1 = k
<1> DEFINE D == 1 .. n
           Before(i) == {j \in D : <<j, i>> \in R}
           rank == [i \in D |-> Cardinality(Before(i)) + 1]
<1>1. IsFiniteSet(D) /\ Cardinality(D) = n
  BY FS_Interval
<1>2. \A i \in D : IsFiniteSet(Before(i)) /\ Cardinality(Before(i)) \in Nat
                   /\ IsFiniteSet(D \ {i}) /\ Cardinality(D \ {i}) = n - 1
  BY <1>1, FS_Subset, FS_CardinalityType, FS_RemoveElement
<1>3. \A i \in D : Cardinality(Before(i)) + 1 \in D
  <2>1. TAKE i \in D
  <2>2. Before(i) \in SUBSET (D \ {i})
    BY DEF StrictOrder
  <2> HIDE DEF Before
  <2>3. Cardinality(Before(i)) <= Cardinality(D \ {i})
    BY <2>2, <1>2, FS_Subset
  <2>4. Cardinality(Before(i)) \in Nat /\ Cardinality(D \ {i}) = n - 1
    BY <1>2
  <2> QED
    BY <2>3, <2>4
<1>4. rank \in [D -> D]
  BY <1>3
<1>5. ASSUME NEW i \in D, NEW j \in D, <<i, j>> \in R
      PROVE  rank[i] # rank[j]
  <2>1. Before(i) \cup {i} \in SUBSET Before(j)
    BY <1>5 DEF StrictOrder
  <2>2. Cardinality(Before(i) \cup {i}) <= Cardinality(Before(j))
    <3> HIDE DEF Before
    <3> QED
    BY <2>1, <1>2, FS_Subset
  <2>3. i \notin Before(i)
    BY DEF StrictOrder
  <2>4. Cardinality(Before(i) \cup {i}) = Cardinality(Before(i)) + 1
    <3> HIDE DEF Before
    <3> QED
      BY <2>3, <1>2, FS_AddElement
  <2>5. rank[i] = Cardinality(Before(i)) + 1 /\ rank[j] = Cardinality(Before(j)) + 1
    OBVIOUS
  <2>6. Cardinality(Before(i)) \in Nat /\ Cardinality(Before(j)) \in Nat
    BY <1>2
  <2> HIDE DEF Before, rank
  <2> QED
    BY <2>2, <2>4, <2>5, <2>6
<1>6. rank \in Injection(D, D)
  BY <1>4, <1>5 DEF Injection, IsInjective, StrictOrder
<1>7. rank \in Surjection(D, D)
  <2> HIDE DEF rank, D
  <2> QED
    BY <1>1, <1>6, FS_Injection
<1>8. \A k \in D : \E i \in D : rank[i] = k
  BY <1>7 DEF Surjection
<1> QED
  BY <1>8


\* The rows a stable sort puts before row i, oldest first and newest first, and
\* the rows in their places.
Earlier(A, i) == {j \in DOMAIN A : A[j].at < A[i].at \/ (~(A[i].at < A[j].at) /\ j < i)}
Later(A, i) == {j \in DOMAIN A : A[j].at > A[i].at \/ (~(A[i].at > A[j].at) /\ j < i)}

OldestFirst(A) == [k \in DOMAIN A |->
                     CHOOSE i \in DOMAIN A : Cardinality(Earlier(A, i)) + 1 = k]
NewestFirst(A) == [k \in DOMAIN A |->
                     CHOOSE i \in DOMAIN A : Cardinality(Later(A, i)) + 1 = k]

LEMMA InventoryOrder ==
  ASSUME NEW A
  PROVE  SortInventory(A) = [k \in DOMAIN A |-> A[OldestFirst(A)[k]]]
<1>1. SortInventory(A) =
        [k \in DOMAIN A |-> A[CHOOSE i \in DOMAIN A :
           Cardinality({j \in DOMAIN A : A[j].at < A[i].at
                                          \/ (~(A[i].at < A[j].at) /\ j < i)}) + 1 = k]]
  BY Zenon DEF SortInventory, StableSort
<1>2. \A k \in DOMAIN A : OldestFirst(A)[k] =
        CHOOSE i \in DOMAIN A :
          Cardinality({j \in DOMAIN A : A[j].at < A[i].at
                                         \/ (~(A[i].at < A[j].at) /\ j < i)}) + 1 = k
  BY DEF OldestFirst, Earlier
<1> QED
  BY <1>1, <1>2, Zenon

LEMMA AlertOrder ==
  ASSUME NEW A
  PROVE  SortAlerts(A) = [k \in DOMAIN A |-> A[NewestFirst(A)[k]]]
<1>1. SortAlerts(A) =
        [k \in DOMAIN A |-> A[CHOOSE i \in DOMAIN A :
           Cardinality({j \in DOMAIN A : A[j].at > A[i].at
                                          \/ (~(A[i].at > A[j].at) /\ j < i)}) + 1 = k]]
  BY Zenon DEF SortAlerts, StableSort
<1>2. \A k \in DOMAIN A : NewestFirst(A)[k] =
        CHOOSE i \in DOMAIN A :
          Cardinality({j \in DOMAIN A : A[j].at > A[i].at
                                         \/ (~(A[i].at > A[j].at) /\ j < i)}) + 1 = k
  BY DEF NewestFirst, Later
<1> QED
  BY <1>1, <1>2, Zenon

\* Rows that agree on when they came are put in one order, a row to each place.
LEMMA SameOrder ==
  ASSUME NEW n \in Nat, NEW A, NEW B, DOMAIN A = 1 .. n, DOMAIN B = 1 .. n,
         \A i \in 1 .. n : A[i].at \in Nat /\ B[i].at = A[i].at
  PROVE  /\ OldestFirst(A) = OldestFirst(B)
         /\ \A k \in 1 .. n : OldestFirst(A)[k] \in 1 .. n
<1>1. \A i \in 1 .. n : Earlier(A, i) = Earlier(B, i)
  BY DEF Earlier
<1>2. \A k \in 1 .. n : (CHOOSE i \in 1 .. n : Cardinality(Earlier(A, i)) + 1 = k)
                        = (CHOOSE i \in 1 .. n : Cardinality(Earlier(B, i)) + 1 = k)
  BY <1>1, Zenon
<1>3. \A k \in 1 .. n : \E i \in 1 .. n : Cardinality(Earlier(A, i)) + 1 = k
  <2> DEFINE R == {p \in (1 .. n) \X (1 .. n) :
                     A[p[1]].at < A[p[2]].at \/ (~(A[p[2]].at < A[p[1]].at) /\ p[1] < p[2])}
  <2>1. \A i, j \in 1 .. n : <<i, j>> \in R
                             <=> (A[i].at < A[j].at \/ (~(A[j].at < A[i].at) /\ i < j))
    OBVIOUS
  <2>2. \A i \in 1 .. n : {j \in 1 .. n : <<j, i>> \in R} = Earlier(A, i)
    BY <2>1 DEF Earlier
  <2>3. \A i \in 1 .. n : A[i].at \in Nat
    OBVIOUS
  <2>4. StrictOrder(R, 1 .. n)
    BY <2>1, <2>3 DEF StrictOrder
  <2> HIDE DEF R
  <2>5. \A k \in 1 .. n : \E i \in 1 .. n :
          Cardinality({j \in 1 .. n : <<j, i>> \in R}) + 1 = k
    BY <2>4, Ranked
  <2> QED
    BY <2>2, <2>5
<1>4. OldestFirst(A) = OldestFirst(B)
  BY <1>2 DEF OldestFirst
<1>5. ASSUME NEW k \in 1 .. n
      PROVE  OldestFirst(A)[k] \in 1 .. n
  <2>1. PICK i \in 1 .. n : Cardinality(Earlier(A, i)) + 1 = k
    BY <1>3
  <2>2. (CHOOSE j \in 1 .. n : Cardinality(Earlier(A, j)) + 1 = k) \in 1 .. n
    BY <2>1
  <2> QED
    BY <2>2 DEF OldestFirst
<1> QED
  BY <1>4, <1>5

\* Alerts of one time are all listed.
LEMMA AllListed ==
  ASSUME NEW n \in Nat, NEW A, DOMAIN A = 1 .. n, \A i \in 1 .. n : A[i].at = 0
  PROVE  ToSet(SortAlerts(A)) = ToSet(A)
<1> DEFINE o == NewestFirst(A)
<1>1. \A i \in 1 .. n : Later(A, i) = 1 .. (i - 1)
  BY DEF Later
<1>2. \A i \in 1 .. n : Cardinality(Later(A, i)) + 1 = i
  <2>1. TAKE i \in 1 .. n
  <2>2. i - 1 \in Int /\ Cardinality(1 .. (i - 1)) = IF 1 > i - 1 THEN 0 ELSE (i - 1) - 1 + 1
    BY FS_Interval
  <2> QED
    BY <1>1, <2>2
<1>3. \A k \in 1 .. n : (CHOOSE i \in 1 .. n : Cardinality(Later(A, i)) + 1 = k) = k
  BY <1>2
<1>4. \A k \in 1 .. n : o[k] = k
  BY <1>3 DEF NewestFirst
<1>5. SortAlerts(A) = [k \in 1 .. n |-> A[k]]
  BY <1>4, AlertOrder
<1> QED
  BY <1>5 DEF ToSet

Distinct(t) == \A i, j \in DOMAIN t : t[i].id = t[j].id => i = j

LEMMA IndexIs ==
  ASSUME NEW S, NEW t \in Seq(S), NEW id, id \in Ids(t)
  PROVE  IndexOf(t, id) \in DOMAIN t /\ t[IndexOf(t, id)].id = id
BY DEF IndexOf, Ids

LEMMA SetRowThere ==
  ASSUME NEW S, NEW t \in Seq(S), NEW row \in S, Distinct(t), row.id \in Ids(t)
  PROVE  /\ SetRow(t, row) \in Seq(S)
         /\ DOMAIN SetRow(t, row) = DOMAIN t
         /\ \A k \in DOMAIN t :
              SetRow(t, row)[k] = IF t[k].id = row.id THEN row ELSE t[k]
<1> DEFINE u == SetRow(t, row)
<1>1. PICK x \in DOMAIN t : x = IndexOf(t, row.id) /\ t[x].id = row.id
  BY IndexIs
<1>2. u = [t EXCEPT ![x] = row]
  BY <1>1 DEF SetRow
<1>3. u \in Seq(S) /\ DOMAIN u = DOMAIN t
  BY <1>1, <1>2
<1>4. \A k \in DOMAIN t : u[k] = IF k = x THEN row ELSE t[k]
  BY <1>2, <1>3
<1>5. \A k \in DOMAIN t : k = x <=> t[k].id = row.id
  BY <1>1 DEF Distinct
<1> QED
  BY <1>3, <1>4, <1>5

LEMMA SetRowNew ==
  ASSUME NEW S, NEW t \in Seq(S), NEW row \in S, row.id \notin Ids(t)
  PROVE  /\ SetRow(t, row) \in Seq(S)
         /\ DOMAIN SetRow(t, row) = 1 .. Len(t) + 1
         /\ Len(t) \in Nat /\ DOMAIN t = 1 .. Len(t)
         /\ \A k \in 1 .. Len(t) : SetRow(t, row)[k] = t[k]
         /\ SetRow(t, row)[Len(t) + 1] = row
<1>1. SetRow(t, row) = Append(t, row)
  BY DEF SetRow
<1> QED
  BY <1>1

LEMMA SetRowKeeps ==
  ASSUME NEW S, NEW t \in Seq(S), NEW row \in S, Distinct(t)
  PROVE  /\ SetRow(t, row) \in Seq(S)
         /\ Distinct(SetRow(t, row))
         /\ Ids(SetRow(t, row)) = Ids(t) \cup {row.id}
<1> DEFINE u == SetRow(t, row)
<1>1. CASE row.id \in Ids(t)
  <2>1. /\ u \in Seq(S) /\ DOMAIN u = DOMAIN t
        /\ \A k \in DOMAIN t : u[k] = IF t[k].id = row.id THEN row ELSE t[k]
    BY <1>1, SetRowThere
  <2> HIDE DEF u
  <2>2. \A k \in DOMAIN t : u[k].id = t[k].id
    BY <2>1
  <2>3. Distinct(u) /\ Ids(u) = Ids(t)
    BY <2>1, <2>2 DEF Distinct, Ids
  <2> QED
    BY <1>1, <2>1, <2>3 DEF u
<1>2. CASE row.id \notin Ids(t)
  <2>1. /\ u \in Seq(S) /\ DOMAIN u = 1 .. Len(t) + 1 /\ DOMAIN t = 1 .. Len(t)
        /\ Len(t) \in Nat
        /\ \A k \in 1 .. Len(t) : u[k] = t[k]
        /\ u[Len(t) + 1] = row
    BY <1>2, SetRowNew
  <2>2. \A k \in DOMAIN t : t[k].id # row.id
    BY <1>2 DEF Ids
  <2> HIDE DEF u
  <2>3. \A k \in DOMAIN u : k \in DOMAIN t \/ k = Len(t) + 1
    BY <2>1
  <2>4. \A k \in DOMAIN t : k \in DOMAIN u /\ k # Len(t) + 1 /\ u[k] = t[k]
    BY <2>1
  <2>5. Len(t) + 1 \in DOMAIN u
    BY <2>1
  <2>6. Distinct(u)
    BY <2>1, <2>2, <2>3, <2>4 DEF Distinct
  <2>7. Ids(u) = Ids(t) \cup {row.id}
    BY <2>1, <2>3, <2>4, <2>5 DEF Ids
  <2> QED
    BY <2>1, <2>6, <2>7 DEF u
<1> QED
  BY <1>1, <1>2

\* Two tables with the same keys keep them in step when rows of one key are put.
LEMMA PutAlike ==
  ASSUME NEW S, NEW T, NEW t \in Seq(S), NEW e \in Seq(T), Distinct(t), Distinct(e),
         DOMAIN e = DOMAIN t, \A i \in DOMAIN t : e[i].id = t[i].id,
         NEW o \in S, NEW r \in T, r.id = o.id
  PROVE  /\ DOMAIN SetRow(e, r) = DOMAIN SetRow(t, o)
         /\ \A k \in DOMAIN SetRow(t, o) :
              \/ SetRow(t, o)[k] = o /\ SetRow(e, r)[k] = r
              \/ /\ k \in DOMAIN t /\ t[k].id # o.id
                 /\ SetRow(t, o)[k] = t[k] /\ SetRow(e, r)[k] = e[k]
<1>1. Ids(e) = Ids(t)
  BY DEF Ids
<1>2. CASE o.id \in Ids(t)
  <2>1. /\ DOMAIN SetRow(t, o) = DOMAIN t
        /\ \A k \in DOMAIN t : SetRow(t, o)[k] = IF t[k].id = o.id THEN o ELSE t[k]
    BY <1>2, SetRowThere
  <2>2. /\ DOMAIN SetRow(e, r) = DOMAIN e
        /\ \A k \in DOMAIN e : SetRow(e, r)[k] = IF e[k].id = r.id THEN r ELSE e[k]
    BY <1>1, <1>2, SetRowThere
  <2> QED
    BY <2>1, <2>2
<1>3. CASE o.id \notin Ids(t)
  <2>1. /\ DOMAIN SetRow(t, o) = 1 .. Len(t) + 1 /\ Len(t) \in Nat /\ DOMAIN t = 1 .. Len(t)
        /\ \A k \in 1 .. Len(t) : SetRow(t, o)[k] = t[k]
        /\ SetRow(t, o)[Len(t) + 1] = o
    BY <1>3, SetRowNew
  <2>2. /\ DOMAIN SetRow(e, r) = 1 .. Len(e) + 1 /\ Len(e) \in Nat /\ DOMAIN e = 1 .. Len(e)
        /\ \A k \in 1 .. Len(e) : SetRow(e, r)[k] = e[k]
        /\ SetRow(e, r)[Len(e) + 1] = r
    BY <1>1, <1>3, SetRowNew
  <2>3. Len(e) = Len(t)
    OBVIOUS
  <2>4. \A k \in 1 .. Len(t) + 1 : k \in 1 .. Len(t) \/ k = Len(t) + 1
    BY <2>1
  <2>5. \A k \in 1 .. Len(t) : t[k].id # o.id
    BY <1>3, <2>1 DEF Ids
  <2> QED
    BY <2>1, <2>2, <2>3, <2>4, <2>5
<1> QED
  BY <1>2, <1>3

LEMMA UpsertIs == \A t, row : Upsert(t, row) = SetRow(t, row)
BY DEF Upsert, SetRow

\* The rows of the file, and the calls a desk makes of its store.
OpportunityRowType == [id : Nat, band : Band \cup {Null}, score : Nat \cup {Null},
                       taken : {0, 1}, status : Status]
InventoryRowType == [id : Nat, at : Nat, status : InventoryStatus, price : Nat \cup {Null}]
AlertType == [id : Nat, at : {0}]
HealthType == [id : Nat, state : {"ok", "halted"}]

FileType == [opps : Seq(OpportunityRowType), inv : Seq(InventoryRowType),
             alerts : Seq(AlertType), health : Seq(HealthType), pnl : {Null, "booked"}]
MemoryType == [opps : Seq(OpportunityRecord), inv : Seq(InventoryRecord),
               alerts : Seq(AlertType), health : Seq(HealthType), pnl : {"empty", "booked"}]

Call == [op : {"opp"}, row : OpportunityRecord] \cup [op : {"inv"}, row : InventoryRecord]
        \cup [op : {"alert"}, row : AlertType] \cup [op : {"health"}, row : HealthType]
        \cup [op : {"pnl"}, row : {"booked"}] \cup [op : {"none"}]

\* The file d holds what memory m holds, in columns; of a stock row, whose patch
\* may be pending, its key.
FeedSame(d, m) == /\ Distinct(m.opps)
                  /\ d.opps = [i \in DOMAIN m.opps |-> OpportunityRow(m.opps[i])]
StockSame(d, m) == /\ Distinct(m.inv)
                   /\ DOMAIN d.inv = DOMAIN m.inv
                   /\ \A i \in DOMAIN m.inv : d.inv[i].id = m.inv[i].id
AlertsSame(d, m) == /\ Distinct(d.alerts)
                    /\ ToSet(d.alerts) = ToSet(m.alerts)
RestSame(d, m) == /\ d.health = m.health /\ Distinct(m.health)
                  /\ m.pnl = IF d.pnl = Null THEN "empty" ELSE "booked"

Agree(d, m) == /\ d \in FileType /\ m \in MemoryType
               /\ FeedSame(d, m) /\ StockSame(d, m) /\ AlertsSame(d, m) /\ RestSame(d, m)

LEMMA RowIs ==
  ASSUME NEW o \in OpportunityRecord
  PROVE  /\ OpportunityRow(o) \in OpportunityRowType
         /\ OpportunityRow(o).id = o.id
         /\ RowToOpportunity(OpportunityRow(o)) = o
<1>1. /\ ToColumn(o.band) \in Band \cup {Null} /\ FromColumn(ToColumn(o.band)) = o.band
      /\ ToColumn(o.score) \in Nat \cup {Null} /\ FromColumn(ToColumn(o.score)) = o.score
  BY NullAssumption DEF OpportunityRecord, ToColumn, FromColumn
<1>2. ToFlag(o.taken) \in {0, 1} /\ (ToFlag(o.taken) = 1) = o.taken
  BY DEF OpportunityRecord, ToFlag
<1>3. OpportunityRow(o) \in OpportunityRowType /\ OpportunityRow(o).id = o.id
  BY <1>1, <1>2 DEF OpportunityRecord, OpportunityRowType, OpportunityRow
<1>4. RowToOpportunity(OpportunityRow(o)) =
        [id |-> o.id, band |-> o.band, score |-> o.score, taken |-> o.taken,
         status |-> o.status]
  BY <1>1, <1>2 DEF RowToOpportunity, OpportunityRow
<1>5. o = [id |-> o.id, band |-> o.band, score |-> o.score, taken |-> o.taken,
           status |-> o.status]
  BY DEF OpportunityRecord
<1> QED
  BY <1>3, <1>4, <1>5

LEMMA StockRowIs ==
  ASSUME NEW i \in InventoryRecord
  PROVE  /\ InventoryRow(i) \in InventoryRowType
         /\ InventoryRow(i).id = i.id /\ InventoryRow(i).at = i.at
         /\ RowToInventory(InventoryRow(i)) = i
BY NullAssumption DEF InventoryRecord, InventoryRow, InventoryRowType, ToColumn, RowToInventory,
   FromColumn

LEMMA FromStockRow ==
  ASSUME NEW r \in InventoryRowType
  PROVE  /\ RowToInventory(r) \in InventoryRecord
         /\ RowToInventory(r).id = r.id /\ RowToInventory(r).at = r.at
BY DEF InventoryRecord, InventoryRowType, RowToInventory, FromColumn

LEMMA PatchedIs ==
  ASSUME NEW i \in InventoryRecord, NEW patch \in Patch
  PROVE  /\ Patched(i, patch) \in InventoryRecord
         /\ Patched(i, patch).id = i.id /\ Patched(i, patch).at = i.at
<1>1. /\ DOMAIN patch \subseteq {"status", "price"}
      /\ "status" \in DOMAIN patch => patch["status"] \in InventoryStatus
      /\ "price" \in DOMAIN patch => patch["price"] \in Nat \cup {Absent}
  BY RecordAssumption
<1>2. DOMAIN i = {"id", "at", "status", "price"}
  BY DEF InventoryRecord
<1>3. "id" \notin DOMAIN patch /\ "at" \notin DOMAIN patch
  BY <1>1
<1>4. Patched(i, patch) =
        [id |-> i.id, at |-> i.at,
         status |-> IF "status" \in DOMAIN patch THEN patch["status"] ELSE i.status,
         price |-> IF "price" \in DOMAIN patch THEN patch["price"] ELSE i.price]
  BY <1>2, <1>3 DEF Patched
<1> QED
  BY <1>1, <1>4 DEF InventoryRecord

\* The encoding of a table follows a put.
LEMMA PutEncoded ==
  ASSUME NEW t \in Seq(OpportunityRecord), Distinct(t), NEW o \in OpportunityRecord,
         NEW e, e = [i \in DOMAIN t |-> OpportunityRow(t[i])]
  PROVE  /\ Upsert(e, OpportunityRow(o)) \in Seq(OpportunityRowType)
         /\ Upsert(e, OpportunityRow(o))
            = [i \in DOMAIN SetRow(t, o) |-> OpportunityRow(SetRow(t, o)[i])]
<1>1. \A i \in DOMAIN t : /\ t[i] \in OpportunityRecord
                          /\ e[i] \in OpportunityRowType /\ e[i].id = t[i].id
                          /\ e[i] = OpportunityRow(t[i])
  BY RowIs
<1>2. e \in Seq(OpportunityRowType) /\ DOMAIN e = DOMAIN t
  BY <1>1
<1>3. Distinct(e)
  BY <1>1, <1>2 DEF Distinct
<1>4. PICK r \in OpportunityRowType : r = OpportunityRow(o) /\ r.id = o.id
  BY RowIs
<1>5. PICK v : v = SetRow(e, r)
  OBVIOUS
<1>6. PICK u : u = SetRow(t, o)
  OBVIOUS
<1>7. v \in Seq(OpportunityRowType) /\ u \in Seq(OpportunityRecord)
  BY <1>2, <1>3, <1>5, <1>6, SetRowKeeps
<1>8. /\ DOMAIN v = DOMAIN u
      /\ \A k \in DOMAIN u : \/ u[k] = o /\ v[k] = r
                             \/ k \in DOMAIN t /\ u[k] = t[k] /\ v[k] = e[k]
  BY <1>1, <1>2, <1>3, <1>4, <1>5, <1>6, PutAlike
<1>9. \A k \in DOMAIN u : v[k] = OpportunityRow(u[k])
  BY <1>1, <1>4, <1>8
<1>10. v = [k \in DOMAIN u |-> OpportunityRow(u[k])]
  BY <1>7, <1>8, <1>9
<1> QED
  BY <1>4, <1>5, <1>6, <1>7, <1>10, UpsertIs

LEMMA AgreeAtFirst == Agree(EmptyDatabase, EmptyStore)
<1> DEFINE e == << >>
<1>1. /\ e \in Seq(OpportunityRowType) /\ e \in Seq(InventoryRowType) /\ e \in Seq(AlertType)
      /\ e \in Seq(HealthType) /\ e \in Seq(OpportunityRecord) /\ e \in Seq(InventoryRecord)
  OBVIOUS
<1>2. /\ EmptyStore = [opps |-> e, inv |-> e, alerts |-> e, health |-> e, pnl |-> "empty"]
      /\ EmptyDatabase = [opps |-> e, inv |-> e, alerts |-> e, health |-> e, pnl |-> Null]
  BY DEF EmptyDatabase, EmptyStore
<1>3. DOMAIN e = {}
  OBVIOUS
<1> HIDE DEF e
<1>4. EmptyDatabase \in FileType /\ EmptyStore \in MemoryType
  BY <1>1, <1>2 DEF FileType, MemoryType
<1>5. e = [i \in DOMAIN e |-> OpportunityRow(e[i])]
  BY <1>3 DEF e
<1> QED
  BY <1>2, <1>3, <1>4, <1>5 DEF Agree, FeedSame, StockSame, AlertsSame, RestSame, Distinct, ToSet

LEMMA AgreeOpportunity ==
  ASSUME NEW d, NEW m, Agree(d, m), NEW o \in OpportunityRecord
  PROVE  Agree(SqlPutOpportunity(d, o), MemPutOpportunity(m, o))
<1>1. d \in FileType /\ m \in MemoryType /\ FeedSame(d, m)
  BY DEF Agree
<1>2. PICK v : v = Upsert(d.opps, OpportunityRow(o))
  OBVIOUS
<1>3. PICK u : u = SetRow(m.opps, o)
  OBVIOUS
<1>4. m.opps \in Seq(OpportunityRecord) /\ Distinct(m.opps)
  BY <1>1 DEF MemoryType, FeedSame
<1>5. /\ v \in Seq(OpportunityRowType)
      /\ v = [i \in DOMAIN u |-> OpportunityRow(u[i])]
  BY <1>1, <1>2, <1>3, <1>4, PutEncoded DEF FeedSame
<1>6. u \in Seq(OpportunityRecord) /\ Distinct(u)
  BY <1>3, <1>4, SetRowKeeps
<1>7. /\ SqlPutOpportunity(d, o) = [d EXCEPT !.opps = v]
      /\ MemPutOpportunity(m, o) = [m EXCEPT !.opps = u]
  BY <1>2, <1>3 DEF SqlPutOpportunity, MemPutOpportunity
<1>8. [d EXCEPT !.opps = v] \in FileType /\ [m EXCEPT !.opps = u] \in MemoryType
  BY <1>1, <1>5, <1>6 DEF FileType, MemoryType
<1>9. Agree([d EXCEPT !.opps = v], [m EXCEPT !.opps = u])
  BY <1>1, <1>5, <1>6, <1>8 DEF FileType, MemoryType, Agree, FeedSame, StockSame, AlertsSame,
     RestSame
<1> QED
  BY <1>7, <1>9

LEMMA AgreeInventory ==
  ASSUME NEW d, NEW m, Agree(d, m), NEW i \in InventoryRecord
  PROVE  Agree(SqlPutInventory(d, i), MemPutInventory(m, i))
<1>1. d \in FileType /\ m \in MemoryType /\ StockSame(d, m)
  BY DEF Agree
<1>2. PICK r \in InventoryRowType : r = InventoryRow(i) /\ r.id = i.id
  BY StockRowIs
<1>3. PICK v : v = SetRow(d.inv, r)
  OBVIOUS
<1>4. PICK u : u = SetRow(m.inv, i)
  OBVIOUS
<1>5. /\ d.inv \in Seq(InventoryRowType) /\ m.inv \in Seq(InventoryRecord)
      /\ Distinct(m.inv) /\ DOMAIN d.inv = DOMAIN m.inv
      /\ \A k \in DOMAIN m.inv : d.inv[k].id = m.inv[k].id
  BY <1>1 DEF MemoryType, FileType, StockSame
<1>6. Distinct(d.inv)
  BY <1>5 DEF Distinct
<1>7. /\ u \in Seq(InventoryRecord) /\ Distinct(u)
      /\ v \in Seq(InventoryRowType)
  BY <1>2, <1>3, <1>4, <1>5, <1>6, SetRowKeeps
<1>8. /\ DOMAIN v = DOMAIN u
      /\ \A k \in DOMAIN u : \/ u[k] = i /\ v[k] = r
                             \/ /\ k \in DOMAIN m.inv
                                /\ u[k] = m.inv[k] /\ v[k] = d.inv[k]
  BY <1>2, <1>3, <1>4, <1>5, <1>6, PutAlike
<1>9. \A k \in DOMAIN u : v[k].id = u[k].id
  BY <1>2, <1>5, <1>8
<1>10. /\ SqlPutInventory(d, i) = [d EXCEPT !.inv = v]
       /\ MemPutInventory(m, i) = [m EXCEPT !.inv = u]
  BY <1>2, <1>3, <1>4, UpsertIs DEF SqlPutInventory, MemPutInventory
<1>11. [d EXCEPT !.inv = v] \in FileType /\ [m EXCEPT !.inv = u] \in MemoryType
  BY <1>1, <1>7 DEF FileType, MemoryType
<1>12. Agree([d EXCEPT !.inv = v], [m EXCEPT !.inv = u])
  BY <1>1, <1>7, <1>8, <1>9, <1>11 DEF FileType, MemoryType, Agree, FeedSame, StockSame,
     AlertsSame, RestSame
<1> QED
  BY <1>10, <1>12

LEMMA AgreeAlert ==
  ASSUME NEW d, NEW m, Agree(d, m), NEW a \in AlertType
  PROVE  Agree(SqlPutAlert(d, a), MemPutAlert(m, a))
<1>1. d \in FileType /\ m \in MemoryType /\ AlertsSame(d, m)
  BY DEF Agree
<1>2. PICK v : v = SetRow(d.alerts, a)
  OBVIOUS
<1>3. PICK u : u = Append(m.alerts, a)
  OBVIOUS
<1>4. /\ d.alerts \in Seq(AlertType) /\ m.alerts \in Seq(AlertType) /\ Distinct(d.alerts)
      /\ ToSet(d.alerts) = ToSet(m.alerts)
  BY <1>1 DEF MemoryType, FileType, AlertsSame
<1>5. v \in Seq(AlertType) /\ Distinct(v)
  BY <1>2, <1>4, SetRowKeeps
<1>6. u \in Seq(AlertType) /\ ToSet(u) = ToSet(m.alerts) \cup {a}
  <2>1. /\ DOMAIN u = 1 .. Len(m.alerts) + 1 /\ DOMAIN m.alerts = 1 .. Len(m.alerts)
        /\ Len(m.alerts) \in Nat /\ u \in Seq(AlertType)
        /\ \A k \in 1 .. Len(m.alerts) : u[k] = m.alerts[k]
        /\ u[Len(m.alerts) + 1] = a
    BY <1>3, <1>4
  <2>2. \A k \in DOMAIN u : k \in DOMAIN m.alerts \/ k = Len(m.alerts) + 1
    BY <2>1
  <2>3. \A k \in DOMAIN m.alerts : k \in DOMAIN u
    BY <2>1
  <2>4. Len(m.alerts) + 1 \in DOMAIN u
    BY <2>1
  <2> QED
    BY <2>1, <2>2, <2>3, <2>4 DEF ToSet
<1>7. ToSet(v) = ToSet(d.alerts) \cup {a}
  <2>1. \A x, y \in AlertType : x.id = y.id => x = y
    BY DEF AlertType
  <2>2. CASE a.id \in Ids(d.alerts)
    <3>1. /\ DOMAIN v = DOMAIN d.alerts
          /\ \A k \in DOMAIN d.alerts : v[k] = IF d.alerts[k].id = a.id THEN a ELSE d.alerts[k]
      BY <2>2, <1>2, <1>4, SetRowThere
    <3>2. \A k \in DOMAIN d.alerts : d.alerts[k] \in AlertType
      BY <1>4
    <3>3. \A k \in DOMAIN d.alerts : v[k] = d.alerts[k]
      BY <3>1, <3>2, <2>1
    <3>4. \E k \in DOMAIN d.alerts : d.alerts[k] = a
      BY <2>1, <2>2, <3>2 DEF Ids
    <3> QED
      BY <3>1, <3>3, <3>4 DEF ToSet
  <2>3. CASE a.id \notin Ids(d.alerts)
    <3>1. /\ DOMAIN v = 1 .. Len(d.alerts) + 1 /\ DOMAIN d.alerts = 1 .. Len(d.alerts)
          /\ Len(d.alerts) \in Nat
          /\ \A k \in 1 .. Len(d.alerts) : v[k] = d.alerts[k]
          /\ v[Len(d.alerts) + 1] = a
      BY <2>3, <1>2, <1>4, SetRowNew
    <3>2. \A k \in DOMAIN v : k \in DOMAIN d.alerts \/ k = Len(d.alerts) + 1
      BY <3>1
    <3>3. \A k \in DOMAIN d.alerts : k \in DOMAIN v
      BY <3>1
    <3>4. Len(d.alerts) + 1 \in DOMAIN v
      BY <3>1
    <3> QED
      BY <3>1, <3>2, <3>3, <3>4 DEF ToSet
  <2> QED
    BY <2>2, <2>3
<1>8. /\ SqlPutAlert(d, a) = [d EXCEPT !.alerts = v]
      /\ MemPutAlert(m, a) = [m EXCEPT !.alerts = u]
  BY <1>2, <1>3, UpsertIs DEF SqlPutAlert, MemPutAlert
<1>9. [d EXCEPT !.alerts = v] \in FileType /\ [m EXCEPT !.alerts = u] \in MemoryType
  BY <1>1, <1>5, <1>6 DEF FileType, MemoryType
<1>10. Agree([d EXCEPT !.alerts = v], [m EXCEPT !.alerts = u])
  BY <1>1, <1>4, <1>5, <1>6, <1>7, <1>9 DEF FileType, MemoryType, Agree, FeedSame, StockSame,
     AlertsSame, RestSame
<1> QED
  BY <1>8, <1>10

LEMMA AgreeHealth ==
  ASSUME NEW d, NEW m, Agree(d, m), NEW h \in HealthType
  PROVE  Agree(SqlPutHealth(d, h), MemPutHealth(m, h))
<1>1. d \in FileType /\ m \in MemoryType /\ RestSame(d, m)
  BY DEF Agree
<1>2. PICK u : u = SetRow(m.health, h)
  OBVIOUS
<1>3. m.health \in Seq(HealthType) /\ Distinct(m.health) /\ d.health = m.health
  BY <1>1 DEF MemoryType, RestSame
<1>4. u \in Seq(HealthType) /\ Distinct(u)
  BY <1>2, <1>3, SetRowKeeps
<1>5. /\ SqlPutHealth(d, h) = [d EXCEPT !.health = u]
      /\ MemPutHealth(m, h) = [m EXCEPT !.health = u]
  BY <1>2, <1>3, UpsertIs DEF SqlPutHealth, MemPutHealth
<1>6. [d EXCEPT !.health = u] \in FileType /\ [m EXCEPT !.health = u] \in MemoryType
  BY <1>1, <1>4 DEF FileType, MemoryType
<1>7. Agree([d EXCEPT !.health = u], [m EXCEPT !.health = u])
  BY <1>1, <1>4, <1>6 DEF FileType, MemoryType, Agree, FeedSame, StockSame, AlertsSame, RestSame
<1> QED
  BY <1>5, <1>7

LEMMA AgreePnl ==
  ASSUME NEW d, NEW m, Agree(d, m)
  PROVE  Agree(SqlSetPnl(d, "booked"), MemSetPnl(m, "booked"))
<1>1. d \in FileType /\ m \in MemoryType
  BY DEF Agree
<1>2. /\ [d EXCEPT !.pnl = "booked"] \in FileType
      /\ [m EXCEPT !.pnl = "booked"] \in MemoryType
  BY <1>1 DEF FileType, MemoryType
<1> QED
  BY <1>1, <1>2, NullAssumption DEF FileType, MemoryType, Agree, FeedSame, StockSame, AlertsSame,
     RestSame, SqlSetPnl, MemSetPnl

\* Every call a desk makes of both stores leaves them in agreement.
LEMMA AgreeCall ==
  ASSUME NEW d, NEW m, Agree(d, m), NEW c \in Call
  PROVE  Agree(SqlDo(d, c), MemDo(m, c))
<1>1. CASE c.op = "opp" /\ c.row \in OpportunityRecord
  BY <1>1, AgreeOpportunity DEF SqlDo, MemDo
<1>2. CASE c.op = "inv" /\ c.row \in InventoryRecord
  BY <1>2, AgreeInventory DEF SqlDo, MemDo
<1>3. CASE c.op = "alert" /\ c.row \in AlertType
  BY <1>3, AgreeAlert DEF SqlDo, MemDo
<1>4. CASE c.op = "health" /\ c.row \in HealthType
  BY <1>4, AgreeHealth DEF SqlDo, MemDo
<1>5. CASE c.op = "pnl" /\ c.row = "booked"
  BY <1>5, AgreePnl DEF SqlDo, MemDo
<1>6. CASE c.op = "none"
  BY <1>6 DEF SqlDo, MemDo
<1>7. \/ c.op = "opp" /\ c.row \in OpportunityRecord
      \/ c.op = "inv" /\ c.row \in InventoryRecord
      \/ c.op = "alert" /\ c.row \in AlertType
      \/ c.op = "health" /\ c.row \in HealthType
      \/ c.op = "pnl" /\ c.row = "booked"
      \/ c.op = "none"
  BY DEF Call
<1> QED
  BY <1>1, <1>2, <1>3, <1>4, <1>5, <1>6, <1>7

LEMMA AgreeStatus ==
  ASSUME NEW d, NEW m, Agree(d, m), NEW id, NEW s \in Status
  PROVE  Agree(SqlSetStatus(d, id, s), MemSetStatus(m, id, s))
<1>1. d \in FileType /\ m \in MemoryType /\ FeedSame(d, m)
  BY DEF Agree
<1>2. PICK t \in Seq(OpportunityRecord) : t = m.opps
  BY <1>1 DEF MemoryType
<1>3. PICK e \in Seq(OpportunityRowType) : e = d.opps
  BY <1>1 DEF FileType
<1>4. /\ Distinct(t) /\ DOMAIN e = DOMAIN t
      /\ \A k \in DOMAIN t : /\ t[k] \in OpportunityRecord
                             /\ e[k] = OpportunityRow(t[k])
  BY <1>1, <1>2, <1>3 DEF FeedSame
<1>5. \A o \in OpportunityRecord :
        /\ [o EXCEPT !.status = s] \in OpportunityRecord
        /\ [o EXCEPT !.status = s].id = o.id
        /\ OpportunityRow([o EXCEPT !.status = s]) = [OpportunityRow(o) EXCEPT !.status = s]
  <2>1. TAKE o \in OpportunityRecord
  <2>2. PICK x : x = [o EXCEPT !.status = s]
    OBVIOUS
  <2>3. /\ x \in OpportunityRecord /\ x.id = o.id /\ x.band = o.band /\ x.score = o.score
        /\ x.taken = o.taken /\ x.status = s
    BY <2>2 DEF OpportunityRecord
  <2>4. OpportunityRow(x) = [id |-> o.id, band |-> ToColumn(o.band), score |-> ToColumn(o.score),
                             taken |-> ToFlag(o.taken), status |-> s]
    BY <2>3 DEF OpportunityRow
  <2>5. [OpportunityRow(o) EXCEPT !.status = s]
        = [id |-> o.id, band |-> ToColumn(o.band), score |-> ToColumn(o.score),
           taken |-> ToFlag(o.taken), status |-> s]
    BY DEF OpportunityRow
  <2> QED
    BY <2>2, <2>3, <2>4, <2>5
<1>6. PICK v : v = [k \in DOMAIN e |-> IF e[k].id = id THEN [e[k] EXCEPT !.status = s]
                                                       ELSE e[k]]
  OBVIOUS
<1>7. PICK u : u = [k \in DOMAIN t |-> IF t[k].id = id THEN [t[k] EXCEPT !.status = s]
                                                       ELSE t[k]]
  OBVIOUS
<1>8. \A k \in DOMAIN t : /\ u[k] \in OpportunityRecord /\ u[k].id = t[k].id
                          /\ v[k] = OpportunityRow(u[k])
  <2>1. TAKE k \in DOMAIN t
  <2>2. e[k].id = t[k].id
    BY <1>4, RowIs
  <2> QED
    BY <2>2, <1>4, <1>5, <1>6, <1>7
<1>9. /\ u \in Seq(OpportunityRecord) /\ DOMAIN u = DOMAIN t
      /\ v \in Seq(OpportunityRowType) /\ DOMAIN v = DOMAIN t
  <2>1. \A k \in DOMAIN t : v[k] \in OpportunityRowType
    BY <1>8, RowIs
  <2>2. PICK n \in Nat : DOMAIN t = 1 .. n
    OBVIOUS
  <2>3. u = [k \in 1 .. n |-> u[k]] /\ v = [k \in 1 .. n |-> v[k]]
    BY <2>2, <1>4, <1>6, <1>7
  <2>4. \A k \in 1 .. n : u[k] \in OpportunityRecord /\ v[k] \in OpportunityRowType
    BY <2>1, <2>2, <1>8
  <2>5. u \in [1 .. n -> OpportunityRecord] /\ v \in [1 .. n -> OpportunityRowType]
    BY <2>3, <2>4
  <2>6. u \in Seq(OpportunityRecord) /\ v \in Seq(OpportunityRowType)
    BY <2>5, SeqDef
  <2> QED
    BY <2>2, <2>5, <2>6
<1>10. Distinct(u) /\ v = [k \in DOMAIN u |-> OpportunityRow(u[k])]
  BY <1>4, <1>6, <1>8, <1>9 DEF Distinct
<1>11. SqlSetStatus(d, id, s) = [d EXCEPT !.opps = v]
  BY <1>3, <1>6 DEF SqlSetStatus
<1>12. MemSetStatus(m, id, s) = [m EXCEPT !.opps = u]
  <2>1. CASE id \in Ids(t)
    <3>1. PICK x \in DOMAIN t : x = IndexOf(t, id) /\ t[x].id = id
      BY <2>1, IndexIs
    <3>2. u = [t EXCEPT ![x] = [t[x] EXCEPT !.status = s]]
      BY <3>1, <1>4, <1>7 DEF Distinct
    <3>3. MemSetStatus(m, id, s) = [m EXCEPT !.opps = [t EXCEPT ![x] = [t[x] EXCEPT !.status = s]]]
      BY <2>1, <3>1, <1>1, <1>2 DEF MemSetStatus, MemoryType
    <3> QED
      BY <3>2, <3>3
  <2>2. CASE id \notin Ids(t)
    <3>1. u = t
      BY <2>2, <1>7 DEF Ids
    <3>2. [m EXCEPT !.opps = t] = m
      BY <1>1, <1>2 DEF MemoryType
    <3> QED
      BY <2>2, <3>1, <3>2, <1>2 DEF MemSetStatus
  <2> QED
    BY <2>1, <2>2
<1>13. [d EXCEPT !.opps = v] \in FileType /\ [m EXCEPT !.opps = u] \in MemoryType
  BY <1>1, <1>9 DEF FileType, MemoryType
<1>14. Agree([d EXCEPT !.opps = v], [m EXCEPT !.opps = u])
  BY <1>1, <1>10, <1>13 DEF FileType, MemoryType, Agree, FeedSame, StockSame, AlertsSame,
     RestSame
<1> QED
  BY <1>11, <1>12, <1>14

\* A row put in one store alone, over a row of its key.
LEMMA AgreeMemory ==
  ASSUME NEW d, NEW m, Agree(d, m), NEW i \in InventoryRecord, i.id \in Ids(m.inv)
  PROVE  /\ Agree(d, MemPutInventory(m, i))
         /\ DOMAIN MemPutInventory(m, i).inv = DOMAIN m.inv
         /\ \A k \in DOMAIN m.inv : MemPutInventory(m, i).inv[k]
                                    = IF m.inv[k].id = i.id THEN i ELSE m.inv[k]
<1>1. d \in FileType /\ m \in MemoryType /\ StockSame(d, m)
  BY DEF Agree
<1>2. PICK u : u = SetRow(m.inv, i)
  OBVIOUS
<1>3. m.inv \in Seq(InventoryRecord) /\ Distinct(m.inv)
  BY <1>1 DEF MemoryType, StockSame
<1>4. /\ u \in Seq(InventoryRecord) /\ Distinct(u) /\ DOMAIN u = DOMAIN m.inv
      /\ \A k \in DOMAIN m.inv : u[k] = IF m.inv[k].id = i.id THEN i ELSE m.inv[k]
  <2>1. u \in Seq(InventoryRecord) /\ Distinct(u)
    BY <1>2, <1>3, SetRowKeeps
  <2>2. /\ DOMAIN u = DOMAIN m.inv
        /\ \A k \in DOMAIN m.inv : u[k] = IF m.inv[k].id = i.id THEN i ELSE m.inv[k]
    BY <1>2, <1>3, SetRowThere
  <2> QED
    BY <2>1, <2>2
<1>5. MemPutInventory(m, i) = [m EXCEPT !.inv = u]
  BY <1>2 DEF MemPutInventory
<1>6. [m EXCEPT !.inv = u] \in MemoryType /\ [m EXCEPT !.inv = u].inv = u
  BY <1>1, <1>4 DEF MemoryType
<1>7. Agree(d, [m EXCEPT !.inv = u])
  BY <1>1, <1>4, <1>6 DEF MemoryType, Agree, FeedSame, StockSame, AlertsSame, RestSame
<1> QED
  BY <1>4, <1>5, <1>6, <1>7

LEMMA AgreeFile ==
  ASSUME NEW d, NEW m, Agree(d, m), NEW i \in InventoryRecord, i.id \in Ids(m.inv)
  PROVE  /\ Agree(SqlPutInventory(d, i), m)
         /\ \A k \in DOMAIN m.inv : SqlPutInventory(d, i).inv[k]
                                    = IF m.inv[k].id = i.id THEN InventoryRow(i) ELSE d.inv[k]
<1>1. d \in FileType /\ m \in MemoryType /\ StockSame(d, m)
  BY DEF Agree
<1>2. PICK r \in InventoryRowType : r = InventoryRow(i) /\ r.id = i.id
  BY StockRowIs
<1>3. PICK v : v = SetRow(d.inv, r)
  OBVIOUS
<1>4. /\ d.inv \in Seq(InventoryRowType)
      /\ Distinct(m.inv) /\ DOMAIN d.inv = DOMAIN m.inv
      /\ \A k \in DOMAIN m.inv : d.inv[k].id = m.inv[k].id
  BY <1>1 DEF FileType, StockSame
<1>5. Distinct(d.inv) /\ Ids(d.inv) = Ids(m.inv)
  BY <1>4 DEF Distinct, Ids
<1>6. /\ v \in Seq(InventoryRowType) /\ DOMAIN v = DOMAIN m.inv
      /\ \A k \in DOMAIN m.inv : v[k] = IF m.inv[k].id = i.id THEN r ELSE d.inv[k]
  BY <1>2, <1>3, <1>4, <1>5, SetRowThere
<1>7. SqlPutInventory(d, i) = [d EXCEPT !.inv = v]
  BY <1>2, <1>3, UpsertIs DEF SqlPutInventory
<1>8. [d EXCEPT !.inv = v] \in FileType /\ [d EXCEPT !.inv = v].inv = v
  BY <1>1, <1>6 DEF FileType
<1>9. Agree([d EXCEPT !.inv = v], m)
  BY <1>1, <1>2, <1>4, <1>6, <1>8 DEF FileType, Agree, FeedSame, StockSame, AlertsSame, RestSame
<1> QED
  BY <1>2, <1>6, <1>7, <1>8, <1>9

\* What a put of a stock row does to both tables.
LEMMA StockPut ==
  ASSUME NEW d, NEW m, Agree(d, m), NEW i \in InventoryRecord,
         NEW dd, dd = SqlPutInventory(d, i), NEW mm, mm = MemPutInventory(m, i)
  PROVE  /\ Ids(mm.inv) = Ids(m.inv) \cup {i.id}
         /\ \A k \in DOMAIN mm.inv :
              \/ mm.inv[k] = i /\ dd.inv[k] = InventoryRow(i)
              \/ /\ k \in DOMAIN m.inv /\ m.inv[k].id # i.id
                 /\ mm.inv[k] = m.inv[k] /\ dd.inv[k] = d.inv[k]
<1>1. d \in FileType /\ m \in MemoryType /\ StockSame(d, m)
  BY DEF Agree
<1>2. PICK r \in InventoryRowType : r = InventoryRow(i) /\ r.id = i.id
  BY StockRowIs
<1>3. PICK v : v = SetRow(d.inv, r)
  OBVIOUS
<1>4. PICK u : u = SetRow(m.inv, i)
  OBVIOUS
<1>5. /\ d.inv \in Seq(InventoryRowType) /\ m.inv \in Seq(InventoryRecord)
      /\ Distinct(m.inv) /\ DOMAIN d.inv = DOMAIN m.inv
      /\ \A k \in DOMAIN m.inv : d.inv[k].id = m.inv[k].id
  BY <1>1 DEF MemoryType, FileType, StockSame
<1>6. Distinct(d.inv)
  BY <1>5 DEF Distinct
<1>7. Ids(u) = Ids(m.inv) \cup {i.id}
  BY <1>4, <1>5, SetRowKeeps
<1>8. \A k \in DOMAIN u : \/ u[k] = i /\ v[k] = r
                          \/ /\ k \in DOMAIN m.inv /\ m.inv[k].id # i.id
                             /\ u[k] = m.inv[k] /\ v[k] = d.inv[k]
  BY <1>2, <1>3, <1>4, <1>5, <1>6, PutAlike
<1>9. /\ SqlPutInventory(d, i) = [d EXCEPT !.inv = v]
      /\ MemPutInventory(m, i) = [m EXCEPT !.inv = u]
  BY <1>2, <1>3, <1>4, UpsertIs DEF SqlPutInventory, MemPutInventory
<1>10. dd.inv = v /\ mm.inv = u
  BY <1>1, <1>9 DEF FileType, MemoryType
<1> QED
  BY <1>2, <1>7, <1>8, <1>10

\* The calls that put no stock row leave the stock alone.
LEMMA StockLeft ==
  ASSUME NEW d, NEW m, Agree(d, m), NEW c \in Call, c.op # "inv"
  PROVE  SqlDo(d, c).inv = d.inv /\ MemDo(m, c).inv = m.inv
BY DEF Call, Agree, FileType, MemoryType, SqlDo, MemDo, SqlPutOpportunity, MemPutOpportunity,
   SqlPutAlert, MemPutAlert, SqlPutHealth, MemPutHealth, SqlSetPnl, MemSetPnl

PatchType == [sku : Nat, patch : Patch, cur : InventoryRecord]

DeskTypeOK == /\ applied \subseteq 1 .. Migration
              /\ ran \in [1 .. Migration -> Nat]
              /\ handle \in {"none", "migrating", "seeding", "ready", "failed"}
              /\ seedAt \in Nat \ {0}
              /\ patching \subseteq PatchType
              /\ raced \subseteq Nat
              /\ calls \in Nat /\ restarts \in Nat

Migrated == /\ \A f \in 1 .. Migration : ran[f] = IF f \in applied THEN 1 ELSE 0
            /\ handle \in {"seeding", "ready"} => applied = 1 .. Migration

\* A patch is of a row that is there, and only a desk that serves has one.
PatchesOK == /\ handle # "ready" => patching = {}
             /\ \A p \in patching : p.cur.id = p.sku /\ p.sku \in Ids(mem.inv)

\* A patch that nothing raced is the only one of its row, which memory holds as
\* the patch will leave it.
PendingOK == \A p \in patching : p.sku \notin raced =>
  /\ \A i \in DOMAIN mem.inv : mem.inv[i].id = p.sku => mem.inv[i] = Patched(p.cur, p.patch)
  /\ \A q \in patching : q.sku = p.sku => q = p

DeskInv == /\ DeskTypeOK /\ Migrated /\ Agree(db, mem) /\ PatchesOK
           /\ PendingOK /\ OnlyRacedPatchesAreLost

SeedSet == {c \in Call : c.op = "inv" => c.row.at = 0 /\ c.row.id \in 1 .. SeedTaken}

LEMMA TakenIs == SeedTaken \in 0 .. 4
<1> DEFINE T == {i \in DOMAIN SeedOpps : SeedOpps[i].taken}
<1>1. PICK n \in Nat : DOMAIN SeedOpps = 1 .. n
  BY RecordAssumption
<1>2. T \in SUBSET (1 .. n) /\ IsFiniteSet(1 .. n)
  BY <1>1, FS_Interval
<1> HIDE DEF T
<1>3. PICK c \in Nat : c = Cardinality(T)
  BY <1>2, FS_Subset, FS_CardinalityType
<1>4. SeedTaken = Min({4, c})
  BY <1>3 DEF SeedTaken, T
<1>5. \E x \in {4, c} : \A y \in {4, c} : x <= y
  OBVIOUS
<1>6. Min({4, c}) \in {4, c} /\ Min({4, c}) <= 4
  BY <1>5 DEF Min
<1> QED
  BY <1>4, <1>6

LEMMA SeedIs == SeedCalls \in Seq(SeedSet)
<1>1. PICK n \in Nat : n = Len(SeedOpps) /\ DOMAIN SeedOpps = 1 .. n
  BY RecordAssumption
<1>2. ASSUME NEW k \in 1 .. 2 * n
      PROVE  SeedFeed(k) \in SeedSet
  <2>1. PICK i : i = (k + 1) \div 2
    OBVIOUS
  <2>2. i \in 1 .. n
    BY <2>1
  <2>3. SeedOpps[i] \in [band : Band \cup {Absent}, score : Nat \cup {Absent}, taken : BOOLEAN]
    <3> DEFINE S == [band : Band \cup {Absent}, score : Nat \cup {Absent}, taken : BOOLEAN]
    <3>1. SeedOpps \in Seq(S)
      BY RecordAssumption
    <3> HIDE DEF S
    <3>2. SeedOpps[i] \in S
      BY <3>1, <2>2, <1>1
    <3> QED
      BY <3>2 DEF S
  <2>4. ToRecord(SeedOpps[i], i) \in OpportunityRecord
    BY <2>2, <2>3 DEF ToRecord, OpportunityRecord, Status
  <2>5. [id |-> i, at |-> 0] \in AlertType
    BY <2>2 DEF AlertType
  <2> QED
    BY <2>1, <2>4, <2>5 DEF SeedFeed, SeedSet, Call
<1>3. ASSUME NEW i \in 1 .. SeedTaken
      PROVE  SeedInventory(i) \in SeedSet
  <2>1. i \in Nat /\ Stage[i] \in {"sold", "listed", "received"}
    BY TakenIs DEF Stage
  <2>2. PICK s \in {"sold", "listed", "received"} : s = Stage[i]
    BY <2>1
  <2>3. SeedInventory(i) = [op |-> "inv", row |-> [id |-> i, at |-> 0, status |-> s,
                             price |-> IF s = "received" THEN Absent ELSE 0]]
    BY <2>2 DEF SeedInventory
  <2> QED
    BY <2>1, <2>3 DEF SeedSet, Call, InventoryRecord, InventoryStatus
<1>4. \A x \in {[op |-> "pnl", row |-> "booked"],
                [op |-> "health", row |-> [id |-> 1, state |-> "ok"]],
                [op |-> "health", row |-> [id |-> 2, state |-> "halted"]]} : x \in SeedSet
  BY DEF SeedSet, Call, HealthType
<1>5. [k \in 1 .. 2 * n |-> SeedFeed(k)] \in Seq(SeedSet)
  <2>1. 2 * n \in Nat /\ [k \in 1 .. 2 * n |-> SeedFeed(k)] \in [1 .. 2 * n -> SeedSet]
    BY <1>2
  <2> QED
    BY <2>1, SeqDef
<1>6. [i \in 1 .. SeedTaken |-> SeedInventory(i)] \in Seq(SeedSet)
  <2>1. SeedTaken \in Nat
    BY TakenIs
  <2>2. [i \in 1 .. SeedTaken |-> SeedInventory(i)] \in [1 .. SeedTaken -> SeedSet]
    BY <1>3
  <2> QED
    BY <2>1, <2>2, SeqDef
<1>7. <<[op |-> "pnl", row |-> "booked"], [op |-> "health", row |-> [id |-> 1, state |-> "ok"]],
        [op |-> "health", row |-> [id |-> 2, state |-> "halted"]]>> \in Seq(SeedSet)
  BY <1>4
<1> QED
  BY <1>1, <1>5, <1>6, <1>7 DEF SeedCalls

LEMMA MinIs ==
  ASSUME NEW S \in SUBSET Nat, S # {}
  PROVE  Min(S) \in S
<1>1. \E x \in S : \A y \in S : ~(<<y, x>> \in OpToRel(<, Nat))
  BY NatLessThanWellFounded, WFMin
<1>2. \A x, y \in Nat : <<y, x>> \in OpToRel(<, Nat) <=> y < x
  BY DEF OpToRel
<1>3. PICK x \in S : \A y \in S : ~(y < x)
  BY <1>1, <1>2
<1>4. \A y \in S : x <= y
  BY <1>3
<1> QED
  BY <1>4 DEF Min

LEMMA DeskInitInv == DeskInit => DeskInv
<1> SUFFICES ASSUME DeskInit PROVE DeskInv
  OBVIOUS
<1>1. DeskTypeOK /\ Migrated
  BY DEF DeskInit, DeskTypeOK, Migrated
<1>2. Agree(db, mem)
  BY AgreeAtFirst DEF DeskInit
<1>3. PatchesOK /\ PendingOK
  BY DEF DeskInit, PatchesOK, PendingOK
<1>4. OnlyRacedPatchesAreLost
  BY DEF DeskInit, EmptyStore, OnlyRacedPatchesAreLost
<1> QED
  BY <1>1, <1>2, <1>3, <1>4 DEF DeskInv

\* Steps that leave the stock and its patches alone.
LEMMA StockKept ==
  ASSUME DeskInv, db'.inv = db.inv, mem'.inv = mem.inv, patching' = patching, raced' = raced
  PROVE  PendingOK' /\ OnlyRacedPatchesAreLost'
BY DEF DeskInv, PendingOK, OnlyRacedPatchesAreLost, Pending

LEMMA InventoryPut ==
  ASSUME DeskInv, NEW i \in InventoryRecord,
         db' = SqlPutInventory(db, i), mem' = MemPutInventory(mem, i),
         patching' = patching, raced' = raced \cup (Pending \cap {i.id})
  PROVE  /\ Agree(db, mem)' /\ PendingOK' /\ OnlyRacedPatchesAreLost'
         /\ \A p \in patching : p.sku \in Ids(mem'.inv)
<1>1. Agree(db, mem)
  BY DEF DeskInv
<1>2. Agree(db', mem')
  BY <1>1, AgreeInventory
<1>3. /\ Ids(mem'.inv) = Ids(mem.inv) \cup {i.id}
      /\ \A k \in DOMAIN mem'.inv :
           \/ mem'.inv[k] = i /\ db'.inv[k] = InventoryRow(i)
           \/ /\ k \in DOMAIN mem.inv /\ mem.inv[k].id # i.id
              /\ mem'.inv[k] = mem.inv[k] /\ db'.inv[k] = db.inv[k]
  BY <1>1, StockPut
<1>4. OnlyRacedPatchesAreLost'
  BY <1>3, StockRowIs DEF DeskInv, OnlyRacedPatchesAreLost, Pending
<1>5. \A p \in patching : p.sku \notin raced' => p.sku # i.id /\ p.sku \notin raced
  BY DEF Pending
<1>6. PendingOK'
  BY <1>3, <1>5 DEF DeskInv, PendingOK
<1>7. \A p \in patching : p.sku \in Ids(mem'.inv)
  BY <1>3 DEF DeskInv, PatchesOK
<1> QED
  BY <1>2, <1>4, <1>6, <1>7

LEMMA StatusLeft ==
  ASSUME NEW d, NEW m, Agree(d, m), NEW id, NEW s
  PROVE  SqlSetStatus(d, id, s).inv = d.inv /\ MemSetStatus(m, id, s).inv = m.inv
BY DEF Agree, FileType, MemoryType, SqlSetStatus, MemSetStatus

\* What patchInventory reads.
LEMMA ReadIs ==
  ASSUME DeskInv, NEW sku, sku \in Ids(mem.inv)
  PROVE  /\ sku \in Ids(db.inv)
         /\ SqlGetInventory(db, sku) \in InventoryRecord
         /\ SqlGetInventory(db, sku).id = sku
         /\ \E k \in DOMAIN mem.inv :
              /\ k = IndexOf(mem.inv, sku) /\ mem.inv[k].id = sku
              /\ SqlGetInventory(db, sku) = RowToInventory(db.inv[k])
         /\ mem.inv[IndexOf(mem.inv, sku)] \in InventoryRecord
         /\ mem.inv[IndexOf(mem.inv, sku)].id = sku
<1>1. /\ db.inv \in Seq(InventoryRowType) /\ mem.inv \in Seq(InventoryRecord)
      /\ Distinct(mem.inv) /\ DOMAIN db.inv = DOMAIN mem.inv
      /\ \A k \in DOMAIN mem.inv : db.inv[k].id = mem.inv[k].id
  BY DEF DeskInv, Agree, StockSame, FileType, MemoryType
<1>2. sku \in Ids(db.inv)
  BY <1>1 DEF Ids
<1>3. PICK j \in DOMAIN db.inv : j = IndexOf(db.inv, sku) /\ db.inv[j].id = sku
  BY <1>1, <1>2, IndexIs
<1>4. PICK k \in DOMAIN mem.inv : k = IndexOf(mem.inv, sku) /\ mem.inv[k].id = sku
  BY <1>1, IndexIs
<1>5. j = k
  BY <1>1, <1>3, <1>4 DEF Distinct
<1>6. SqlGetInventory(db, sku) = RowToInventory(db.inv[k])
  BY <1>3, <1>5 DEF SqlGetInventory
<1>7. /\ RowToInventory(db.inv[k]) \in InventoryRecord
      /\ RowToInventory(db.inv[k]).id = sku
  BY <1>1, <1>3, <1>5, FromStockRow
<1> QED
  BY <1>1, <1>2, <1>4, <1>6, <1>7

LEMMA ReadForPatchKeeps ==
  ASSUME DeskInv, NEW sku \in Nat, NEW patch \in Patch, ReadForPatch(sku, patch)
  PROVE  DeskInv'
<1>1. /\ handle = "ready" /\ calls' = calls + 1
      /\ UNCHANGED <<applied, ran, handle, seedAt, restarts, db>>
      /\ raced' = raced \cup (Pending \cap {sku})
      /\ mem' = MemPatchInventory(mem, sku, patch)
  BY DEF ReadForPatch, Serve
<1>2. Agree(db, mem)
  BY DEF DeskInv
<1>3. Ids(db.inv) = Ids(mem.inv)
  BY <1>2 DEF Agree, StockSame, Ids
<1>4. Pending \subseteq Nat
  BY DEF Pending, DeskInv, DeskTypeOK, PatchType
<1>5. Migrated' /\ raced' \subseteq Nat /\ calls' \in Nat
  BY <1>1, <1>4 DEF DeskInv, DeskTypeOK, Migrated
<1>6. CASE sku \notin Ids(mem.inv)
  <2>1. mem' = mem /\ patching' = patching
    BY <1>1, <1>3, <1>6 DEF MemPatchInventory, ReadForPatch
  <2>2. sku \notin Pending
    BY <1>6 DEF DeskInv, PatchesOK, Pending
  <2>3. raced' = raced
    BY <1>1, <2>2
  <2>4. PendingOK' /\ OnlyRacedPatchesAreLost'
    BY <1>1, <2>1, <2>3, StockKept
  <2> QED
    BY <1>1, <1>2, <1>5, <2>1, <2>3, <2>4 DEF DeskInv, DeskTypeOK, PatchesOK
<1>7. CASE sku \in Ids(mem.inv)
  <2>1. PICK cur \in InventoryRecord : cur = SqlGetInventory(db, sku) /\ cur.id = sku
    BY <1>7, ReadIs
  <2>2. PICK k \in DOMAIN mem.inv : /\ k = IndexOf(mem.inv, sku) /\ mem.inv[k].id = sku
                                    /\ cur = RowToInventory(db.inv[k])
    BY <1>7, <2>1, ReadIs
  <2>3. PICK r \in InventoryRecord : r = Patched(mem.inv[k], patch) /\ r.id = sku
    BY <1>7, <2>2, ReadIs, PatchedIs
  <2>4. mem' = MemPutInventory(mem, r)
    BY <1>1, <1>7, <2>2, <2>3 DEF MemPatchInventory
  <2>5. PICK p \in PatchType : p = [sku |-> sku, patch |-> patch, cur |-> cur]
    BY DEF PatchType
  <2>6. patching' = patching \cup {p}
    BY <1>3, <1>7, <2>1, <2>5 DEF ReadForPatch
  <2>7. /\ Agree(db, mem') /\ DOMAIN mem'.inv = DOMAIN mem.inv
        /\ \A j \in DOMAIN mem.inv : mem'.inv[j] = IF mem.inv[j].id = sku THEN r ELSE mem.inv[j]
    BY <1>2, <1>7, <2>3, <2>4, AgreeMemory
  <2>8. Ids(mem'.inv) = Ids(mem.inv)
    BY <2>3, <2>7 DEF Ids
  <2>9. PatchesOK'
    BY <1>1, <1>7, <2>1, <2>5, <2>6, <2>8 DEF DeskInv, PatchesOK
  <2>10. Pending' = Pending \cup {sku}
    BY <2>5, <2>6 DEF Pending
  <2>11. OnlyRacedPatchesAreLost'
    <3>1. \A j \in DOMAIN mem.inv : mem.inv[j].id # sku => mem'.inv[j] = mem.inv[j]
      BY <2>7
    <3>2. \A j \in DOMAIN mem.inv : mem'.inv[j].id = mem.inv[j].id
      BY <2>3, <2>7
    <3> QED
      BY <1>1, <2>7, <2>10, <3>1, <3>2 DEF DeskInv, OnlyRacedPatchesAreLost
  <2>12. PendingOK'
    <3> SUFFICES ASSUME NEW q \in patching', q.sku \notin raced'
                 PROVE  /\ \A i \in DOMAIN mem'.inv : mem'.inv[i].id = q.sku
                                                      => mem'.inv[i] = Patched(q.cur, q.patch)
                        /\ \A x \in patching' : x.sku = q.sku => x = q
      BY DEF PendingOK
    <3>1. CASE q.sku = sku
      <4>1. sku \notin Pending /\ sku \notin raced
        BY <1>1, <3>1
      <4>2. \A x \in patching : x.sku # sku
        BY <4>1 DEF Pending
      <4>3. q = p
        BY <2>6, <3>1, <4>2
      <4>4. cur = mem.inv[k]
        BY <2>2, <4>1 DEF DeskInv, OnlyRacedPatchesAreLost
      <4>5. Patched(q.cur, q.patch) = r
        BY <2>3, <2>5, <4>3, <4>4
      <4> QED
        BY <2>3, <2>5, <2>6, <2>7, <3>1, <4>2, <4>3, <4>5
    <3>2. CASE q.sku # sku
      <4>1. q \in patching /\ q.sku \notin raced
        BY <1>1, <2>5, <2>6, <3>2
      <4>2. \A i \in DOMAIN mem.inv : mem'.inv[i].id = q.sku => mem'.inv[i] = mem.inv[i]
        BY <2>3, <2>7, <3>2
      <4> QED
        BY <2>5, <2>6, <2>7, <3>2, <4>1, <4>2 DEF DeskInv, PendingOK
    <3> QED
      BY <3>1, <3>2
  <2>13. DeskTypeOK'
    BY <1>1, <1>5, <2>6 DEF DeskInv, DeskTypeOK
  <2> QED
    BY <1>1, <1>5, <2>7, <2>9, <2>11, <2>12, <2>13 DEF DeskInv
<1> QED
  BY <1>6, <1>7

LEMMA WritePatchKeeps ==
  ASSUME DeskInv, NEW p \in patching, WritePatch(p)
  PROVE  DeskInv'
<1>1. /\ db' = SqlPutInventory(db, Patched(p.cur, p.patch))
      /\ patching' = patching \ {p}
      /\ UNCHANGED <<mem, applied, ran, handle, seedAt, raced, calls, restarts>>
  BY DEF WritePatch
<1>2. /\ Agree(db, mem)
      /\ p.cur \in InventoryRecord /\ p.patch \in Patch
      /\ p.cur.id = p.sku /\ p.sku \in Ids(mem.inv)
  BY DEF DeskInv, DeskTypeOK, PatchesOK, PatchType
<1>3. PICK r \in InventoryRecord : r = Patched(p.cur, p.patch) /\ r.id = p.sku
  BY <1>2, PatchedIs
<1>4. /\ Agree(db', mem)
      /\ \A k \in DOMAIN mem.inv : db'.inv[k]
                                 = IF mem.inv[k].id = r.id THEN InventoryRow(r) ELSE db.inv[k]
  BY <1>1, <1>2, <1>3, AgreeFile
<1>5. DeskTypeOK' /\ Migrated' /\ PatchesOK' /\ PendingOK'
  BY <1>1 DEF DeskInv, DeskTypeOK, Migrated, PatchesOK, PendingOK
<1>6. OnlyRacedPatchesAreLost'
  <2> SUFFICES ASSUME NEW k \in DOMAIN mem.inv, mem.inv[k].id \notin raced \cup Pending'
               PROVE  RowToInventory(db'.inv[k]) = mem.inv[k]
    BY <1>1 DEF OnlyRacedPatchesAreLost
  <2>1. CASE mem.inv[k].id = p.sku
    <3>1. mem.inv[k] = r
      BY <1>3, <2>1 DEF DeskInv, PendingOK
    <3> QED
      BY <1>3, <1>4, <3>1, StockRowIs
  <2>2. CASE mem.inv[k].id # p.sku
    <3>1. mem.inv[k].id \notin Pending
      BY <1>1, <2>2 DEF Pending
    <3> QED
      BY <1>3, <1>4, <2>2, <3>1 DEF DeskInv, OnlyRacedPatchesAreLost
  <2> QED
    BY <2>1, <2>2
<1> QED
  BY <1>1, <1>4, <1>5, <1>6 DEF DeskInv

LEMMA SeedKeeps ==
  ASSUME DeskInv, SeedDemo
  PROVE  DeskInv'
<1>1. /\ handle = "seeding" /\ patching = {} /\ Pending = {}
      /\ UNCHANGED <<applied, ran, patching, raced, calls, restarts>>
  BY DEF SeedDemo, DeskInv, PatchesOK, Pending
<1>2. CASE seedAt <= Len(SeedCalls)
  <2>1. PICK c \in SeedSet : c = SeedCalls[seedAt]
    BY <1>2, SeedIs DEF DeskInv, DeskTypeOK
  <2>2. /\ mem' = MemDo(mem, c) /\ db' = SqlDo(db, c)
        /\ seedAt' = seedAt + 1 /\ handle' = handle
    BY <1>2, <2>1 DEF SeedDemo
  <2>3. c \in Call /\ Agree(db, mem)
    BY <2>1 DEF SeedSet, DeskInv
  <2>4. Agree(db', mem')
    BY <2>2, <2>3, AgreeCall
  <2>5. DeskTypeOK' /\ Migrated' /\ PatchesOK'
    BY <1>1, <2>2 DEF DeskInv, DeskTypeOK, Migrated, PatchesOK
  <2>6. PendingOK' /\ OnlyRacedPatchesAreLost'
    <3>1. CASE c.op = "inv"
      <4>1. c.row \in InventoryRecord
        BY <2>3, <3>1 DEF Call
      <4>2. db' = SqlPutInventory(db, c.row) /\ mem' = MemPutInventory(mem, c.row)
        BY <2>2, <3>1 DEF SqlDo, MemDo
      <4>3. raced' = raced \cup (Pending \cap {c.row.id})
        BY <1>1
      <4> QED
        BY <1>1, <4>1, <4>2, <4>3, InventoryPut
    <3>2. CASE c.op # "inv"
      <4>1. db'.inv = db.inv /\ mem'.inv = mem.inv
        BY <2>2, <2>3, <3>2, StockLeft
      <4> QED
        BY <1>1, <4>1, StockKept
    <3> QED
      BY <3>1, <3>2
  <2> QED
    BY <2>4, <2>5, <2>6 DEF DeskInv
<1>3. CASE ~(seedAt <= Len(SeedCalls))
  BY <1>1, <1>3 DEF SeedDemo, DeskInv, DeskTypeOK, Migrated, PatchesOK, PendingOK,
     OnlyRacedPatchesAreLost, Pending
<1> QED
  BY <1>2, <1>3

LEMMA MigrateKeeps ==
  ASSUME DeskInv, Migrate
  PROVE  DeskInv'
<1>1. UNCHANGED <<db, mem, patching, raced, calls, restarts>>
  BY DEF Migrate
<1>2. Migrated' /\ DeskTypeOK' /\ PatchesOK'
  <2>1. CASE 1 .. Migration \ applied # {}
    <3>1. PICK f : f = Min(1 .. Migration \ applied)
      OBVIOUS
    <3>2. f \in 1 .. Migration \ applied
      BY <2>1, <3>1, MinIs
    <3>3. /\ applied' = applied \cup {f}
          /\ ran' = [ran EXCEPT ![f] = @ + 1]
          /\ handle = "migrating" /\ handle' = handle /\ seedAt' = seedAt
      BY <2>1, <3>1 DEF Migrate
    <3> QED
      BY <1>1, <3>2, <3>3 DEF DeskInv, DeskTypeOK, Migrated, PatchesOK
  <2>2. CASE 1 .. Migration \ applied = {}
    <3>1. /\ handle = "migrating" /\ handle' = "seeding" /\ seedAt' = 1
          /\ UNCHANGED <<applied, ran>>
      BY <2>2 DEF Migrate
    <3>2. applied = 1 .. Migration
      BY <2>2 DEF DeskInv, DeskTypeOK
    <3>3. DeskTypeOK' /\ PatchesOK'
      BY <1>1, <3>1 DEF DeskInv, DeskTypeOK, PatchesOK
    <3>4. Migrated'
      BY <3>1, <3>2 DEF DeskInv, Migrated
    <3> QED
      BY <3>3, <3>4
  <2> QED
    BY <2>1, <2>2
<1> QED
  BY <1>1, <1>2, StockKept DEF DeskInv

LEMMA DeskStep == DeskInv /\ [DeskNext]_deskVars => DeskInv'
<1> SUFFICES ASSUME DeskInv, [DeskNext]_deskVars
             PROVE  DeskInv'
  OBVIOUS
<1>1. CASE Open \/ OpenFails
  BY <1>1 DEF Open, OpenFails, DeskInv, DeskTypeOK, Migrated, PatchesOK, PendingOK,
     OnlyRacedPatchesAreLost, Pending
<1>2. CASE Restart
  <2>1. /\ handle' = "none" /\ seedAt' = 1 /\ patching' = {} /\ restarts' = restarts + 1
        /\ raced' = raced \cup Pending /\ UNCHANGED <<db, mem, applied, ran, calls>>
    BY <1>2 DEF Restart
  <2>2. Pending \subseteq Nat
    BY DEF Pending, DeskInv, DeskTypeOK, PatchType
  <2>3. DeskTypeOK' /\ Migrated' /\ PatchesOK' /\ PendingOK'
    BY <2>1, <2>2 DEF DeskInv, DeskTypeOK, Migrated, PatchesOK, PendingOK
  <2>4. OnlyRacedPatchesAreLost'
    BY <2>1 DEF DeskInv, OnlyRacedPatchesAreLost
  <2> QED
    BY <2>1, <2>3, <2>4 DEF DeskInv
<1>3. ASSUME NEW o \in Opportunity, PutOpportunity(o)
      PROVE  DeskInv'
  <2>1. /\ db' = SqlPutOpportunity(db, o) /\ mem' = MemPutOpportunity(mem, o)
        /\ calls' = calls + 1
        /\ UNCHANGED <<patching, raced, applied, ran, handle, seedAt, restarts>>
    BY <1>3 DEF PutOpportunity, Serve
  <2>2. o \in OpportunityRecord /\ Agree(db, mem)
    BY RecordAssumption DEF DeskInv
  <2>3. Agree(db', mem')
    BY <2>1, <2>2, AgreeOpportunity
  <2>4. db'.inv = db.inv /\ mem'.inv = mem.inv
    BY <2>1, <2>2 DEF Agree, FileType, MemoryType, SqlPutOpportunity, MemPutOpportunity
  <2>5. PendingOK' /\ OnlyRacedPatchesAreLost'
    BY <2>1, <2>4, StockKept
  <2> QED
    BY <2>1, <2>3, <2>4, <2>5 DEF DeskInv, DeskTypeOK, Migrated, PatchesOK
<1>4. ASSUME NEW id, NEW s \in {"approved", "rejected"}, Decide(id, s)
      PROVE  DeskInv'
  <2>1. /\ db' = SqlSetStatus(db, id, s) /\ mem' = MemSetStatus(mem, id, s)
        /\ calls' = calls + 1
        /\ UNCHANGED <<patching, raced, applied, ran, handle, seedAt, restarts>>
    BY <1>4 DEF Decide, Serve
  <2>2. s \in Status /\ Agree(db, mem)
    BY DEF Status, DeskInv
  <2>3. Agree(db', mem')
    BY <2>1, <2>2, AgreeStatus
  <2>4. db'.inv = db.inv /\ mem'.inv = mem.inv
    BY <2>1, <2>2, StatusLeft
  <2>5. PendingOK' /\ OnlyRacedPatchesAreLost'
    BY <2>1, <2>4, StockKept
  <2> QED
    BY <2>1, <2>3, <2>4, <2>5 DEF DeskInv, DeskTypeOK, Migrated, PatchesOK
<1>5. ASSUME NEW i \in Inventory, PutInventory(i)
      PROVE  DeskInv'
  <2>1. /\ db' = SqlPutInventory(db, i) /\ mem' = MemPutInventory(mem, i)
        /\ raced' = raced \cup (Pending \cap {i.id}) /\ calls' = calls + 1
        /\ UNCHANGED <<patching, applied, ran, handle, seedAt, restarts>>
    BY <1>5 DEF PutInventory, Serve
  <2>2. i \in InventoryRecord /\ i.id \in Nat
    BY RecordAssumption DEF InventoryRecord
  <2>3. /\ Agree(db, mem)' /\ PendingOK' /\ OnlyRacedPatchesAreLost'
        /\ \A p \in patching : p.sku \in Ids(mem'.inv)
    BY <2>1, <2>2, InventoryPut
  <2>4. PatchesOK'
    BY <2>1, <2>3 DEF DeskInv, PatchesOK
  <2>5. raced' \subseteq Nat
    BY <2>1, <2>2 DEF DeskInv, DeskTypeOK
  <2>6. DeskTypeOK' /\ Migrated'
    BY <2>1, <2>5 DEF DeskInv, DeskTypeOK, Migrated
  <2> QED
    BY <2>3, <2>4, <2>6 DEF DeskInv
<1>6. ASSUME NEW sku \in {i.id : i \in Inventory}, NEW patch \in Patch, ReadForPatch(sku, patch)
      PROVE  DeskInv'
  <2>1. sku \in Nat
    BY RecordAssumption DEF InventoryRecord
  <2> QED
    BY <1>6, <2>1, ReadForPatchKeeps
<1>7. CASE UNCHANGED deskVars
  BY <1>7 DEF deskVars, DeskInv, DeskTypeOK, Migrated, PatchesOK, PendingOK,
     OnlyRacedPatchesAreLost, Pending
<1> QED
  BY <1>1, <1>2, <1>3, <1>4, <1>5, <1>6, <1>7, SeedKeeps, MigrateKeeps, WritePatchKeeps
     DEF DeskNext

\* The file and the in-memory store hold the same rows at every step of a desk
\* that migrates, seeds, serves, stops and starts again, for any rows and calls;
\* what they may differ in is the skus a patch of which was overtaken.
THEOREM DeskInductive == DeskSpec => []DeskInv
<1> QED
  BY DeskInitInv, DeskStep, PTL DEF DeskSpec

\* A row of the inventory differs only when it was written while a patch of it
\* waited between its read and its put (sqlite.ts:276-282).
THEOREM RacedOnly == DeskSpec => []OnlyRacedPatchesAreLost
<1>1. DeskInv => OnlyRacedPatchesAreLost
  BY DEF DeskInv
<1> QED
  BY <1>1, DeskInductive, PTL

\* No file of db/sqlite is executed twice, whatever restarts come, and a desk
\* that seeds or serves has executed them all (sqlite.ts:44-76).
THEOREM MigrationsRunOnce == DeskSpec => []MigratedOnce
<1>1. DeskInv => MigratedOnce
  <2> SUFFICES ASSUME DeskInv, NEW f \in 1 .. Migration
               PROVE  ran[f] <= 1 /\ (handle \in {"seeding", "ready"} => ran[f] = 1)
    BY DEF MigratedOnce
  <2>1. ran[f] = IF f \in applied THEN 1 ELSE 0
    BY DEF DeskInv, Migrated
  <2>2. handle \in {"seeding", "ready"} => f \in applied
    BY DEF DeskInv, Migrated
  <2> QED
    BY <2>1, <2>2
<1> QED
  BY <1>1, DeskInductive, PTL

\* A sku is received once: receivedAt is readonly (records.ts:50), and the seeded
\* rows have the time of the demo.
ReceivedOnce == \A i \in Inventory : /\ i.id \in 1 .. SeedTaken => i.at = 0
                                     /\ \A j \in Inventory : j.id = i.id => j.at = i.at

ReceivedAt(sku) == IF sku \in 1 .. SeedTaken THEN 0
                   ELSE (CHOOSE i \in Inventory : i.id = sku).at

Dated == /\ \A k \in DOMAIN mem.inv : /\ mem.inv[k].at = ReceivedAt(mem.inv[k].id)
                                      /\ db.inv[k].at = ReceivedAt(mem.inv[k].id)
         /\ \A p \in patching : p.cur.at = ReceivedAt(p.sku)

LEMMA ReceivedIs ==
  ASSUME ReceivedOnce, NEW i \in Inventory
  PROVE  i.at = ReceivedAt(i.id)
<1>1. CASE i.id \in 1 .. SeedTaken
  BY <1>1 DEF ReceivedOnce, ReceivedAt
<1>2. CASE i.id \notin 1 .. SeedTaken
  <2>1. PICK j \in Inventory : j = (CHOOSE x \in Inventory : x.id = i.id) /\ j.id = i.id
    OBVIOUS
  <2> QED
    BY <1>2, <2>1 DEF ReceivedOnce, ReceivedAt
<1> QED
  BY <1>1, <1>2

LEMMA DatedPut ==
  ASSUME DeskInv, Dated, NEW i \in InventoryRecord, i.at = ReceivedAt(i.id),
         db' = SqlPutInventory(db, i), mem' = MemPutInventory(mem, i), patching' = patching
  PROVE  Dated'
<1>1. \A k \in DOMAIN mem'.inv :
        \/ mem'.inv[k] = i /\ db'.inv[k] = InventoryRow(i)
        \/ /\ k \in DOMAIN mem.inv /\ mem.inv[k].id # i.id
           /\ mem'.inv[k] = mem.inv[k] /\ db'.inv[k] = db.inv[k]
  BY StockPut DEF DeskInv
<1> QED
  BY <1>1, StockRowIs DEF Dated

LEMMA DatedStep ==
  ASSUME ReceivedOnce, DeskInv, Dated, [DeskNext]_deskVars
  PROVE  Dated'
<1>1. CASE Open \/ OpenFails \/ Restart \/ Migrate \/ UNCHANGED deskVars
  BY <1>1 DEF Open, OpenFails, Restart, Migrate, deskVars, Dated
<1>2. CASE SeedDemo
  <2>1. CASE seedAt <= Len(SeedCalls)
    <3>1. PICK c \in SeedSet : c = SeedCalls[seedAt]
      BY <2>1, SeedIs DEF DeskInv, DeskTypeOK
    <3>2. mem' = MemDo(mem, c) /\ db' = SqlDo(db, c) /\ patching' = patching
      BY <1>2, <2>1, <3>1 DEF SeedDemo
    <3>3. c \in Call /\ Agree(db, mem)
      BY <3>1 DEF SeedSet, DeskInv
    <3>4. CASE c.op = "inv"
      <4>1. c.row \in InventoryRecord
        BY <3>3, <3>4 DEF Call
      <4>2. c.row.at = ReceivedAt(c.row.id)
        BY <3>1, <3>4 DEF SeedSet, ReceivedAt
      <4>3. db' = SqlPutInventory(db, c.row) /\ mem' = MemPutInventory(mem, c.row)
        BY <3>2, <3>4 DEF SqlDo, MemDo
      <4> QED
        BY <3>2, <4>1, <4>2, <4>3, DatedPut
    <3>5. CASE c.op # "inv"
      <4>1. db'.inv = db.inv /\ mem'.inv = mem.inv
        BY <3>2, <3>3, <3>5, StockLeft
      <4> QED
        BY <3>2, <4>1 DEF Dated
    <3> QED
      BY <3>4, <3>5
  <2>2. CASE ~(seedAt <= Len(SeedCalls))
    BY <1>2, <2>2 DEF SeedDemo, Dated
  <2> QED
    BY <2>1, <2>2
<1>3. ASSUME NEW o \in Opportunity, PutOpportunity(o)
      PROVE  Dated'
  <2>1. /\ db' = SqlPutOpportunity(db, o) /\ mem' = MemPutOpportunity(mem, o)
        /\ patching' = patching
    BY <1>3 DEF PutOpportunity
  <2>2. db'.inv = db.inv /\ mem'.inv = mem.inv
    BY <2>1 DEF DeskInv, Agree, FileType, MemoryType, SqlPutOpportunity, MemPutOpportunity
  <2> QED
    BY <2>1, <2>2 DEF Dated
<1>4. ASSUME NEW id, NEW s, Decide(id, s)
      PROVE  Dated'
  <2>1. /\ db' = SqlSetStatus(db, id, s) /\ mem' = MemSetStatus(mem, id, s)
        /\ patching' = patching
    BY <1>4 DEF Decide
  <2>2. db'.inv = db.inv /\ mem'.inv = mem.inv
    BY <2>1, StatusLeft DEF DeskInv
  <2> QED
    BY <2>1, <2>2 DEF Dated
<1>5. ASSUME NEW i \in Inventory, PutInventory(i)
      PROVE  Dated'
  <2>1. /\ db' = SqlPutInventory(db, i) /\ mem' = MemPutInventory(mem, i)
        /\ patching' = patching
    BY <1>5 DEF PutInventory
  <2>2. i \in InventoryRecord
    BY RecordAssumption
  <2> QED
    BY <2>1, <2>2, ReceivedIs, DatedPut
<1>6. ASSUME NEW sku \in {i.id : i \in Inventory}, NEW patch \in Patch, ReadForPatch(sku, patch)
      PROVE  Dated'
  <2>1. UNCHANGED db /\ mem' = MemPatchInventory(mem, sku, patch)
    BY <1>6 DEF ReadForPatch
  <2>2. Agree(db, mem) /\ Ids(db.inv) = Ids(mem.inv)
    BY DEF DeskInv, Agree, StockSame, Ids
  <2>3. CASE sku \notin Ids(mem.inv)
    BY <1>6, <2>1, <2>2, <2>3 DEF ReadForPatch, MemPatchInventory, Dated
  <2>4. CASE sku \in Ids(mem.inv)
    <3>1. PICK cur \in InventoryRecord : cur = SqlGetInventory(db, sku) /\ cur.id = sku
      BY <2>4, ReadIs
    <3>2. PICK k \in DOMAIN mem.inv : /\ k = IndexOf(mem.inv, sku) /\ mem.inv[k].id = sku
                                      /\ cur = RowToInventory(db.inv[k])
      BY <2>4, <3>1, ReadIs
    <3>3. PICK r \in InventoryRecord : /\ r = Patched(mem.inv[k], patch)
                                       /\ r.id = sku /\ r.at = mem.inv[k].at
      BY <2>4, <3>2, ReadIs, PatchedIs
    <3>4. mem' = MemPutInventory(mem, r)
      BY <2>1, <2>4, <3>2, <3>3 DEF MemPatchInventory
    <3>5. /\ DOMAIN mem'.inv = DOMAIN mem.inv
          /\ \A j \in DOMAIN mem.inv : mem'.inv[j] = IF mem.inv[j].id = sku THEN r ELSE mem.inv[j]
      BY <2>2, <2>4, <3>3, <3>4, AgreeMemory
    <3>6. cur.at = db.inv[k].at
      <4>1. db.inv[k] \in InventoryRowType
        BY <2>2, <3>2 DEF Agree, StockSame, FileType
      <4> QED
        BY <3>2, <4>1, FromStockRow
    <3>7. patching' = patching \cup {[sku |-> sku, patch |-> patch, cur |-> cur]}
      BY <1>6, <2>2, <2>4, <3>1 DEF ReadForPatch
    <3>8. r.at = ReceivedAt(sku) /\ cur.at = ReceivedAt(sku)
      BY <3>2, <3>3, <3>6 DEF Dated
    <3>9. \A j \in DOMAIN mem'.inv : /\ mem'.inv[j].at = ReceivedAt(mem'.inv[j].id)
                                     /\ db'.inv[j].at = ReceivedAt(mem'.inv[j].id)
      BY <2>1, <3>3, <3>5, <3>8 DEF Dated
    <3>10. \A p \in patching' : p.cur.at = ReceivedAt(p.sku)
      BY <3>7, <3>8 DEF Dated
    <3> QED
      BY <3>9, <3>10 DEF Dated
  <2> QED
    BY <2>3, <2>4
<1>7. ASSUME NEW p \in patching, WritePatch(p)
      PROVE  Dated'
  <2>1. /\ db' = SqlPutInventory(db, Patched(p.cur, p.patch)) /\ mem' = mem
        /\ patching' = patching \ {p}
    BY <1>7 DEF WritePatch
  <2>2. /\ Agree(db, mem)
        /\ p.cur \in InventoryRecord /\ p.patch \in Patch
        /\ p.cur.id = p.sku /\ p.sku \in Ids(mem.inv)
    BY DEF DeskInv, DeskTypeOK, PatchesOK, PatchType
  <2>3. PICK r \in InventoryRecord : /\ r = Patched(p.cur, p.patch)
                                     /\ r.id = p.sku /\ r.at = p.cur.at
    BY <2>2, PatchedIs
  <2>4. \A k \in DOMAIN mem.inv : db'.inv[k]
                                 = IF mem.inv[k].id = r.id THEN InventoryRow(r) ELSE db.inv[k]
    BY <2>1, <2>2, <2>3, AgreeFile
  <2>5. r.at = ReceivedAt(r.id) /\ InventoryRow(r).at = r.at
    BY <2>3, StockRowIs DEF Dated
  <2> QED
    BY <2>1, <2>4, <2>5 DEF Dated
<1> QED
  BY <1>1, <1>2, <1>3, <1>4, <1>5, <1>6, <1>7 DEF DeskNext

LEMMA ReadsAgree ==
  ASSUME DeskInv, Dated
  PROVE  SameReads
<1>1. /\ Agree(db, mem) /\ db \in FileType /\ mem \in MemoryType
      /\ FeedSame(db, mem) /\ StockSame(db, mem) /\ AlertsSame(db, mem) /\ RestSame(db, mem)
  BY DEF DeskInv, Agree
<1>2. /\ db.opps \in Seq(OpportunityRowType) /\ db.inv \in Seq(InventoryRowType)
      /\ db.alerts \in Seq(AlertType)
      /\ mem.opps \in Seq(OpportunityRecord) /\ mem.inv \in Seq(InventoryRecord)
      /\ mem.alerts \in Seq(AlertType)
  BY <1>1 DEF FileType, MemoryType
<1>3. /\ DOMAIN db.opps = DOMAIN mem.opps
      /\ \A k \in DOMAIN mem.opps : /\ db.opps[k].id = mem.opps[k].id
                                     /\ RowToOpportunity(db.opps[k]) = mem.opps[k]
  BY <1>1, <1>2, RowIs DEF FeedSame
<1>4. Rows(db.opps, RowToOpportunity) = mem.opps
  BY <1>2, <1>3 DEF Rows
<1>5. \A f : SqlList(db, f) = MemList(mem, f)
  BY <1>4 DEF SqlList, MemList
<1>6. SqlListHealth(db) = MemListHealth(mem) /\ SqlGetPnl(db) = mem.pnl
  BY <1>1 DEF RestSame, SqlListHealth, MemListHealth, SqlGetPnl, FileType, EmptyStore
<1>7. \A id \in Ids(mem.opps) : SqlGetOpportunity(db, id) = MemGetOpportunity(mem, id)
  <2>1. TAKE id \in Ids(mem.opps)
  <2>2. Ids(db.opps) = Ids(mem.opps)
    BY <1>3 DEF Ids
  <2>3. PICK j \in DOMAIN db.opps : j = IndexOf(db.opps, id) /\ db.opps[j].id = id
    BY <1>2, <2>2, IndexIs
  <2>4. PICK k \in DOMAIN mem.opps : k = IndexOf(mem.opps, id) /\ mem.opps[k].id = id
    BY <1>2, IndexIs
  <2>5. j = k
    BY <1>1, <1>3, <2>3, <2>4 DEF FeedSame, Distinct
  <2> QED
    BY <1>3, <2>3, <2>4, <2>5 DEF SqlGetOpportunity, MemGetOpportunity
<1>8. PICK A : A = Rows(db.inv, RowToInventory)
  OBVIOUS
<1>9. PICK n \in Nat : n = Len(mem.inv) /\ DOMAIN mem.inv = 1 .. n
  BY <1>2
<1>10. /\ DOMAIN A = 1 .. n
       /\ \A k \in 1 .. n : /\ A[k].at \in Nat /\ mem.inv[k].at = A[k].at
                            /\ A[k].id = mem.inv[k].id
  <2>1. DOMAIN A = 1 .. n /\ \A k \in 1 .. n : A[k] = RowToInventory(db.inv[k])
    BY <1>1, <1>8, <1>9 DEF Rows, StockSame
  <2>2. \A k \in 1 .. n : /\ A[k] \in InventoryRecord
                          /\ A[k].id = db.inv[k].id /\ A[k].at = db.inv[k].at
    BY <1>1, <1>2, <1>9, <2>1, FromStockRow DEF StockSame
  <2> QED
    BY <1>1, <1>9, <2>1, <2>2 DEF StockSame, Dated, InventoryRecord
<1>11. PICK o : o = OldestFirst(A) /\ o = OldestFirst(mem.inv) /\ \A k \in 1 .. n : o[k] \in 1 .. n
  BY <1>9, <1>10, SameOrder
<1>12. /\ SqlListInventory(db) = [k \in 1 .. n |-> A[o[k]]]
       /\ MemListInventory(mem) = [k \in 1 .. n |-> mem.inv[o[k]]]
  BY <1>8, <1>9, <1>10, <1>11, InventoryOrder DEF SqlListInventory, MemListInventory
<1>13. [i \in DOMAIN db.inv |-> SqlListInventory(db)[i].id]
       = [i \in DOMAIN mem.inv |-> MemListInventory(mem)[i].id]
  BY <1>1, <1>9, <1>10, <1>11, <1>12 DEF StockSame
<1>14. Len(SqlListInventory(db)) = Len(MemListInventory(mem))
  BY <1>12
<1>15. Summary(SqlList(db, All), SqlListInventory(db))
       = Summary(MemList(mem, All), MemListInventory(mem))
  BY <1>5, <1>14 DEF Summary
<1>16. \A t \in Seq(AlertType) : ToSet(SortAlerts(t)) = ToSet(t)
  <2>1. TAKE t \in Seq(AlertType)
  <2>2. Len(t) \in Nat /\ DOMAIN t = 1 .. Len(t) /\ \A k \in 1 .. Len(t) : t[k] \in AlertType
    OBVIOUS
  <2>3. \A k \in 1 .. Len(t) : t[k].at = 0
    BY <2>2 DEF AlertType
  <2> QED
    BY <2>2, <2>3, AllListed
<1>17. ToSet(SqlListAlerts(db)) = ToSet(MemListAlerts(mem))
  BY <1>1, <1>2, <1>16 DEF AlertsSame, SqlListAlerts, MemListAlerts
<1>18. Len(db.alerts) = Cardinality(Ids(mem.alerts))
  <2>1. PICK t \in Seq(AlertType) : t = db.alerts
    BY <1>2
  <2>2. Ids(mem.alerts) = {a.id : a \in ToSet(mem.alerts)}
    BY DEF Ids, ToSet
  <2>3. Ids(t) = {a.id : a \in ToSet(t)}
    BY DEF Ids, ToSet
  <2>4. Ids(t) = Ids(mem.alerts)
    BY <1>1, <2>1, <2>2, <2>3 DEF AlertsSame
  <2>5. PICK l \in Nat : l = Len(t) /\ DOMAIN t = 1 .. l
    OBVIOUS
  <2>6. PICK f : f = [k \in 1 .. l |-> t[k].id]
    OBVIOUS
  <2>7. f \in Bijection(1 .. l, Ids(t))
    <3>1. Ids(t) = {t[k].id : k \in 1 .. l}
      BY <2>5 DEF Ids
    <3>2. f \in [1 .. l -> Ids(t)]
      BY <2>6, <3>1
    <3>3. \A j, k \in 1 .. l : f[j] = f[k] => j = k
      BY <1>1, <2>1, <2>5, <2>6 DEF AlertsSame, Distinct
    <3>4. \A x \in Ids(t) : \E k \in 1 .. l : f[k] = x
      BY <2>6, <3>1
    <3> QED
      BY <3>2, <3>3, <3>4 DEF Bijection, Injection, Surjection, IsInjective
  <2>8. IsFiniteSet(1 .. l) /\ Cardinality(1 .. l) = l
    BY FS_Interval
  <2>9. Cardinality(Ids(t)) = l
    BY <2>7, <2>8, FS_Bijection DEF ExistsBijection
  <2> QED
    BY <2>1, <2>4, <2>5, <2>9
<1> QED
  BY <1>5, <1>6, <1>7, <1>13, <1>15, <1>17, <1>18 DEF SameReads

\* Every list and every read by key answers alike in both stores (query.ts:33-62),
\* the sorts being determined by the rows although they are stable only by place.
\* ReceivedOnce is needed: a raced patch could put back an earlier receivedAt and
\* so reorder the stock list.
THEOREM ReadsAreSame ==
  ASSUME ReceivedOnce
  PROVE  DeskSpec => []SameReads
<1>1. DeskInit => Dated
  BY DEF DeskInit, EmptyStore, Dated
<1>2. DeskInv /\ Dated /\ [DeskNext]_deskVars => Dated'
  BY DatedStep
<1>3. DeskSpec => [](DeskInv /\ Dated)
  BY <1>1, <1>2, DeskInitInv, DeskStep, PTL DEF DeskSpec
<1>4. DeskInv /\ Dated => SameReads
  BY ReadsAgree
<1> QED
  BY <1>3, <1>4, PTL
================================================================================
