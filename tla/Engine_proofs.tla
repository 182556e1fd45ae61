----------------------------- MODULE Engine_proofs -----------------------------
(***************************************************************************)
(* The engine for every set of runs, calls, listings, contents and caps:   *)
(* its types, the price histories, and that a listing is taken up by the   *)
(* run that stored it first and alerted at most once, and that the daily   *)
(* cap holds up to the calls that overlap.                                 *)
(***************************************************************************)
EXTENDS Engine, FiniteSetTheorems, TLAPS

\* A call works on a listing or on none; only runs poll and alert.
PlaceOK == \A c \in Call :
  /\ at[c] \in {"idle", "polling", "returned"} => item[c] = NoKey
  /\ at[c] \in Working => item[c] \in Key
  /\ at[c] \in {"polling", "alerting"} => c \in Run
  /\ at[c] = "alerting" => item[c] \in opps[c]

\* A run takes up exactly the listings it created.
TakenUpByCreator == \A k \in Key, r \in Run : TakesUp(r, k) <=> creator[k] = r

\* Nothing is alerted twice, and what a run is at work on not at all.
AlertedOnce == /\ \A k \in Key : sent[k] <= 1
               /\ \A r \in Run : at[r] \in Working => sent[item[r]] = 0

\* An unknown listing has no creator and was never alerted.
UnknownIsUntouched == \A k \in Key : Created(k) => creator[k] = NoCall /\ sent[k] = 0

EngineOK == /\ TypeOK /\ PlaceOK /\ TakenUpByCreator
            /\ AlertedOnce /\ UnknownIsUntouched /\ TakenIsAlerted

-------------------------------------------------------------------------------
(***************************************************************************)
(* The store.                                                              *)
(***************************************************************************)
LEMMA UpsertKeepsTypes ==
  ASSUME StoreTypeOK, NEW k \in Key, NEW x \in Content, Upsert(k, x)
  PROVE  /\ StoreTypeOK'
         /\ \A j \in Key : Created(j)' <=> Created(j) /\ j # k
<1>1. store' = [store EXCEPT ![k] = x] /\ x # NoContent
  BY StoreAssumption DEF Upsert
<1>2. Price[x] \in Nat
  BY StoreAssumption
<1>3. store' \in [Key -> Content \cup {NoContent}]
  BY <1>1 DEF StoreTypeOK
<1>4. events' \in [Key -> Seq(Nat)]
  <2>1. Append(events[k], Price[x]) \in Seq(Nat)
    BY <1>2 DEF StoreTypeOK
  <2> QED
    BY <2>1 DEF Upsert, StoreTypeOK
<1>5. \A j \in Key : Created(j)' <=> Created(j) /\ j # k
  BY <1>1 DEF Created, StoreTypeOK
<1> QED
  BY <1>3, <1>4, <1>5 DEF StoreTypeOK

LEMMA UpsertKeepsHistory ==
  ASSUME StoreTypeOK, PriceHistoryIsTrue, NEW k \in Key, NEW x \in Content,
         Upsert(k, x)
  PROVE  PriceHistoryIsTrue'
<1> DEFINE Told(e, shown) == /\ e # <<>> /\ e[Len(e)] = Price[shown]
                             /\ \A i \in 1 .. Len(e) - 1 : e[i] # e[i + 1]
<1>1. store'[k] = x /\ x # NoContent /\ Price[x] \in Nat
  BY StoreAssumption DEF Upsert, StoreTypeOK
<1>2. \A j \in Key \ {k} : store'[j] = store[j] /\ events'[j] = events[j]
  BY DEF Upsert, StoreTypeOK
<1>3. ASSUME PriceMoved(k, x) PROVE Told(events'[k], x)
  <2>1. events'[k] = Append(events[k], Price[x]) /\ events[k] \in Seq(Nat)
    BY <1>3 DEF Upsert, StoreTypeOK
  <2>2. CASE Created(k)
    <3>1. events[k] = <<>>
      BY <2>2 DEF PriceHistoryIsTrue
    <3> QED
      BY <1>1, <2>1, <3>1
  <2>3. CASE ~Created(k)
    <3>1. events[k] # <<>> /\ events[k][Len(events[k])] # Price[x]
      BY <1>3, <2>3 DEF PriceMoved, PriceHistoryIsTrue
    <3>2. \A i \in 1 .. Len(events[k]) - 1 : events[k][i] # events[k][i + 1]
      BY DEF PriceHistoryIsTrue
    <3>3. /\ Len(events'[k]) = Len(events[k]) + 1 /\ Len(events[k]) \in Nat
          /\ events'[k][Len(events[k]) + 1] = Price[x]
          /\ \A i \in 1 .. Len(events[k]) : events'[k][i] = events[k][i]
      BY <1>1, <2>1
    <3>4. ASSUME NEW i \in 1 .. Len(events'[k]) - 1
          PROVE  events'[k][i] # events'[k][i + 1]
      <4>1. CASE i = Len(events[k])
        BY <3>1, <3>3, <4>1
      <4>2. CASE i # Len(events[k])
        <5>1. i \in 1 .. Len(events[k]) - 1 /\ i + 1 \in 1 .. Len(events[k])
          BY <3>3, <4>2
        <5> QED
          BY <3>2, <3>3, <5>1
      <4> QED
        BY <4>1, <4>2
    <3>5. events'[k] # <<>>
      BY <3>3
    <3>6. events'[k][Len(events'[k])] = Price[x]
      BY <3>3
    <3> QED
      BY <3>4, <3>5, <3>6
  <2> QED
    BY <2>2, <2>3
<1>4. ASSUME ~PriceMoved(k, x) PROVE Told(events'[k], x)
  <2>1. events'[k] = events[k] /\ ~Created(k) /\ Price[store[k]] = Price[x]
    BY <1>4 DEF Upsert, PriceMoved
  <2> QED
    BY <2>1 DEF PriceHistoryIsTrue
<1>5. Told(events'[k], store'[k])
  BY <1>1, <1>3, <1>4
<1>6. ~Created(k)'
  BY <1>1 DEF Created
<1>7. \A j \in Key \ {k} : Created(j)' <=> Created(j)
  BY <1>2 DEF Created
<1> HIDE DEF Told
<1>8. ASSUME NEW j \in Key
      PROVE  /\ events'[j] = <<>> <=> Created(j)'
             /\ ~Created(j)' => events'[j][Len(events'[j])] = Price[store'[j]]
             /\ \A i \in 1 .. Len(events'[j]) - 1 : events'[j][i] # events'[j][i + 1]
  <2>1. CASE j = k
    BY <1>5, <1>6, <2>1 DEF Told
  <2>2. CASE j # k
    BY <1>2, <1>7, <2>2 DEF PriceHistoryIsTrue
  <2> QED
    BY <2>1, <2>2
<1> QED
  BY <1>8 DEF PriceHistoryIsTrue


(***************************************************************************)
(* The engine, one lemma for each action.                                  *)
(***************************************************************************)
LEMMA ProcessStarts ==
  ASSUME TypeOK, NEW c \in Call, NEW k \in Key, NEW x, Process(c, k, x)
  PROVE  /\ at' \in [Call -> {"idle", "polling"} \cup Working \cup Settled]
         /\ item' \in [Call -> Key \cup {NoKey}]
         /\ opps' \in [Call -> SUBSET Key]
         /\ \A d \in Call \ {c} : at'[d] = at[d] /\ item'[d] = item[d] /\ opps'[d] = opps[d]
         /\ \/ /\ item'[c] = NoKey /\ opps'[c] = opps[c] \cup {k}
               /\ at'[c] = IF c \in Share THEN "returned" ELSE "polling"
            \/ /\ item'[c] = k /\ opps'[c] = opps[c]
               /\ at'[c] \in {"extracting", "threw"}
<1>1. CASE Conclude(c, k)
  BY <1>1 DEF TypeOK, Conclude, Goto, Settled
<1>2. CASE AskLlm(c, k, "extracting", spent)
  BY <1>2 DEF TypeOK, AskLlm, Goto, Settled, Working
<1> QED
  BY <1>1, <1>2 DEF Process

LEMMA CreditsCreator ==
  ASSUME TypeOK, NEW c \in Call, NEW k \in Key, Credit(c, k)
  PROVE  /\ creator' \in [Key -> Call \cup {NoCall}]
         /\ \A j \in Key : creator'[j] = IF j = k /\ Created(k) THEN c ELSE creator[j]
BY DEF TypeOK, Credit

\* An item is quarantined, or stored, and taken up by the run if it is new.
LEMMA ArrivesKeeps ==
  ASSUME EngineOK, NEW r \in Run, NEW raw \in Raw, Arrives(r, raw)
  PROVE  EngineOK'
<1> USE EngineAssumption DEF EngineOK, Call
<1> DEFINE k == raw[1]
           x == raw[2]
<1>1. seen' \in [Run -> Nat] /\ \A i \in Run : seen'[i] <= MaxSeen[i]
  <2>1. seen' = [seen EXCEPT ![r] = seen[r] + 1] /\ seen[r] < MaxSeen[r]
    BY DEF Arrives
  <2>2. seen \in [Run -> Nat] /\ \A i \in Run : seen[i] <= MaxSeen[i]
    BY DEF TypeOK
  <2>3. \A i \in Run : MaxSeen[i] \in Nat
    BY EngineAssumption
  <2> QED
    BY <2>1, <2>2, <2>3
<1>2. CASE raw = Poisoned
  <2>1. UNCHANGED <<store, events, at, item, opps, creator>>
    BY <1>2 DEF Arrives, storeVars
  <2>2. UNCHANGED <<fed, verdict, alerts, taken, spent, paid, sent>>
    BY DEF Arrives
  <2>3. TypeOK'
    BY <1>1, <2>1, <2>2 DEF TypeOK, StoreTypeOK
  <2>4. PlaceOK' /\ TakenUpByCreator' /\ AlertedOnce' /\ UnknownIsUntouched'
    BY <2>1, <2>2 DEF PlaceOK, TakenUpByCreator, TakesUp, AlertedOnce,
                      UnknownIsUntouched, Created
  <2>5. TakenIsAlerted'
    BY <2>1, <2>2 DEF TakenIsAlerted
  <2> QED
    BY <2>3, <2>4, <2>5
<1>3. CASE raw # Poisoned
  <2>1. k \in Key /\ x \in Content
    BY <1>3, StoreAssumption
  <2>2. /\ StoreTypeOK'
        /\ \A j \in Key : Created(j)' <=> Created(j) /\ j # k
    BY <1>3, <2>1, UpsertKeepsTypes DEF TypeOK, Arrives
  <2>3. /\ creator' \in [Key -> Call \cup {NoCall}]
        /\ \A j \in Key : creator'[j] = IF j = k /\ Created(k) THEN r ELSE creator[j]
    BY <1>3, <2>1, CreditsCreator DEF Arrives
  <2>4. /\ UNCHANGED <<fed, verdict, alerts, taken, spent, paid, sent>>
        /\ at[r] = "polling" /\ item[r] = NoKey
    BY DEF Arrives, PlaceOK
  <2> HIDE DEF k, x
  <2>5. CASE Fresh(k, x)
    <3>1. Created(k) /\ creator[k] = NoCall /\ sent[k] = 0
      BY <2>1, <2>5 DEF Fresh, UnknownIsUntouched
    <3>2. \A i \in Run : ~TakesUp(i, k)
      BY <2>1, <3>1 DEF TakenUpByCreator
    <3>3. Process(r, k, x)
      BY <1>3, <2>5 DEF Arrives, k, x
    <3> DEFINE Begun == \/ /\ item'[r] = NoKey /\ opps'[r] = opps[r] \cup {k}
                           /\ at'[r] = "polling"
                        \/ /\ item'[r] = k /\ opps'[r] = opps[r]
                           /\ at'[r] \in {"extracting", "threw"}
    <3>4. /\ at' \in [Call -> {"idle", "polling"} \cup Working \cup Settled]
          /\ item' \in [Call -> Key \cup {NoKey}]
          /\ opps' \in [Call -> SUBSET Key]
          /\ \A d \in Call \ {r} : at'[d] = at[d] /\ item'[d] = item[d] /\ opps'[d] = opps[d]
          /\ Begun
      BY <2>1, <3>3, ProcessStarts
    <3>5. TypeOK'
      BY <1>1, <2>2, <2>3, <2>4, <3>4 DEF TypeOK
    <3>6. PlaceOK'
      BY <2>1, <3>4 DEF TypeOK, PlaceOK, Working
    <3>7. TakenUpByCreator'
      BY <2>1, <2>3, <2>4, <3>1, <3>2, <3>4 DEF TypeOK, TakenUpByCreator, TakesUp
    <3>8. AlertedOnce'
      BY <2>1, <2>4, <3>1, <3>4 DEF TypeOK, AlertedOnce, Working
    <3>9. UnknownIsUntouched'
      BY <2>1, <2>2, <2>3, <2>4 DEF UnknownIsUntouched
    <3>10. TakenIsAlerted'
      BY <2>4, <3>4 DEF TakenIsAlerted
    <3> QED
      BY <3>5, <3>6, <3>7, <3>8, <3>9, <3>10
  <2>6. CASE ~Fresh(k, x)
    <3>1. UNCHANGED <<at, item, opps>> /\ ~Created(k)
      BY <1>3, <2>6 DEF Arrives, Fresh, k, x
    <3>2. creator' = creator
      BY <2>3, <3>1 DEF TypeOK
    <3>3. TypeOK'
      BY <1>1, <2>2, <2>4, <3>1, <3>2 DEF TypeOK
    <3>4. PlaceOK' /\ TakenUpByCreator' /\ AlertedOnce'
      BY <2>4, <3>1, <3>2 DEF PlaceOK, TakenUpByCreator, TakesUp, AlertedOnce
    <3>5. UnknownIsUntouched'
      BY <2>2, <2>4, <3>2 DEF UnknownIsUntouched
    <3>6. TakenIsAlerted'
      BY <2>4, <3>1 DEF TakenIsAlerted
    <3> QED
      BY <3>3, <3>4, <3>5, <3>6
  <2> QED
    BY <2>5, <2>6
<1> QED
  BY <1>2, <1>3

LEMMA LeavesKeeps ==
  ASSUME EngineOK, NEW r \in Run, SourceEnds(r) \/ SourceThrows(r)
  PROVE  EngineOK'
<1> USE EngineAssumption DEF EngineOK, Call
<1>1. TypeOK'
  BY DEF TypeOK, StoreTypeOK, Working, Settled, storeVars, sourceVars, resultVars, history, SourceEnds, SourceThrows, Throw, Goto
<1>2. PlaceOK'
  BY DEF TypeOK, PlaceOK, Working, storeVars, sourceVars, resultVars, history, SourceEnds, SourceThrows, Throw, Goto
<1>3. TakenUpByCreator'
  BY DEF TypeOK, PlaceOK, TakenUpByCreator, TakesUp, Working, storeVars, sourceVars, resultVars, history, SourceEnds, SourceThrows, Throw, Goto
<1>4. AlertedOnce'
  BY DEF TypeOK, PlaceOK, AlertedOnce, TakenUpByCreator, TakesUp, Working, storeVars, sourceVars, resultVars, history, SourceEnds, SourceThrows, Throw, Goto
<1>5. UnknownIsUntouched'
  BY DEF TypeOK, PlaceOK, UnknownIsUntouched, TakenUpByCreator, TakesUp, Working, storeVars, sourceVars, resultVars, history, Created, SourceEnds, SourceThrows, Throw, Goto
<1>6. TakenIsAlerted'
  BY DEF TypeOK, PlaceOK, TakenIsAlerted, AlertedOnce, Working, storeVars, sourceVars, resultVars, history, SourceEnds, SourceThrows, Throw, Goto
<1> QED
  BY <1>1, <1>2, <1>3, <1>4, <1>5, <1>6

\* A shared listing is processed whether or not it is new, by no run.
LEMMA UnderwriteKeeps ==
  ASSUME EngineOK, NEW s \in Share, NEW raw \in Raw, Underwrite(s, raw)
  PROVE  EngineOK'
<1> USE EngineAssumption DEF EngineOK, Call
<1> DEFINE k == raw[1]
           x == raw[2]
<1>1. /\ UNCHANGED <<verdict, seen, fed, alerts, taken, spent, paid, sent>>
      /\ at[s] = "idle" /\ item[s] = NoKey
  BY DEF Underwrite, sourceVars, PlaceOK
<1>2. CASE raw = Poisoned
  <2>1. /\ UNCHANGED <<store, events, creator, item, opps>>
        /\ at' = [at EXCEPT ![s] = "threw"]
    BY <1>2 DEF Underwrite, storeVars, Throw, Goto
  <2>2. TypeOK'
    BY <1>1, <2>1 DEF TypeOK, StoreTypeOK, Settled
  <2>3. PlaceOK' /\ TakenUpByCreator' /\ AlertedOnce' /\ UnknownIsUntouched'
    BY <1>1, <2>1 DEF TypeOK, PlaceOK, Working, TakenUpByCreator, TakesUp,
                      AlertedOnce, UnknownIsUntouched, Created
  <2>4. TakenIsAlerted'
    BY <1>1, <2>1 DEF TakenIsAlerted
  <2> QED
    BY <2>2, <2>3, <2>4
<1>3. CASE raw # Poisoned
  <2>1. k \in Key /\ x \in Content
    BY <1>3, StoreAssumption
  <2>2. /\ StoreTypeOK'
        /\ \A j \in Key : Created(j)' <=> Created(j) /\ j # k
    BY <1>3, <2>1, UpsertKeepsTypes DEF TypeOK, Underwrite
  <2>3. /\ creator' \in [Key -> Call \cup {NoCall}]
        /\ \A j \in Key : creator'[j] = IF j = k /\ Created(k) THEN s ELSE creator[j]
    BY <1>3, <2>1, CreditsCreator DEF Underwrite
  <2>4. /\ at' \in [Call -> {"idle", "polling"} \cup Working \cup Settled]
        /\ item' \in [Call -> Key \cup {NoKey}]
        /\ opps' \in [Call -> SUBSET Key]
        /\ \A d \in Call \ {s} : at'[d] = at[d] /\ item'[d] = item[d] /\ opps'[d] = opps[d]
        /\ \/ item'[s] = NoKey /\ at'[s] = "returned"
           \/ item'[s] = k /\ at'[s] \in {"extracting", "threw"}
    BY <1>3, <2>1, ProcessStarts DEF Underwrite
  <2> HIDE DEF k, x
  <2>5. \A r \in Run : r # s /\ r \in Call
    OBVIOUS
  <2>6. TypeOK'
    BY <1>1, <2>2, <2>3, <2>4 DEF TypeOK
  <2>7. PlaceOK'
    BY <2>1, <2>4 DEF TypeOK, PlaceOK, Working
  <2>8. TakenUpByCreator'
    BY <2>1, <2>3, <2>4, <2>5 DEF TakenUpByCreator, TakesUp, UnknownIsUntouched
  <2>9. AlertedOnce'
    BY <1>1, <2>4, <2>5 DEF AlertedOnce
  <2>10. UnknownIsUntouched'
    BY <1>1, <2>2, <2>3 DEF UnknownIsUntouched
  <2>11. TakenIsAlerted'
    BY <1>1, <2>4, <2>5 DEF TakenIsAlerted
  <2> QED
    BY <2>6, <2>7, <2>8, <2>9, <2>10, <2>11
<1> QED
  BY <1>2, <1>3

LEMMA AnswersKeeps ==
  ASSUME EngineOK, NEW c \in Call, NEW cost \in Costs, NEW parsed \in BOOLEAN, LlmAnswers(c, cost, parsed)
  PROVE  EngineOK'
<1> USE EngineAssumption DEF EngineOK, Call
<1>1. TypeOK'
  <2>1. StoreTypeOK' /\ seen' \in [Run -> Nat] /\ (\A i \in Run : seen'[i] <= MaxSeen[i])
        /\ fed' \in 0 .. MaxFed
    BY DEF TypeOK, StoreTypeOK, storeVars, sourceVars, LlmAnswers, Asking, Adjudicate, AskLlm, Identified, Conclude, Throw, Goto
  <2>2. at' \in [Call -> {"idle", "polling"} \cup Working \cup Settled]
    BY DEF TypeOK, Working, Settled, LlmAnswers, Asking, Adjudicate, AskLlm, Identified, Conclude, Throw, Goto
  <2>3. item' \in [Call -> Key \cup {NoKey}]
    BY DEF TypeOK, PlaceOK, Working, LlmAnswers, Asking, Adjudicate, AskLlm, Identified, Conclude, Throw, Goto
  <2>4. opps' \in [Call -> SUBSET Key]
    BY DEF TypeOK, PlaceOK, Working, LlmAnswers, Asking, Adjudicate, AskLlm, Identified, Conclude, Throw, Goto
  <2>5. taken' \in [Call -> SUBSET Key] /\ alerts' \in [Call -> SUBSET Key]
    BY DEF TypeOK, PlaceOK, Working, resultVars, LlmAnswers, Asking, Adjudicate, AskLlm, Identified, Conclude, Throw, Goto
  <2>6. verdict' \in [Call -> BOOLEAN]
    BY DEF TypeOK, LlmAnswers, Asking, Adjudicate, AskLlm, Identified, Conclude, Throw, Goto
  <2>7. /\ spent' \in Nat /\ paid' \in Nat
        /\ creator' \in [Key -> Call \cup {NoCall}] /\ sent' \in [Key -> Nat]
    BY DEF TypeOK, PlaceOK, Working, history, LlmAnswers, Asking, Adjudicate, AskLlm, Identified, Conclude, Throw, Goto
  <2> QED
    BY <2>1, <2>2, <2>3, <2>4, <2>5, <2>6, <2>7 DEF TypeOK
<1>2. PlaceOK'
  BY DEF TypeOK, PlaceOK, Working, storeVars, LlmAnswers, Asking, Adjudicate, AskLlm, Identified, Conclude, Throw, Goto
<1>3. TakenUpByCreator'
  BY DEF TypeOK, PlaceOK, TakenUpByCreator, TakesUp, Working, storeVars, LlmAnswers, Asking, Adjudicate, AskLlm, Identified, Conclude, Throw, Goto
<1>4. AlertedOnce'
  BY DEF TypeOK, PlaceOK, AlertedOnce, TakenUpByCreator, TakesUp, Working, storeVars, LlmAnswers, Asking, Adjudicate, AskLlm, Identified, Conclude, Throw, Goto
<1>5. UnknownIsUntouched'
  BY DEF TypeOK, PlaceOK, UnknownIsUntouched, TakenUpByCreator, TakesUp, Working, storeVars, Created, LlmAnswers, Asking, Adjudicate, AskLlm, Identified, Conclude, Throw, Goto
<1>6. TakenIsAlerted'
  BY DEF TypeOK, PlaceOK, TakenIsAlerted, AlertedOnce, Working, storeVars, LlmAnswers, Asking, Adjudicate, AskLlm, Identified, Conclude, Throw, Goto
<1> QED
  BY <1>1, <1>2, <1>3, <1>4, <1>5, <1>6

LEMMA RejectsKeeps ==
  ASSUME EngineOK, NEW c \in Call, LlmRejects(c)
  PROVE  EngineOK'
<1> USE EngineAssumption DEF EngineOK, Call
<1>1. TypeOK'
  BY DEF TypeOK, StoreTypeOK, Working, Settled, storeVars, sourceVars, resultVars, history, LlmRejects, Asking, Throw, Goto
<1>2. PlaceOK'
  BY DEF TypeOK, PlaceOK, Working, storeVars, LlmRejects, Asking, Throw, Goto
<1>3. TakenUpByCreator'
  BY DEF TypeOK, PlaceOK, TakenUpByCreator, TakesUp, Working, storeVars, LlmRejects, Asking, Throw, Goto
<1>4. AlertedOnce'
  BY DEF TypeOK, PlaceOK, AlertedOnce, TakenUpByCreator, TakesUp, Working, storeVars, LlmRejects, Asking, Throw, Goto
<1>5. UnknownIsUntouched'
  BY DEF TypeOK, PlaceOK, UnknownIsUntouched, TakenUpByCreator, TakesUp, Working, storeVars, Created, LlmRejects, Asking, Throw, Goto
<1>6. TakenIsAlerted'
  BY DEF TypeOK, PlaceOK, TakenIsAlerted, AlertedOnce, Working, storeVars, LlmRejects, Asking, Throw, Goto
<1> QED
  BY <1>1, <1>2, <1>3, <1>4, <1>5, <1>6

LEMMA NothingKeeps ==
  ASSUME EngineOK, NEW c \in Call, NothingToValue(c)
  PROVE  EngineOK'
<1> USE EngineAssumption DEF EngineOK, Call
<1>1. TypeOK'
  <2>1. StoreTypeOK' /\ seen' \in [Run -> Nat] /\ (\A i \in Run : seen'[i] <= MaxSeen[i])
        /\ fed' \in 0 .. MaxFed
    BY DEF TypeOK, StoreTypeOK, storeVars, sourceVars, NothingToValue, Conclude, Goto
  <2>2. at' \in [Call -> {"idle", "polling"} \cup Working \cup Settled]
    BY DEF TypeOK, Working, Settled, NothingToValue, Conclude, Goto
  <2>3. item' \in [Call -> Key \cup {NoKey}]
    BY DEF TypeOK, PlaceOK, Working, NothingToValue, Conclude, Goto
  <2>4. opps' \in [Call -> SUBSET Key]
    BY DEF TypeOK, PlaceOK, Working, NothingToValue, Conclude, Goto
  <2>5. taken' \in [Call -> SUBSET Key] /\ alerts' \in [Call -> SUBSET Key]
    BY DEF TypeOK, PlaceOK, Working, resultVars, NothingToValue, Conclude, Goto
  <2>6. verdict' \in [Call -> BOOLEAN]
    BY DEF TypeOK, NothingToValue, Conclude, Goto
  <2>7. /\ spent' \in Nat /\ paid' \in Nat
        /\ creator' \in [Key -> Call \cup {NoCall}] /\ sent' \in [Key -> Nat]
    BY DEF TypeOK, PlaceOK, Working, history, NothingToValue, Conclude, Goto
  <2> QED
    BY <2>1, <2>2, <2>3, <2>4, <2>5, <2>6, <2>7 DEF TypeOK
<1>2. PlaceOK'
  BY DEF TypeOK, PlaceOK, Working, storeVars, NothingToValue, Conclude, Goto
<1>3. TakenUpByCreator'
  BY DEF TypeOK, PlaceOK, TakenUpByCreator, TakesUp, Working, storeVars, NothingToValue, Conclude, Goto
<1>4. AlertedOnce'
  BY DEF TypeOK, PlaceOK, AlertedOnce, TakenUpByCreator, TakesUp, Working, storeVars, NothingToValue, Conclude, Goto
<1>5. UnknownIsUntouched'
  BY DEF TypeOK, PlaceOK, UnknownIsUntouched, TakenUpByCreator, TakesUp, Working, storeVars, Created, NothingToValue, Conclude, Goto
<1>6. TakenIsAlerted'
  BY DEF TypeOK, PlaceOK, TakenIsAlerted, AlertedOnce, Working, storeVars, NothingToValue, Conclude, Goto
<1> QED
  BY <1>1, <1>2, <1>3, <1>4, <1>5, <1>6

LEMMA RankedKeeps ==
  ASSUME EngineOK, NEW c \in Call, NEW b \in BOOLEAN, NEW f \in BOOLEAN, NEW h \in BOOLEAN, Rank(c, b, f, h)
  PROVE  EngineOK'
<1> USE EngineAssumption DEF EngineOK, Call
<1>1. TypeOK'
  <2>1. StoreTypeOK' /\ seen' \in [Run -> Nat] /\ (\A i \in Run : seen'[i] <= MaxSeen[i])
        /\ fed' \in 0 .. MaxFed
    BY DEF TypeOK, StoreTypeOK, storeVars, sourceVars, Rank, Taken, Conclude, Goto
  <2>2. at' \in [Call -> {"idle", "polling"} \cup Working \cup Settled]
    BY DEF TypeOK, Working, Settled, Rank, Taken, Conclude, Goto
  <2>3. item' \in [Call -> Key \cup {NoKey}]
    BY DEF TypeOK, PlaceOK, Working, Rank, Taken, Conclude, Goto
  <2>4. opps' \in [Call -> SUBSET Key]
    BY DEF TypeOK, PlaceOK, Working, Rank, Taken, Conclude, Goto
  <2>5. taken' \in [Call -> SUBSET Key] /\ alerts' \in [Call -> SUBSET Key]
    BY DEF TypeOK, PlaceOK, Working, resultVars, Rank, Taken, Conclude, Goto
  <2>6. verdict' \in [Call -> BOOLEAN]
    BY DEF TypeOK, Rank, Taken, Conclude, Goto
  <2>7. /\ spent' \in Nat /\ paid' \in Nat
        /\ creator' \in [Key -> Call \cup {NoCall}] /\ sent' \in [Key -> Nat]
    BY DEF TypeOK, PlaceOK, Working, history, Rank, Taken, Conclude, Goto
  <2> QED
    BY <2>1, <2>2, <2>3, <2>4, <2>5, <2>6, <2>7 DEF TypeOK
<1>2. PlaceOK'
  BY DEF TypeOK, PlaceOK, Working, storeVars, Rank, Taken, Conclude, Goto
<1>3. TakenUpByCreator'
  BY DEF TypeOK, PlaceOK, TakenUpByCreator, TakesUp, Working, storeVars, Rank, Taken, Conclude, Goto
<1>4. AlertedOnce'
  BY DEF TypeOK, PlaceOK, AlertedOnce, TakenUpByCreator, TakesUp, Working, storeVars, Rank, Taken, Conclude, Goto
<1>5. UnknownIsUntouched'
  BY DEF TypeOK, PlaceOK, UnknownIsUntouched, TakenUpByCreator, TakesUp, Working, storeVars, Created, Rank, Taken, Conclude, Goto
<1>6. TakenIsAlerted'
  BY DEF TypeOK, PlaceOK, TakenIsAlerted, AlertedOnce, Working, storeVars, Rank, Taken, Conclude, Goto
<1> QED
  BY <1>1, <1>2, <1>3, <1>4, <1>5, <1>6

LEMMA AlertKeeps ==
  ASSUME EngineOK, NEW c \in Call, Alerted(c)
  PROVE  EngineOK'
<1> USE EngineAssumption DEF EngineOK, Call
<1>1. TypeOK'
  <2>1. StoreTypeOK' /\ seen' \in [Run -> Nat] /\ (\A i \in Run : seen'[i] <= MaxSeen[i])
        /\ fed' \in 0 .. MaxFed
    BY DEF TypeOK, StoreTypeOK, storeVars, sourceVars, Alerted, Goto
  <2>2. at' \in [Call -> {"idle", "polling"} \cup Working \cup Settled]
    BY DEF TypeOK, Working, Settled, Alerted, Goto
  <2>3. item' \in [Call -> Key \cup {NoKey}]
    BY DEF TypeOK, PlaceOK, Working, Alerted, Goto
  <2>4. opps' \in [Call -> SUBSET Key]
    BY DEF TypeOK, PlaceOK, Working, Alerted, Goto
  <2>5. taken' \in [Call -> SUBSET Key] /\ alerts' \in [Call -> SUBSET Key]
    BY DEF TypeOK, PlaceOK, Working, resultVars, Alerted, Goto
  <2>6. verdict' \in [Call -> BOOLEAN]
    BY DEF TypeOK, Alerted, Goto
  <2>7. /\ spent' \in Nat /\ paid' \in Nat
        /\ creator' \in [Key -> Call \cup {NoCall}] /\ sent' \in [Key -> Nat]
    BY DEF TypeOK, PlaceOK, Working, history, Alerted, Goto
  <2> QED
    BY <2>1, <2>2, <2>3, <2>4, <2>5, <2>6, <2>7 DEF TypeOK
<1>2. PlaceOK'
  BY DEF TypeOK, PlaceOK, Working, storeVars, Alerted, Goto
<1>3. TakenUpByCreator'
  BY DEF TypeOK, PlaceOK, TakenUpByCreator, TakesUp, Working, storeVars, Alerted, Goto
<1>4. AlertedOnce'
  BY DEF TypeOK, PlaceOK, AlertedOnce, TakenUpByCreator, TakesUp, Working, storeVars, Alerted, Goto
<1>5. UnknownIsUntouched'
  BY DEF TypeOK, PlaceOK, UnknownIsUntouched, TakenUpByCreator, TakesUp, Working, storeVars, Created, Alerted, Goto
<1>6. TakenIsAlerted'
  BY DEF TypeOK, PlaceOK, TakenIsAlerted, AlertedOnce, Working, storeVars, Alerted, Goto
<1> QED
  BY <1>1, <1>2, <1>3, <1>4, <1>5, <1>6

LEMMA NotAlertedKeeps ==
  ASSUME EngineOK, NEW c \in Call, NotifierThrows(c)
  PROVE  EngineOK'
<1> USE EngineAssumption DEF EngineOK, Call
<1>1. TypeOK'
  BY DEF TypeOK, StoreTypeOK, Working, Settled, storeVars, sourceVars, resultVars, history, NotifierThrows, Throw, Goto
<1>2. PlaceOK'
  BY DEF TypeOK, PlaceOK, Working, storeVars, NotifierThrows, Throw, Goto
<1>3. TakenUpByCreator'
  BY DEF TypeOK, PlaceOK, TakenUpByCreator, TakesUp, Working, storeVars, NotifierThrows, Throw, Goto
<1>4. AlertedOnce'
  BY DEF TypeOK, PlaceOK, AlertedOnce, TakenUpByCreator, TakesUp, Working, storeVars, NotifierThrows, Throw, Goto
<1>5. UnknownIsUntouched'
  BY DEF TypeOK, PlaceOK, UnknownIsUntouched, TakenUpByCreator, TakesUp, Working, storeVars, Created, NotifierThrows, Throw, Goto
<1>6. TakenIsAlerted'
  BY DEF TypeOK, PlaceOK, TakenIsAlerted, AlertedOnce, Working, storeVars, NotifierThrows, Throw, Goto
<1> QED
  BY <1>1, <1>2, <1>3, <1>4, <1>5, <1>6

\* runAdapter stores what it sees and touches no call.
LEMMA FeedKeeps ==
  ASSUME EngineOK, NEW k \in Key, NEW x \in Content, Feed(k, x)
  PROVE  EngineOK'
<1> USE EngineAssumption DEF EngineOK
<1>1. UNCHANGED <<at, item, verdict, seen, opps, alerts, taken, spent, paid, creator, sent>>
  BY DEF Feed, stageVars, resultVars, history
<1>2. /\ StoreTypeOK'
      /\ \A j \in Key : Created(j)' <=> Created(j) /\ j # k
  BY UpsertKeepsTypes DEF TypeOK, Feed
<1>3. fed' \in 0 .. MaxFed
  BY DEF TypeOK, Feed
<1>4. TypeOK'
  BY <1>1, <1>2, <1>3 DEF TypeOK
<1>5. PlaceOK' /\ TakenUpByCreator' /\ AlertedOnce' /\ TakenIsAlerted'
  BY <1>1 DEF PlaceOK, TakenUpByCreator, TakesUp, AlertedOnce, TakenIsAlerted
<1>6. UnknownIsUntouched'
  BY <1>1, <1>2 DEF UnknownIsUntouched
<1> QED
  BY <1>4, <1>5, <1>6

LEMMA ResetKeeps == ASSUME EngineOK, ResetBudget PROVE EngineOK'
<1> USE DEF EngineOK, ResetBudget, storeVars, stageVars, sourceVars, resultVars
<1>1. TypeOK'
  BY DEF TypeOK, StoreTypeOK
<1>2. PlaceOK' /\ TakenUpByCreator' /\ AlertedOnce'
  BY DEF PlaceOK, TakenUpByCreator, TakesUp, AlertedOnce
<1>3. UnknownIsUntouched' /\ TakenIsAlerted'
  BY DEF UnknownIsUntouched, Created, TakenIsAlerted
<1> QED
  BY <1>1, <1>2, <1>3

-------------------------------------------------------------------------------
(***************************************************************************)
(* The strengthened invariant holds initially and every step of a run, of  *)
(* a share-sheet call, of a feed and of the budget's owner keeps it        *)
(* (engine.ts:78-231).                                                     *)
(***************************************************************************)
THEOREM Inductive == (Init => EngineOK) /\ (EngineOK /\ [Next]_vars => EngineOK')
<1>1. Init => EngineOK
  <2> SUFFICES ASSUME Init PROVE EngineOK
    OBVIOUS
  <2> USE EngineAssumption DEF Init, StoreInit
  <2>1. TypeOK
    BY DEF TypeOK, StoreTypeOK, Call
  <2>2. PlaceOK /\ TakenUpByCreator /\ AlertedOnce
    BY DEF PlaceOK, TakenUpByCreator, TakesUp, AlertedOnce, Working, Call
  <2>3. UnknownIsUntouched /\ TakenIsAlerted
    BY DEF UnknownIsUntouched, TakenIsAlerted, Call
  <2> QED
    BY <2>1, <2>2, <2>3 DEF EngineOK
<1>2. ASSUME EngineOK, [Next]_vars PROVE EngineOK'
  <2>1. CASE \E r \in Run : SourceStep(r)
    BY <1>2, <2>1, ArrivesKeeps, LeavesKeeps DEF SourceStep
  <2>2. CASE \E s \in Share, raw \in Raw : Underwrite(s, raw)
    BY <1>2, <2>2, UnderwriteKeeps
  <2>3. CASE \E c \in Call : StageStep(c)
    BY <1>2, <2>3, AnswersKeeps, RejectsKeeps, NothingKeeps, RankedKeeps,
       AlertKeeps, NotAlertedKeeps DEF StageStep
  <2>4. CASE \E raw \in Raw \ {Poisoned} : Feed(raw[1], raw[2])
    BY <1>2, <2>4, FeedKeeps, StoreAssumption
  <2>5. CASE ResetBudget
    BY <1>2, <2>5, ResetKeeps
  <2>6. CASE UNCHANGED vars
    <3> USE <1>2, <2>6 DEF EngineOK, vars, storeVars, stageVars, sourceVars, resultVars, history
    <3>1. TypeOK'
      BY DEF TypeOK, StoreTypeOK
    <3>2. PlaceOK' /\ TakenUpByCreator' /\ AlertedOnce'
      BY DEF PlaceOK, TakenUpByCreator, TakesUp, AlertedOnce
    <3>3. UnknownIsUntouched' /\ TakenIsAlerted'
      BY DEF UnknownIsUntouched, Created, TakenIsAlerted
    <3> QED
      BY <3>1, <3>2, <3>3
  <2> QED
    BY <1>2, <2>1, <2>2, <2>3, <2>4, <2>5, <2>6 DEF Next
<1> QED
  BY <1>1, <1>2

\* The engine and the store keep their types.
THEOREM TypeCorrect == Spec => []TypeOK
<1>1. EngineOK => TypeOK
  BY DEF EngineOK
<1> QED
  BY Inductive, <1>1, PTL DEF Spec

(***************************************************************************)
(* A new listing is taken up by the run that stored it, by no other, and   *)
(* alerted once at most, for every set of runs and listings                *)
(* (engine.ts:93-110).                                                     *)
(***************************************************************************)
THEOREM TakenUpOnce == Spec => []ListingsAreTakenUpOnce
<1>1. EngineOK => ListingsAreTakenUpOnce
  BY DEF EngineOK, TakenUpByCreator, AlertedOnce, ListingsAreTakenUpOnce
<1> QED
  BY Inductive, <1>1, PTL DEF Spec

\* What a run takes on paper it has alerted, exactly once (engine.ts:106-113).
THEOREM NothingTakenInSilence == Spec => []TakenIsAlerted
<1>1. EngineOK => TakenIsAlerted
  BY DEF EngineOK
<1> QED
  BY Inductive, <1>1, PTL DEF Spec

(***************************************************************************)
(* Every price history is true, whoever observes and edits the listings    *)
(* (store.ts:45-70).                                                       *)
(***************************************************************************)
THEOREM TrueHistory == Spec => []PriceHistoryIsTrue
<1>1. Init => PriceHistoryIsTrue
  <2> SUFFICES ASSUME StoreInit PROVE PriceHistoryIsTrue
    BY DEF Init
  <2>1. \A k \in Key : events[k] = <<>> /\ Created(k)
    BY DEF StoreInit, Created
  <2>2. \A i \in 1 .. Len(<<>>) - 1 : FALSE
    OBVIOUS
  <2> QED
    BY <2>1, <2>2 DEF PriceHistoryIsTrue
<1>2. ASSUME TypeOK, PriceHistoryIsTrue, [Next]_vars PROVE PriceHistoryIsTrue'
  <2> USE <1>2
  <2>1. \/ UNCHANGED <<store, events>>
        \/ \E raw \in Raw : raw # Poisoned /\ Upsert(raw[1], raw[2])
    <3>1. CASE \E r \in Run : SourceStep(r)
      BY <3>1 DEF SourceStep, Arrives, SourceEnds, SourceThrows, storeVars
    <3>2. CASE \E s \in Share, raw \in Raw : Underwrite(s, raw)
      BY <3>2 DEF Underwrite, storeVars
    <3>3. CASE \E c \in Call : StageStep(c)
      BY <3>3 DEF StageStep, LlmAnswers, LlmRejects, NothingToValue, Rank,
                  Alerted, NotifierThrows, storeVars
    <3>4. CASE \E raw \in Raw \ {Poisoned} : Feed(raw[1], raw[2])
      BY <3>4 DEF Feed
    <3>5. CASE ResetBudget \/ UNCHANGED vars
      BY <3>5 DEF ResetBudget, vars, storeVars
    <3> QED
      BY <3>1, <3>2, <3>3, <3>4, <3>5 DEF Next
  <2>2. CASE UNCHANGED <<store, events>>
    BY <2>2 DEF PriceHistoryIsTrue, Created
  <2>3. CASE \E raw \in Raw : raw # Poisoned /\ Upsert(raw[1], raw[2])
    <3>1. PICK raw \in Raw : raw # Poisoned /\ Upsert(raw[1], raw[2])
      BY <2>3
    <3>2. raw[1] \in Key /\ raw[2] \in Content
      BY <3>1, StoreAssumption
    <3> QED
      BY <3>1, <3>2, UpsertKeepsHistory DEF TypeOK
  <2> QED
    BY <2>1, <2>2, <2>3
<1>3. Spec => []TypeOK
  BY TypeCorrect
<1>4. TypeOK /\ PriceHistoryIsTrue /\ [Next]_vars => PriceHistoryIsTrue'
  BY <1>2
<1> QED
  BY <1>1, <1>3, <1>4, PTL DEF Spec

-------------------------------------------------------------------------------
(***************************************************************************)
(* The daily cap.  What bounds the day is not what was paid but what may   *)
(* still be charged: every call awaiting the LLM passed the check and may  *)
(* cost MaxCost.  A call joins them only below the cap (budget.ts:49-51).  *)
(***************************************************************************)
Calling == {c \in Call : Asking(c)}

SpendOK == /\ paid = spent
           /\ paid + MaxCost * Cardinality(Calling) <= Cap - 1 + MaxCost * Cardinality(Call)

\* The dearest completion costs no less than any other (budget.ts:52).
LEMMA MaxCostIsMax == MaxCost \in Nat /\ \A n \in Costs : n <= MaxCost
BY SpendAssumption, EngineAssumption DEF MaxCost

\* Calls that await the LLM are finitely many, no more than there are calls.
LEMMA CallingIsFinite ==
  /\ IsFiniteSet(Calling)
  /\ Cardinality(Calling) \in Nat /\ Cardinality(Call) \in Nat
  /\ Cardinality(Calling) <= Cardinality(Call)
<1>1. Calling \subseteq Call
  BY DEF Calling
<1> QED
  BY <1>1, SpendAssumption, FS_Subset, FS_CardinalityType

\* As after a step: the lemma above of the next state.
LEMMA CallingStaysFinite ==
  /\ IsFiniteSet(Calling')
  /\ Cardinality(Calling') \in Nat
  /\ Cardinality(Calling') <= Cardinality(Call)
<1>1. Calling' \subseteq Call
  BY DEF Calling
<1> QED
  BY <1>1, SpendAssumption, FS_Subset, FS_CardinalityType

\* Products grow with their second factor.
LEMMA Scales ==
  \A m, a, b \in Nat : /\ m * a \in Nat
                       /\ a <= b => m * a <= m * b
                       /\ a + 1 <= b => m * a + m <= m * b
<1> SUFFICES ASSUME NEW m \in Nat, NEW a \in Nat, NEW b \in Nat
             PROVE  /\ m * a \in Nat
                    /\ a <= b => m * a <= m * b
                    /\ a + 1 <= b => m * a + m <= m * b
  OBVIOUS
<1>1. \A d \in Nat : m * d \in Nat
  OBVIOUS
<1>2. \A d \in Nat : b = a + d => m * b = m * a + m * d
  OBVIOUS
<1>3. a <= b => m * a <= m * b
  <2> SUFFICES ASSUME a <= b PROVE m * a <= m * b
    OBVIOUS
  <2>1. b - a \in Nat /\ b = a + (b - a)
    OBVIOUS
  <2> QED
    BY <2>1, <1>1, <1>2
<1>4. a + 1 <= b => m * a + m <= m * b
  <2> SUFFICES ASSUME a + 1 <= b PROVE m * a + m <= m * b
    OBVIOUS
  <2> DEFINE d == b - a - 1
  <2>1. d \in Nat /\ b = a + (d + 1)
    OBVIOUS
  <2>2. m * b = m * a + m * (d + 1)
    BY <2>1, <1>2
  <2>3. m * (d + 1) = m * d + m
    BY <2>1
  <2> QED
    BY <2>1, <2>2, <2>3, <1>1
<1> QED
  BY <1>1, <1>3, <1>4

\* A step that charges nothing and asks nothing, or that ends below the cap.
LEMMA CheapStepKeeps ==
  ASSUME TypeOK, TypeOK', SpendOK, paid' = spent',
         (paid' = paid /\ Calling' \subseteq Calling) \/ paid' < Cap
  PROVE  SpendOK'
<1> DEFINE n == Cardinality(Calling)
           np == Cardinality(Calling')
           all == Cardinality(Call)
<1>1. n \in Nat /\ np \in Nat /\ all \in Nat /\ np <= all
  BY CallingIsFinite, CallingStaysFinite
<1>2. MaxCost \in Nat /\ Cap \in Nat /\ paid \in Nat /\ paid' \in Nat
  BY MaxCostIsMax, EngineAssumption DEF TypeOK
<1>3. MaxCost * np <= MaxCost * all /\ MaxCost * np \in Nat /\ MaxCost * n \in Nat
      /\ MaxCost * all \in Nat
  BY <1>1, <1>2, Scales
<1>4. CASE paid' < Cap
  <2> HIDE DEF n, np, all
  <2>1. paid' + MaxCost * np <= Cap - 1 + MaxCost * all
    BY <1>2, <1>3, <1>4
  <2> QED
    BY <2>1 DEF SpendOK, np, all
<1>5. CASE paid' = paid /\ Calling' \subseteq Calling
  <2>1. np <= n
    BY <1>5, CallingIsFinite, FS_Subset
  <2>2. MaxCost * np <= MaxCost * n
    BY <1>1, <1>2, <2>1, Scales
  <2>3. paid + MaxCost * n <= Cap - 1 + MaxCost * all
    BY DEF SpendOK
  <2> HIDE DEF n, np, all
  <2>4. paid' + MaxCost * np <= Cap - 1 + MaxCost * all
    BY <1>2, <1>3, <1>5, <2>2, <2>3
  <2> QED
    BY <2>4 DEF SpendOK, np, all
<1> QED
  BY <1>4, <1>5

\* An answer is charged to a call that was counted, and that leaves the LLM
\* or asks again below the cap (budget.ts:52-57).
LEMMA AnswerKeepsSpend ==
  ASSUME TypeOK, TypeOK', SpendOK, NEW c \in Call, NEW cost \in Costs, NEW parsed \in BOOLEAN,
         LlmAnswers(c, cost, parsed)
  PROVE  SpendOK'
<1>1. paid' = spent' /\ paid' = paid + cost /\ paid \in Nat /\ cost \in Nat /\ cost <= MaxCost
  BY MaxCostIsMax, EngineAssumption DEF TypeOK, SpendOK, LlmAnswers
<1>2. CASE paid' < Cap
  BY <1>1, <1>2, CheapStepKeeps
<1>3. CASE ~(paid' < Cap)
  <2> DEFINE n == Cardinality(Calling)
             np == Cardinality(Calling')
             all == Cardinality(Call)
  <2>1. c \in Calling /\ Calling' = Calling \ {c}
    <3>1. at' = [at EXCEPT ![c] = at'[c]]
          /\ at'[c] \in {"threw", "routing", "returned", "polling"}
      BY <1>1, <1>3, EngineAssumption
         DEF TypeOK, SpendOK, LlmAnswers, Throw, Identified, Conclude, Adjudicate, AskLlm,
             Exhausted, Goto
    <3> QED
      BY <3>1 DEF TypeOK, Calling, Asking, LlmAnswers
  <2>2. n \in Nat /\ np \in Nat /\ all \in Nat /\ np + 1 <= n
    BY <2>1, CallingIsFinite, CallingStaysFinite, FS_RemoveElement
  <2>3. MaxCost \in Nat /\ Cap \in Nat
    BY MaxCostIsMax, EngineAssumption
  <2>4. MaxCost * np + MaxCost <= MaxCost * n /\ MaxCost * np \in Nat /\ MaxCost * n \in Nat
        /\ MaxCost * all \in Nat
    BY <2>2, <2>3, Scales
  <2>5. paid + MaxCost * n <= Cap - 1 + MaxCost * all
    BY DEF SpendOK
  <2> HIDE DEF n, np, all
  <2>6. paid' + MaxCost * np <= Cap - 1 + MaxCost * all
    BY <1>1, <2>3, <2>4, <2>5
  <2> QED
    BY <2>6, <1>1 DEF SpendOK, np, all
<1> QED
  BY <1>2, <1>3

(***************************************************************************)
(* However runs and share-sheet calls overlap, and whatever the answers    *)
(* cost, a day costs less than the cap and one dearest completion of each  *)
(* call more (budget.ts:49-57).                                            *)
(***************************************************************************)
THEOREM DailyCap == Spec => []SpendIsBounded
<1>1. Init => SpendOK
  <2> SUFFICES ASSUME Init PROVE SpendOK
    OBVIOUS
  <2>1. paid = 0 /\ spent = 0
    BY DEF Init
  <2> DEFINE n == Cardinality(Calling)
             all == Cardinality(Call)
  <2>2. MaxCost * n \in Nat /\ MaxCost * all \in Nat /\ MaxCost * n <= MaxCost * all
    BY CallingIsFinite, MaxCostIsMax, Scales
  <2>3. Cap \in Nat /\ Cap >= 1
    BY EngineAssumption
  <2> HIDE DEF n, all
  <2>4. 0 + MaxCost * n <= Cap - 1 + MaxCost * all
    BY <2>2, <2>3
  <2> QED
    BY <2>1, <2>4 DEF SpendOK, n, all
<1>2. ASSUME TypeOK, TypeOK', SpendOK, [Next]_vars PROVE SpendOK'
  <2> USE <1>2
  <2>1. ASSUME paid' = spent',
               (paid' = paid /\ Calling' \subseteq Calling) \/ paid' < Cap
        PROVE  SpendOK'
    BY <2>1, CheapStepKeeps
  <2>2. paid = spent /\ paid \in Nat
    BY DEF SpendOK, TypeOK
  <2>3. ASSUME NEW c \in Call, NEW k, NEW x, Process(c, k, x), UNCHANGED <<paid, spent>>
        PROVE  SpendOK'
    <3>1. CASE spent < Cap
      BY <2>1, <2>2, <2>3, <3>1
    <3>2. CASE ~(spent < Cap)
      <4>1. at' = [at EXCEPT ![c] = at'[c]] /\ at'[c] \in {"threw", "returned", "polling"}
        BY <2>2, <2>3, <3>2, EngineAssumption
           DEF TypeOK, Process, AskLlm, Conclude, Exhausted, Goto
      <4> QED
        BY <2>1, <2>2, <2>3, <4>1 DEF TypeOK, Calling, Asking
    <3> QED
      BY <3>1, <3>2
  <2>4. ASSUME NEW c \in Call, Throw(c), UNCHANGED <<paid, spent>> PROVE SpendOK'
    BY <2>1, <2>2, <2>4 DEF TypeOK, Throw, Goto, Calling, Asking
  <2>5. CASE \E r \in Run : SourceStep(r)
    <3>1. PICK r \in Run : SourceStep(r)
      BY <2>5
    <3>2. r \in Call
      BY DEF Call
    <3>3. CASE \E raw \in Raw : Arrives(r, raw)
      <4>1. UNCHANGED <<paid, spent>>
        BY <3>3 DEF Arrives
      <4>2. CASE UNCHANGED at
        BY <2>1, <2>2, <4>1, <4>2 DEF Calling, Asking
      <4>3. CASE \E raw \in Raw : Process(r, raw[1], raw[2])
        BY <2>3, <3>2, <4>1, <4>3
      <4> QED
        BY <3>3, <4>2, <4>3 DEF Arrives
    <3>4. CASE SourceEnds(r)
      BY <2>1, <2>2, <3>2, <3>4 DEF TypeOK, SourceEnds, history, Goto, Calling, Asking
    <3>5. CASE SourceThrows(r)
      BY <2>4, <3>2, <3>5 DEF SourceThrows
    <3> QED
      BY <3>1, <3>3, <3>4, <3>5 DEF SourceStep
  <2>6. CASE \E s \in Share, raw \in Raw : Underwrite(s, raw)
    <3>1. PICK s \in Share, raw \in Raw : Underwrite(s, raw)
      BY <2>6
    <3>2. s \in Call /\ UNCHANGED <<paid, spent>>
      BY <3>1 DEF Call, Underwrite
    <3> QED
      BY <2>3, <2>4, <3>1, <3>2 DEF Underwrite
  <2>7. CASE \E c \in Call : StageStep(c)
    <3>1. PICK c \in Call : StageStep(c)
      BY <2>7
    <3>2. CASE \E cost \in Costs, parsed \in BOOLEAN : LlmAnswers(c, cost, parsed)
      BY <3>2, AnswerKeepsSpend
    <3>3. CASE LlmRejects(c) \/ NotifierThrows(c)
      BY <2>4, <3>3 DEF LlmRejects, NotifierThrows
    <3>4. CASE NothingToValue(c) \/ Alerted(c) \/ \E b, f, h \in BOOLEAN : Rank(c, b, f, h)
      <4>1. /\ UNCHANGED <<paid, spent>>
            /\ at' = [at EXCEPT ![c] = at'[c]]
            /\ at'[c] \in {"returned", "polling", "alerting"}
        BY <3>4 DEF TypeOK, NothingToValue, Alerted, Rank, Conclude, Goto
      <4> QED
        BY <2>1, <2>2, <4>1 DEF TypeOK, Calling, Asking
    <3> QED
      BY <3>1, <3>2, <3>3, <3>4 DEF StageStep
  <2>8. CASE \E raw \in Raw \ {Poisoned} : Feed(raw[1], raw[2])
    BY <2>1, <2>2, <2>8 DEF Feed, stageVars, history, Calling, Asking
  <2>9. CASE ResetBudget
    BY <2>1, <2>9, EngineAssumption DEF ResetBudget
  <2>10. CASE UNCHANGED vars
    BY <2>1, <2>2, <2>10 DEF vars, stageVars, history, Calling, Asking
  <2> QED
    BY <2>5, <2>6, <2>7, <2>8, <2>9, <2>10 DEF Next
<1>3. ASSUME TypeOK, SpendOK PROVE SpendIsBounded
  <2> DEFINE n == Cardinality(Calling)
             all == Cardinality(Call)
  <2>1. MaxCost * n \in Nat /\ MaxCost * all \in Nat
    BY CallingIsFinite, MaxCostIsMax, Scales
  <2>2. paid + MaxCost * n <= Cap - 1 + MaxCost * all
    BY <1>3 DEF SpendOK
  <2>3. paid \in Nat /\ Cap \in Nat
    BY <1>3, EngineAssumption DEF TypeOK
  <2> HIDE DEF n, all
  <2>4. paid <= Cap - 1 + MaxCost * all
    BY <2>1, <2>2, <2>3
  <2> QED
    BY <2>4 DEF SpendIsBounded, all, Call
<1>4. Spec => []TypeOK
  BY TypeCorrect
<1> QED
  BY <1>1, <1>2, <1>3, <1>4, PTL DEF Spec
===============================================================================
