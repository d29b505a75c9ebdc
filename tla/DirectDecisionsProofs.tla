----------------------- MODULE DirectDecisionsProofs -----------------------
(***************************************************************************)
(* Proofs about DirectDecisions, for any number of requests and sessions,  *)
(* any limit and any time to live.                                         *)
(***************************************************************************)
EXTENDS DirectDecisions, FiniteSetTheorems, TLAPS

USE DecisionAssumption DEF None, Time, Number

(* No record is one of the records that are stored: a stored one has a number. *)
LEMMA NoRecordIsNone == NoRecord \notin Record
  BY DEF NoRecord, Record

(* The sets the cache's size is measured on are finite. *)
LEMMA RememberedFinite ==
  ASSUME NEW records
  PROVE  /\ IsFiniteSet(Remembered(records))
         /\ Cardinality(Remembered(records)) \in Nat
  <1>1. Remembered(records) \subseteq Session
    BY DEF Remembered
  <1> QED BY <1>1, FS_Subset, FS_CardinalityType

(* Taking records out takes exactly those out. *)
LEMMA RememberedWithout ==
  ASSUME NEW records \in [Session -> Record \cup {NoRecord}], NEW out \in SUBSET Session
  PROVE  /\ Without(records, out) \in [Session -> Record \cup {NoRecord}]
         /\ Remembered(Without(records, out)) = Remembered(records) \ out
         /\ \A s \in Session \ out : Without(records, out)[s] = records[s]
  BY DEF Remembered, Without

(* pruneDirectDecisionsLocked: what it leaves was there before and has not
   expired, there are at most Limit records of it, and when it drops a record
   that has not expired then exactly Limit records stay, none of them older. *)
LEMMA Prunes ==
  ASSUME NEW records \in [Session -> Record \cup {NoRecord}],
         NEW pruned \in Pruned(records), now \in Nat
  PROVE  /\ pruned \in [Session -> Record \cup {NoRecord}]
         /\ \A s \in Session : pruned[s] # NoRecord => pruned[s] = records[s]
         /\ Cardinality(Remembered(pruned)) <= Limit
         /\ \A s \in Session :
              records[s] # NoRecord /\ ~Expired(records[s]) /\ pruned[s] = NoRecord
              => /\ Cardinality(Remembered(pruned)) = Limit
                 /\ \A t \in Remembered(pruned) : records[t].at >= records[s].at
<1> DEFINE kept == Unexpired(records)
<1>1. /\ kept \in [Session -> Record \cup {NoRecord}]
      /\ \A s \in Session : kept[s] # NoRecord => kept[s] = records[s]
      /\ \A s \in Session : ~Expired(records[s]) => kept[s] = records[s]
  BY DEF Unexpired
<1>2. Cardinality(Remembered(kept)) \in Nat /\ IsFiniteSet(Remembered(kept))
  BY RememberedFinite
<1>3. CASE Cardinality(Remembered(kept)) <= Limit
  <2>1. pruned = kept
    BY <1>3 DEF Pruned
  <2> QED BY <2>1, <1>1, <1>3
<1>4. CASE ~(Cardinality(Remembered(kept)) <= Limit)
  <2>1. PICK out \in Evicted(kept) : pruned = Without(kept, out)
    BY <1>4 DEF Pruned
  <2>2. /\ out \subseteq Remembered(kept)
        /\ Cardinality(out) = Cardinality(Remembered(kept)) - Limit
        /\ \A s \in out, t \in Remembered(kept) \ out : kept[s].at <= kept[t].at
    BY DEF Evicted
  <2>3. out \in SUBSET Session
    BY <2>2 DEF Remembered
  <2> HIDE DEF kept
  <2>4. /\ pruned \in [Session -> Record \cup {NoRecord}]
        /\ Remembered(pruned) = Remembered(kept) \ out
        /\ \A s \in Session \ out : pruned[s] = kept[s]
    BY <2>1, <2>3, <1>1, RememberedWithout
  <2>5. Cardinality(Remembered(kept) \ out) = Cardinality(Remembered(kept)) - Cardinality(out)
    <3>1. Remembered(kept) \cap out = out
      BY <2>2
    <3>2. Cardinality(Remembered(kept) \ out)
            = Cardinality(Remembered(kept)) - Cardinality(Remembered(kept) \cap out)
      BY <1>2, FS_Difference, Zenon
    <3> QED BY <3>1, <3>2, Zenon
  <2>6. Cardinality(Remembered(pruned)) = Limit
    BY <2>2, <2>4, <2>5, <1>2
  <2>7. ASSUME NEW s \in Session, pruned[s] # NoRecord
        PROVE  pruned[s] = records[s] /\ s \notin out
    <3>1. s \notin out
      BY <2>4, <2>7 DEF Remembered
    <3> QED BY <3>1, <2>4, <2>7, <1>1
  <2>8. ASSUME NEW s \in Session, records[s] # NoRecord, ~Expired(records[s]),
               pruned[s] = NoRecord, NEW t \in Remembered(pruned)
        PROVE  records[t].at >= records[s].at
    <3>1. kept[s] = records[s] /\ s \in out
      BY <1>1, <2>4, <2>8
    <3>2. t \in Remembered(kept) \ out /\ t \in Session
      BY <2>4 DEF Remembered
    <3>3. kept[t] = records[t] /\ kept[t] # NoRecord
      BY <3>2, <1>1 DEF Remembered
    <3>4. records[s] \in Record /\ records[t] \in Record
      BY <3>2, <3>3, <2>8
    <3>5. kept[s].at <= kept[t].at
      BY <3>1, <3>2, <2>2
    <3> QED BY <3>1, <3>3, <3>4, <3>5 DEF Record
  <2>9. Cardinality(Remembered(pruned)) <= Limit
    BY <2>6
  <2>10. \A s \in Session :
           records[s] # NoRecord /\ ~Expired(records[s]) /\ pruned[s] = NoRecord
           => /\ Cardinality(Remembered(pruned)) = Limit
              /\ \A t \in Remembered(pruned) : records[t].at >= records[s].at
    BY <2>6, <2>8, Zenon
  <2>11. \A s \in Session : pruned[s] # NoRecord => pruned[s] = records[s]
    BY <2>7
  <2> QED BY <2>4, <2>9, <2>10, <2>11, Zenon
<1> QED BY <1>3, <1>4

-----------------------------------------------------------------------------
LEMMA InitIInv == Init => IInv
<1> SUFFICES ASSUME Init PROVE IInv
  OBVIOUS
<1>1. TypeOK
  <2>1. (CHOOSE s \in Session : TRUE) \in Session
    OBVIOUS
  <2> QED BY <2>1 DEF Init, TypeOK
<1>2. HandledInv /\ LatestUnlessCrowded /\ StoredInv /\ Retained
  BY DEF Init, HandledInv, LatestUnlessCrowded, StoredInv, Retained, NoRecord
<1>3. Remembered(directDecisions) = {}
  BY DEF Init, Remembered
<1>4. Bounded
  BY <1>3, FS_EmptySet DEF Bounded
<1> QED BY <1>1, <1>2, <1>4 DEF IInv

(* A response clears what its session had, and from then on is its latest. *)
LEMMA SupersedeStep ==
  ASSUME IInv, NEW r \in Req, NEW s \in Session, NEW direct \in BOOLEAN, Supersede(r, s, direct)
  PROVE  IInv'
<1> DEFINE n == count + 1
<1> USE DEF IInv, Cleared
<1>1. /\ n \in Nat /\ n \in 1..MaxResponses /\ count' = n
      /\ latest' = [latest EXCEPT ![s] = n]
      /\ response' = [response EXCEPT ![r] = [from |-> n, session |-> s]]
      /\ directDecisions' = [directDecisions EXCEPT ![s] = NoRecord]
      /\ now' = now /\ stored' = stored
  BY DEF Supersede
<1>2. TypeOK'
  <2>1. pc' \in [Req -> {"idle", "deciding"}]
    BY DEF Supersede, TypeOK
  <2>2. crowded' \subseteq Session
    BY DEF Supersede, TypeOK
  <2>3. response' \in [Req -> [from : 1..MaxResponses \cup {0}, session : Session]]
    BY <1>1 DEF TypeOK
  <2>4. \A q \in Req : pc'[q] = "deciding" => response'[q].from # 0
    BY <1>1 DEF TypeOK, Supersede
  <2> QED BY <1>1, <2>1, <2>2, <2>3, <2>4 DEF TypeOK
<1>3. HandledInv'
  <2> SUFFICES ASSUME NEW q \in Req, pc'[q] = "deciding"
               PROVE  \/ response'[q].session \in crowded'
                      \/ response'[q].from = latest'[response'[q].session]
    BY DEF HandledInv
  <2>1. CASE q = r
    BY <1>1, <2>1 DEF TypeOK
  <2>2. CASE q # r
    <3>1. response'[q] = response[q] /\ pc[q] = "deciding" /\ response[q].session \in Session
      BY <1>1, <2>2 DEF TypeOK, Supersede
    <3>2. CASE response[q].session = s
      BY <3>1, <3>2 DEF Supersede, Deciding
    <3>3. CASE response[q].session # s
      BY <1>1, <3>1, <3>3 DEF Supersede, HandledInv, TypeOK
    <3> QED BY <3>2, <3>3
  <2> QED BY <2>1, <2>2
<1>4. LatestUnlessCrowded'
  <2> SUFFICES ASSUME NEW t \in Session, directDecisions'[t] # NoRecord, t \notin crowded'
               PROVE  directDecisions'[t].from = latest'[t]
    BY DEF LatestUnlessCrowded
  <2>1. t # s /\ directDecisions'[t] = directDecisions[t] /\ latest'[t] = latest[t]
    BY <1>1 DEF TypeOK
  <2> QED BY <2>1 DEF Supersede, LatestUnlessCrowded
<1>5. Bounded'
  <2>1. Remembered(directDecisions') \subseteq Remembered(directDecisions)
    BY <1>1 DEF Remembered, TypeOK
  <2>2. IsFiniteSet(Remembered(directDecisions))
    BY RememberedFinite
  <2>3. Cardinality(Remembered(directDecisions')) <= Cardinality(Remembered(directDecisions))
    BY <2>1, <2>2, FS_Subset
  <2>4. Cardinality(Remembered(directDecisions')) \in Nat /\ Cardinality(Remembered(directDecisions)) \in Nat
    BY RememberedFinite
  <2> QED BY <2>3, <2>4 DEF Bounded
<1>6. StoredInv'
  <2>1. \A t \in Session : stored[t].from \in Nat
    BY DEF TypeOK, Record, NoRecord
  <2>2. \A q \in Req : response[q].from \in Nat
    BY DEF TypeOK
  <2>3. count \in Nat
    BY DEF TypeOK
  <2> QED BY <1>1, <2>1, <2>2, <2>3 DEF StoredInv, TypeOK
<1>7. Retained'
  <2> SUFFICES ASSUME NEW t \in Session, stored'[t] # NoRecord, stored'[t].from = latest'[t],
                      ~Expired(stored[t])', directDecisions'[t] = NoRecord
               PROVE  Cardinality(Newer(t)') >= Limit
    BY DEF Retained
  <2>1. t # s
    <3>1. stored[s].from \in Nat /\ stored[s].from <= count /\ count \in Nat
      BY DEF TypeOK, Record, NoRecord, StoredInv
    <3> QED BY <1>1, <3>1 DEF TypeOK
  <2>2. Newer(t)' = Newer(t) /\ ~Expired(stored[t])
    BY <1>1 DEF Newer, Expired
  <2>3. directDecisions[t] = NoRecord /\ latest[t] = latest'[t]
    BY <1>1, <2>1 DEF TypeOK
  <2> QED BY <1>1, <2>2, <2>3 DEF Retained
<1> QED BY <1>2, <1>3, <1>4, <1>5, <1>6, <1>7

(* A record is stored and the cache is pruned. *)
LEMMA RememberStep ==
  ASSUME IInv, NEW r \in Req, Remember(r)
  PROVE  IInv'
<1> USE DEF IInv
<1>1. PICK s \in Session : s = response[r].session
  BY DEF TypeOK
<1>2. PICK rec \in Record : rec = [from |-> response[r].from, at |-> now]
  <2>1. response[r].from \in 1..MaxResponses
    BY DEF TypeOK, Remember
  <2> QED BY <2>1 DEF TypeOK, Record
<1>3. PICK records : records = [directDecisions EXCEPT ![s] = rec]
  OBVIOUS
<1>4. /\ directDecisions' \in Pruned(records)
      /\ stored' = [stored EXCEPT ![s] = rec]
      /\ pc[r] = "deciding" /\ pc' = [pc EXCEPT ![r] = "idle"]
      /\ UNCHANGED <<now, response, count, latest, crowded>>
  BY <1>1, <1>2, <1>3 DEF Remember
<1>5. now \in Nat /\ rec.at = now /\ rec.from = response[r].from /\ rec # NoRecord
  BY <1>2, NoRecordIsNone DEF TypeOK
<1>6. records \in [Session -> Record \cup {NoRecord}]
  BY <1>3 DEF TypeOK
<1>7. /\ directDecisions' \in [Session -> Record \cup {NoRecord}]
      /\ \A t \in Session : directDecisions'[t] # NoRecord => directDecisions'[t] = records[t]
      /\ Cardinality(Remembered(directDecisions')) <= Limit
      /\ \A t \in Session :
           records[t] # NoRecord /\ ~Expired(records[t]) /\ directDecisions'[t] = NoRecord
           => /\ Cardinality(Remembered(directDecisions')) = Limit
              /\ \A u \in Remembered(directDecisions') : records[u].at >= records[t].at
  BY <1>4, <1>5, <1>6, Prunes
<1>8. \A t \in Session : records[t] # NoRecord => records[t] = stored'[t]
  BY <1>3, <1>4 DEF StoredInv, TypeOK
<1>9. stored' \in [Session -> Record \cup {NoRecord}]
  BY <1>4 DEF TypeOK
<1>10. TypeOK'
  BY <1>4, <1>7, <1>9 DEF TypeOK
<1>11. HandledInv'
  BY <1>4 DEF HandledInv, TypeOK
<1>12. LatestUnlessCrowded'
  <2> SUFFICES ASSUME NEW t \in Session, directDecisions'[t] # NoRecord, t \notin crowded
               PROVE  directDecisions'[t].from = latest[t]
    BY <1>4 DEF LatestUnlessCrowded
  <2>1. CASE t = s
    <3>1. directDecisions'[t] = rec
      BY <1>3, <1>7, <2>1 DEF TypeOK
    <3> QED BY <3>1, <2>1, <1>1, <1>4, <1>5 DEF HandledInv
  <2>2. CASE t # s
    <3>1. directDecisions'[t] = directDecisions[t]
      BY <1>3, <1>7, <2>2 DEF TypeOK
    <3> QED BY <3>1 DEF LatestUnlessCrowded
  <2> QED BY <2>1, <2>2
<1>13. StoredInv'
  <2>1. \A t \in Session : stored'[t].from <= count /\ stored'[t].at <= now
    BY <1>4, <1>5 DEF StoredInv, TypeOK
  <2> QED BY <1>4, <1>7, <1>8, <2>1 DEF StoredInv
<1>14. Retained'
  <2> SUFFICES ASSUME NEW t \in Session, stored'[t] # NoRecord, stored'[t].from = latest[t],
                      ~Expired(stored'[t]), directDecisions'[t] = NoRecord
               PROVE  Cardinality(Newer(t)') >= Limit
    BY <1>4 DEF Retained, Expired
  <2>1. \A u \in Session : stored'[u].at \in Nat
    BY <1>9 DEF Record, NoRecord
  <2>2. Newer(t)' = {u \in Session \ {t} : stored'[u] # NoRecord /\ stored'[u].at >= stored'[t].at}
    BY DEF Newer
  <2>3. IsFiniteSet(Newer(t)') /\ Cardinality(Newer(t)') \in Nat
    <3>1. Newer(t)' \subseteq Session
      BY <2>2
    <3> QED BY <3>1, FS_Subset, FS_CardinalityType
  <2>4. CASE records[t] # NoRecord
    <3>1. records[t] = stored'[t]
      BY <1>8, <2>4
    <3>2. /\ Cardinality(Remembered(directDecisions')) = Limit
          /\ \A u \in Remembered(directDecisions') : records[u].at >= stored'[t].at
      BY <1>7, <2>4, <3>1
    <3>3. Remembered(directDecisions') \subseteq Newer(t)'
      <4> SUFFICES ASSUME NEW u \in Remembered(directDecisions') PROVE u \in Newer(t)'
        OBVIOUS
      <4>1. u \in Session /\ directDecisions'[u] # NoRecord
        BY DEF Remembered
      <4>2. records[u] = directDecisions'[u] /\ records[u] = stored'[u]
        BY <4>1, <1>7, <1>8
      <4> QED BY <4>1, <4>2, <3>2, <2>2
    <3> QED BY <3>2, <3>3, <2>3, FS_Subset
  <2>5. CASE records[t] = NoRecord
    <3>1. t # s /\ directDecisions[t] = NoRecord /\ stored'[t] = stored[t]
      BY <1>3, <1>4, <1>5, <2>5 DEF TypeOK
    <3>2. Cardinality(Newer(t)) >= Limit
      BY <3>1 DEF Retained
    <3>3. Newer(t) \subseteq Newer(t)'
      <4> SUFFICES ASSUME NEW u \in Newer(t) PROVE u \in Newer(t)'
        OBVIOUS
      <4>1. u \in Session \ {t} /\ stored[u] # NoRecord /\ stored[u].at >= stored[t].at
        BY DEF Newer
      <4>2. CASE u = s
        <5>1. stored'[u] = rec
          BY <1>4, <4>2 DEF TypeOK
        <5>2. stored[t].at <= now /\ stored[t].at \in Nat
          BY <2>1, <3>1 DEF StoredInv
        <5> QED BY <2>2, <3>1, <4>1, <5>1, <5>2, <1>5
      <4>3. CASE u # s
        BY <2>2, <3>1, <4>1, <4>3, <1>4 DEF TypeOK
      <4> QED BY <4>2, <4>3
    <3>4. Cardinality(Newer(t)) \in Nat /\ Cardinality(Newer(t)) <= Cardinality(Newer(t)')
      BY <2>3, <3>3, FS_Subset, FS_CardinalityType
    <3> QED BY <2>3, <3>2, <3>4
  <2> QED BY <2>4, <2>5
<1>15. Bounded'
  BY <1>7 DEF Bounded
<1> QED BY <1>10, <1>11, <1>12, <1>13, <1>14, <1>15

(* An expired record is dropped by the start that comes upon it. *)
LEMMA LookupStep ==
  ASSUME IInv, NEW s \in Session, LookupExpired(s)
  PROVE  IInv'
<1> USE DEF IInv
<1>1. /\ Expired(directDecisions[s]) /\ directDecisions[s] # NoRecord
      /\ directDecisions' = [directDecisions EXCEPT ![s] = NoRecord]
      /\ UNCHANGED <<now, pc, response, count, latest, stored, crowded>>
  BY DEF LookupExpired
<1>2. TypeOK' /\ HandledInv' /\ LatestUnlessCrowded' /\ StoredInv'
  BY <1>1 DEF TypeOK, HandledInv, LatestUnlessCrowded, StoredInv
<1>3. Bounded'
  <2>1. Remembered(directDecisions') \subseteq Remembered(directDecisions)
    BY <1>1 DEF Remembered, TypeOK
  <2>2. IsFiniteSet(Remembered(directDecisions))
    BY RememberedFinite
  <2>3. Cardinality(Remembered(directDecisions')) <= Cardinality(Remembered(directDecisions))
    BY <2>1, <2>2, FS_Subset
  <2>4. Cardinality(Remembered(directDecisions')) \in Nat /\ Cardinality(Remembered(directDecisions)) \in Nat
    BY RememberedFinite
  <2> QED BY <2>3, <2>4 DEF Bounded
<1>4. Retained'
  <2> SUFFICES ASSUME NEW t \in Session, stored[t] # NoRecord, stored[t].from = latest[t],
                      ~Expired(stored[t]), directDecisions'[t] = NoRecord
               PROVE  Cardinality(Newer(t)) >= Limit
    BY <1>1 DEF Retained, Expired, Newer
  <2>1. t # s /\ directDecisions[t] = NoRecord
    BY <1>1 DEF StoredInv, TypeOK
  <2> QED BY <2>1 DEF Retained
<1> QED BY <1>2, <1>3, <1>4

(* Time only makes records expire. *)
LEMMA TickStep ==
  ASSUME IInv, Tick
  PROVE  IInv'
<1> USE DEF IInv
<1>1. /\ now' = now + 1 /\ now < MaxTime /\ now \in Nat
      /\ UNCHANGED <<directDecisions, pc, response, count, latest, stored, crowded>>
  BY DEF Tick, TypeOK
<1>2. \A s \in Session : stored[s].at \in Nat
  BY DEF TypeOK, Record, NoRecord
<1>3. TypeOK' /\ HandledInv' /\ LatestUnlessCrowded' /\ StoredInv'
  BY <1>1, <1>2 DEF TypeOK, HandledInv, LatestUnlessCrowded, StoredInv
<1>4. Retained'
  BY <1>1, <1>2 DEF Retained, Expired, Newer
<1>5. Bounded'
  BY <1>1 DEF Bounded, Remembered
<1> QED BY <1>3, <1>4, <1>5

(* What changes nothing but a request's program counter. *)
LEMMA DeclineStep ==
  ASSUME IInv, NEW r \in Req, Decline(r)
  PROVE  IInv'
<1> USE DEF IInv
<1>1. /\ pc' = [pc EXCEPT ![r] = "idle"]
      /\ UNCHANGED <<directDecisions, now, response, count, latest, stored, crowded>>
  BY DEF Decline
<1> QED BY <1>1 DEF TypeOK, HandledInv, LatestUnlessCrowded, StoredInv, Retained, Expired, Newer,
                    Bounded, Remembered

LEMMA StutterStep ==
  ASSUME IInv, UNCHANGED vars
  PROVE  IInv'
  BY DEF IInv, vars, TypeOK, HandledInv, LatestUnlessCrowded, StoredInv, Retained, Expired, Newer,
         Bounded, Remembered

(* The invariant is inductive and holds in every state. *)
THEOREM Invariance == Spec => []IInv
<1>1. IInv /\ [Next]_vars => IInv'
  BY SupersedeStep, RememberStep, LookupStep, TickStep, DeclineStep, StutterStep DEF Next
<1> QED BY <1>1, InitIInv, PTL DEF Spec

(* The memory of direct decisions never holds more than Limit records, however
   many sessions ask (pruneDirectDecisionsLocked). *)
THEOREM MemoryBounded == Spec => []Bounded
  BY Invariance, PTL DEF IInv

(* A session whose responses are handled one at a time is only ever remembered
   as its last response said (rememberDirectDecision). *)
THEOREM LatestRemembered == Spec => []LatestUnlessCrowded
  BY Invariance, PTL DEF IInv

(* No record that a start could still use is forgotten before Limit other
   sessions stored theirs no earlier. *)
THEOREM RecordsRetained == Spec => []Retained
  BY Invariance, PTL DEF IInv
=============================================================================
