-------------------------- MODULE DirectDecisions --------------------------
(***************************************************************************)
(* Direct-play decisions kept in server.go: rememberDirectDecision         *)
(* on every structured decision response, pruneDirectDecisionsLocked, and  *)
(* the lookups of handleTranscodeStart.  A response first clears what its  *)
(* session had; whether one of its Parts is redirected is then decided     *)
(* without decisionMu (selectPlaybackPlan may run a probe) before a record *)
(* is stored.  Responses are numbered in the order they clear.             *)
(*                                                                         *)
(* ClearedIfDirect, PrunedLate and EvictedYoungest are mistakes the code   *)
(* could have had; the specification uses none.                            *)
(***************************************************************************)
EXTENDS Integers, FiniteSets

CONSTANTS
  Req,           \* request goroutines
  Session,       \* normalised playback session ids
  Limit,         \* directDecisionSessionLimit
  TTL,           \* MappingCacheTTL, in ticks
  MaxTime,       \* bound: the last tick
  MaxResponses   \* bound: decision responses ever handled

ASSUME DecisionAssumption ==
  /\ IsFiniteSet(Session) /\ Session # {}
  /\ Limit \in Nat /\ TTL \in Nat /\ MaxTime \in Nat /\ MaxResponses \in Nat

VARIABLES
  directDecisions,  \* s.directDecisions
  now,              \* time.Now()
  pc,               \* what each request is doing
  response,         \* the decision response a request is handling
  count,            \* responses handled so far
  latest,           \* history: the last response that cleared each session
  stored,           \* history: the last record stored for each session
  crowded           \* history: the sessions whose last response began while an
                    \* earlier one of theirs was still being handled

vars == <<directDecisions, now, pc, response, count, latest, stored, crowded>>

None == 0
Time == 0..MaxTime
Number == 1..MaxResponses
NoRecord == [from |-> None, at |-> 0]
Record == [from : Number, at : Time]
Response == [from : Number, session : Session]

Init ==
  /\ directDecisions = [s \in Session |-> NoRecord]
  /\ now = 0
  /\ pc = [r \in Req |-> "idle"]
  /\ response = [r \in Req |-> [from |-> None, session |-> CHOOSE s \in Session : TRUE]]
  /\ count = 0
  /\ latest = [s \in Session |-> None]
  /\ stored = [s \in Session |-> NoRecord]
  /\ crowded = {}

Remembered(records) == {s \in Session : records[s] # NoRecord}

-----------------------------------------------------------------------------
(* rememberDirectDecision *)

Deciding(s) == \E r \in Req : pc[r] = "deciding" /\ response[r].session = s

ClearedIfDirect(s, direct) ==
  IF direct THEN [directDecisions EXCEPT ![s] = NoRecord] ELSE directDecisions
(* clearDirectDecision, before the body is even looked at. *)
Cleared(s, direct) == [directDecisions EXCEPT ![s] = NoRecord]

(* decisionBodyIsDirect says whether there is anything to remember. *)
Supersede(r, s, direct) ==
  LET n == count + 1 IN
  /\ pc[r] = "idle" /\ n \in Number
  /\ directDecisions' = Cleared(s, direct)
  /\ count' = n /\ latest' = [latest EXCEPT ![s] = n]
  /\ crowded' = IF Deciding(s) THEN crowded \cup {s} ELSE crowded \ {s}
  /\ pc' = [pc EXCEPT ![r] = IF direct THEN "deciding" ELSE "idle"]
  /\ response' = [response EXCEPT ![r] = [from |-> n, session |-> s]]
  /\ UNCHANGED <<now, stored>>

(* None of the response's Parts is a resolved STRM Part with a redirect plan. *)
Decline(r) ==
  /\ pc[r] = "deciding"
  /\ pc' = [pc EXCEPT ![r] = "idle"]
  /\ UNCHANGED <<directDecisions, now, response, count, latest, stored, crowded>>

(* pruneDirectDecisionsLocked: expired records go, then the oldest ones while
   there are more than Limit.  Equal times are broken by the map's order. *)
Expired(rec) == now > rec.at + TTL
Unexpired(records) ==
  [s \in Session |-> IF Expired(records[s]) THEN NoRecord ELSE records[s]]

EvictedYoungest(records) ==
  {out \in SUBSET Remembered(records) :
     /\ Cardinality(out) = Cardinality(Remembered(records)) - Limit
     /\ \A s \in out, t \in Remembered(records) \ out : records[t].at <= records[s].at}
Evicted(records) ==
  {out \in SUBSET Remembered(records) :
     /\ Cardinality(out) = Cardinality(Remembered(records)) - Limit
     /\ \A s \in out, t \in Remembered(records) \ out : records[s].at <= records[t].at}

Without(records, out) ==
  [s \in Session |-> IF s \in out THEN NoRecord ELSE records[s]]

PrunedLate(records) ==
  LET kept == Unexpired(records) IN
  IF Cardinality(Remembered(kept)) <= Limit + 1 THEN {kept}
  ELSE {Without(kept, out) : out \in Evicted(kept)}
Pruned(records) ==
  LET kept == Unexpired(records) IN
  IF Cardinality(Remembered(kept)) <= Limit THEN {kept}
  ELSE {Without(kept, out) : out \in Evicted(kept)}

Remember(r) ==
  LET s == response[r].session
      record == [from |-> response[r].from, at |-> now] IN
  /\ pc[r] = "deciding"
  /\ directDecisions' \in Pruned([directDecisions EXCEPT ![s] = record])
  /\ stored' = [stored EXCEPT ![s] = record]
  /\ pc' = [pc EXCEPT ![r] = "idle"]
  /\ UNCHANGED <<now, response, count, latest, crowded>>

-----------------------------------------------------------------------------
(* directDecisionRecord: a start forgets an expired record it comes upon; any
   other lookup changes nothing. *)
LookupExpired(s) ==
  /\ directDecisions[s] # NoRecord /\ Expired(directDecisions[s])
  /\ directDecisions' = [directDecisions EXCEPT ![s] = NoRecord]
  /\ UNCHANGED <<now, pc, response, count, latest, stored, crowded>>

Tick ==
  /\ now < MaxTime /\ now' = now + 1
  /\ UNCHANGED <<directDecisions, pc, response, count, latest, stored, crowded>>

Next ==
  \/ \E r \in Req, s \in Session, direct \in BOOLEAN : Supersede(r, s, direct)
  \/ \E r \in Req : Decline(r) \/ Remember(r)
  \/ \E s \in Session : LookupExpired(s)
  \/ Tick

Spec == Init /\ [][Next]_vars

-----------------------------------------------------------------------------
TypeOK ==
  /\ directDecisions \in [Session -> Record \cup {NoRecord}]
  /\ now \in Time
  /\ pc \in [Req -> {"idle", "deciding"}]
  /\ response \in [Req -> [from : Number \cup {None}, session : Session]]
  /\ count \in 0..MaxResponses
  /\ latest \in [Session -> Number \cup {None}]
  /\ stored \in [Session -> Record \cup {NoRecord}]
  /\ crowded \subseteq Session
  /\ \A r \in Req : pc[r] = "deciding" => response[r].from # None

(* The memory stays bounded: a record holds a whole response body, so the cache
   may at no time keep more than directDecisionSessionLimit of them. *)
Bounded == Cardinality(Remembered(directDecisions)) <= Limit

(* A start that follows the decisions of its session one at a time never sees an
   older one than the last: however slow their probes and whatever other
   sessions do, what is remembered is what the last response said. *)
LatestUnlessCrowded ==
  \A s \in Session :
    directDecisions[s] # NoRecord /\ s \notin crowded => directDecisions[s].from = latest[s]

(* A decision is not forgotten early: until it expires or a later response of
   its session clears it, a record is there for the start to find, unless the
   cache is full of Limit other sessions that stored theirs no earlier. *)
Newer(s) == {t \in Session \ {s} : stored[t] # NoRecord /\ stored[t].at >= stored[s].at}
Retained ==
  \A s \in Session :
    /\ stored[s] # NoRecord /\ stored[s].from = latest[s]
    /\ ~Expired(stored[s]) /\ directDecisions[s] = NoRecord
    => Cardinality(Newer(s)) >= Limit

-----------------------------------------------------------------------------
(* The inductive invariant behind LatestUnlessCrowded: the same of a response
   that has yet to store its record. *)
HandledInv ==
  \A r \in Req : pc[r] = "deciding" =>
    \/ response[r].session \in crowded
    \/ response[r].from = latest[response[r].session]

(* What is remembered of a session is the last record stored for it, and neither
   records nor responses come from the future. *)
StoredInv ==
  /\ \A s \in Session :
       /\ directDecisions[s] # NoRecord => directDecisions[s] = stored[s]
       /\ stored[s].from <= count /\ stored[s].at <= now
  /\ \A r \in Req : response[r].from <= count

IInv == TypeOK /\ HandledInv /\ LatestUnlessCrowded /\ Bounded /\ StoredInv /\ Retained
=============================================================================
