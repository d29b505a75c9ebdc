------------------------ MODULE PlaybackStartProofs ------------------------
(***************************************************************************)
(* Proofs about PlaybackStart: it implements DirectDecisions, whose own    *)
(* theorems then hold of it, and the fallback and the redirects follow     *)
(* Plex, for any number of requests, sessions and Parts.                   *)
(***************************************************************************)
EXTENDS PlaybackStart, TLAPS

P == INSTANCE DirectDecisionsProofs WITH pc <- remembering

-----------------------------------------------------------------------------
(* The handlers' own state: requests, sessions, rejections. *)
OwnInv == TypeOK /\ FallbackIsEarned /\ EarnedInv /\ RegisteringInv

(* What a move of one request does to the calls. *)
LEMMA Moved ==
  ASSUME TypeOK, NEW r \in Req, ~At(r, "idle"),
         NEW place \in Places \cup {"idle"}, Goto(r, place)
  PROVE  /\ call' \in [Req -> Call \cup {NoCall}]
         /\ \A q \in Req \ {r} : call'[q] = call[q]
         /\ place = "idle" => call'[r] = NoCall
         /\ place # "idle" => /\ call'[r].at = place /\ call'[r].kind = call[r].kind
                              /\ call'[r].session = call[r].session
                              /\ call'[r].part = call[r].part
                              /\ call'[r].transcode = call[r].transcode
                              /\ call[r] \in Call
<1>1. call[r] \in Call
  BY DEF TypeOK, At, NoCall
<1>2. [call[r] EXCEPT !.at = place] \in Call \/ place = "idle"
  BY <1>1 DEF Call
<1> QED
  BY <1>1, <1>2 DEF TypeOK, Goto, Call

(* A request that is not idle is a call with a session and a Part. *)
LEMMA Calls ==
  ASSUME TypeOK, NEW r \in Req, ~At(r, "idle")
  PROVE  /\ call[r] \in Call /\ call[r].session \in Session /\ call[r].part \in Part
         /\ call[r].transcode \in BOOLEAN
BY DEF TypeOK, At, NoCall, Call

(* Moves that register and reject nothing keep what requests hold, if the one that
   moves does not come to hold more than it did. *)
LEMMA MovesKeep ==
  ASSUME OwnInv, NEW r \in Req, ~At(r, "idle"),
         NEW place \in Places \cup {"idle"}, Goto(r, place),
         place = "rejected" => <<call[r].session, call[r].part>> \in rejected',
         place = "registering" => At(r, "rejected") /\ HLS /\ call[r].part \in STRM,
         rejected \subseteq rejected', rejected' \subseteq Session \X Part,
         about' \in [1..MaxResponses -> Part \cup {NoPart}],
         last' \in [Session -> {"none", "direct", "other", "opaque"}],
         UNCHANGED hls
  PROVE  OwnInv'
<1> USE DEF OwnInv
<1>0. /\ call' \in [Req -> Call \cup {NoCall}]
      /\ \A q \in Req \ {r} : call'[q] = call[q]
      /\ place = "idle" => call'[r] = NoCall
      /\ place # "idle" => /\ call'[r].at = place /\ call'[r].kind = call[r].kind
                           /\ call'[r].session = call[r].session
                           /\ call'[r].part = call[r].part
  BY Moved
<1>1. TypeOK'
  BY <1>0 DEF TypeOK
<1>2. FallbackIsEarned'
  BY DEF FallbackIsEarned
<1>3. EarnedInv'
  <2> SUFFICES ASSUME NEW q \in Req, call'[q].at \in {"rejected", "registering"}
               PROVE  <<call'[q].session, call'[q].part>> \in rejected'
    BY DEF EarnedInv, At
  <2>1. CASE q # r
    BY <1>0, <2>1 DEF EarnedInv, At
  <2>2. CASE q = r
    BY <1>0, <2>2 DEF EarnedInv, At, NoCall
  <2> QED
    BY <2>1, <2>2
<1>4. RegisteringInv'
  <2> SUFFICES ASSUME NEW q \in Req
               PROVE  /\ call'[q].at = "registering" => HLS /\ call'[q].part \in STRM
                      /\ call'[q].at # "idle" /\ call'[q].kind = "start" => call'[q].part \in STRM
    BY DEF RegisteringInv, At
  <2>1. CASE q # r
    BY <1>0, <2>1 DEF RegisteringInv, At
  <2>2. CASE q = r
    BY <1>0, <2>2 DEF RegisteringInv, At, NoCall
  <2> QED
    BY <2>1, <2>2
<1> QED
  BY <1>1, <1>2, <1>3, <1>4

(* The client's two steps: a new request holds nothing yet ... *)
LEMMA BeginKeeps ==
  ASSUME OwnInv, NEW r \in Req, NEW kind \in {"decision", "start"}, NEW s \in Session,
         NEW p \in Part, NEW transcode \in BOOLEAN, Begin(r, kind, s, p, transcode)
  PROVE  OwnInv'
<1> USE DEF OwnInv, Begin
<1> DEFINE c == [at |-> IF kind = "decision" THEN "asking" ELSE "looking", kind |-> kind,
                 session |-> s, part |-> p, transcode |-> transcode, gone |-> FALSE]
<1>1. c \in Call /\ c.at \in {"asking", "looking"} /\ (c.kind = "start" => c.part \in STRM)
  BY DEF Call, Places
<1>2. call' = [call EXCEPT ![r] = c]
  OBVIOUS
<1> HIDE DEF c
<1>3. TypeOK'
  BY <1>1, <1>2 DEF TypeOK
<1>4. \A q \in Req : call'[q] = IF q = r THEN c ELSE call[q]
  BY <1>2 DEF TypeOK
<1>5. FallbackIsEarned'
  BY DEF FallbackIsEarned
<1>6. EarnedInv' /\ RegisteringInv'
  BY <1>1, <1>4 DEF EarnedInv, RegisteringInv, At
<1> QED
  BY <1>3, <1>5, <1>6

(* ... and leaving changes nothing that is held. *)
LEMMA LeaveKeeps ==
  ASSUME OwnInv, NEW r \in Req, Leave(r) PROVE OwnInv'
<1> USE DEF OwnInv, Leave
<1>1. call[r] \in Call
  BY DEF TypeOK, NoCall
<1>2. [call[r] EXCEPT !.gone = TRUE] \in Call
  BY <1>1 DEF Call
<1>3. TypeOK'
  BY <1>2 DEF TypeOK
<1>4. \A q \in Req : /\ call'[q].at = call[q].at /\ call'[q].kind = call[q].kind
                     /\ call'[q].session = call[q].session /\ call'[q].part = call[q].part
  BY <1>1 DEF TypeOK, Call
<1>5. FallbackIsEarned'
  BY DEF FallbackIsEarned
<1>6. EarnedInv' /\ RegisteringInv'
  BY <1>4 DEF EarnedInv, RegisteringInv, At
<1> QED
  BY <1>3, <1>5, <1>6

(* Registration passes on to the session what the request holds. *)
LEMMA RegisterKeeps ==
  ASSUME OwnInv, NEW r \in Req, Register(r) PROVE OwnInv'
<1> USE DEF OwnInv
<1>1. /\ call[r].session \in Session /\ call[r].part \in STRM /\ HLS
      /\ <<call[r].session, call[r].part>> \in rejected /\ ~At(r, "idle")
  BY Calls DEF Register, EarnedInv, RegisteringInv, At
<1>2. PICK place \in {"idle", "serving"} : Goto(r, place)
  BY DEF Register
<1>3. /\ call' \in [Req -> Call \cup {NoCall}]
      /\ \A q \in Req \ {r} : call'[q] = call[q]
      /\ place = "idle" => call'[r] = NoCall
      /\ place # "idle" => /\ call'[r].at = place /\ call'[r].kind = call[r].kind
                           /\ call'[r].part = call[r].part
  BY <1>1, <1>2, Moved DEF Places
<1>4. TypeOK'
  BY <1>1, <1>3 DEF Register, TypeOK
<1>5. FallbackIsEarned'
  BY <1>1 DEF Register, TypeOK, FallbackIsEarned
<1>6. EarnedInv' /\ RegisteringInv'
  BY <1>3 DEF Register, EarnedInv, RegisteringInv, At, NoCall
<1> QED
  BY <1>4, <1>5, <1>6

(* The sweep only takes sessions away. *)
LEMMA SessionEndsKeeps ==
  ASSUME OwnInv, NEW s \in Session, SessionEnds(s) PROVE OwnInv'
BY DEF OwnInv, SessionEnds, TypeOK, FallbackIsEarned, EarnedInv, RegisteringInv, At

(* Plex's answers: what is not accepted is on record when the request moves. *)
LEMMA AnswersKeep ==
  ASSUME OwnInv, NEW r \in Req, NEW accepted \in BOOLEAN,
         \/ \E direct \in BOOLEAN : PlexDecides(r, accepted, direct)
         \/ PlexDecidesOpaquely(r, accepted) \/ PlexStarts(r, accepted)
  PROVE  OwnInv'
<1> USE DEF OwnInv
<1>1. At(r, "asking") /\ ~At(r, "idle") /\ Rejects(r, accepted) /\ UNCHANGED hls
  BY DEF PlexDecides, PlexDecidesOpaquely, PlexStarts, At
<1>2. call[r].session \in Session /\ call[r].part \in Part
  BY <1>1, Calls
<1>3. PICK place \in {"idle", "rejected", "deciding"} :
        Goto(r, place) /\ (place = "rejected" => ~accepted)
  BY DEF PlexDecides, PlexDecidesOpaquely, PlexStarts, PcAfter
<1>4. /\ rejected \subseteq rejected' /\ rejected' \subseteq Session \X Part
      /\ ~accepted => <<call[r].session, call[r].part>> \in rejected'
  BY <1>1, <1>2 DEF Rejects, TypeOK
<1>5. about' \in [1..MaxResponses -> Part \cup {NoPart}]
  BY <1>2 DEF TypeOK, PlexDecides, PlexDecidesOpaquely, PlexStarts
<1>6. last' \in [Session -> {"none", "direct", "other", "opaque"}]
  BY <1>2 DEF TypeOK, PlexDecides, PlexDecidesOpaquely, PlexStarts
<1> QED
  BY <1>1, <1>3, <1>4, <1>5, <1>6, MovesKeep DEF Places

(* The steps that only move a request. *)
LEMMA QuietKeep ==
  ASSUME OwnInv, NEW r \in Req,
         \/ LookForSession(r) \/ Redirect(r) \/ GoNative(r) \/ Cancelled(r)
         \/ Remember(r) \/ Decline(r) \/ FallBack(r) \/ Reply(r) \/ Serve(r)
  PROVE  OwnInv'
<1> USE DEF OwnInv
<1>1. UNCHANGED <<about, hls, last, rejected>> /\ ~At(r, "idle")
  BY DEF LookForSession, Redirect, GoNative, Cancelled, Remember, Decline, FallBack, Reply,
         Serve, At
<1>2. PICK place \in {"idle", "serving", "choosing", "asking", "registering"} :
        /\ Goto(r, place)
        /\ place = "registering" => At(r, "rejected") /\ HLS /\ call[r].part \in STRM
  BY DEF LookForSession, Redirect, GoNative, Cancelled, Remember, Decline, FallBack,
         MayFallBack, Reply, Serve
<1>3. /\ rejected' \subseteq Session \X Part
      /\ about' \in [1..MaxResponses -> Part \cup {NoPart}]
      /\ last' \in [Session -> {"none", "direct", "other", "opaque"}]
  BY <1>1 DEF TypeOK
<1> QED
  BY <1>1, <1>2, <1>3, MovesKeep DEF Places

(* Every step is one of those. *)
LEMMA OwnNext == OwnInv /\ [Next]_vars => OwnInv'
<1> SUFFICES ASSUME OwnInv, [Next]_vars PROVE OwnInv'
  OBVIOUS
<1>1. CASE UNCHANGED <<about, hls, call, last, rejected>>
  BY <1>1 DEF OwnInv, TypeOK, FallbackIsEarned, EarnedInv, RegisteringInv, At
<1>2. CASE UNCHANGED vars
  BY <1>1, <1>2 DEF vars
<1>3. CASE Tick \/ \E s \in Session : Rebind(s)
  BY <1>1, <1>3 DEF Tick, Rebind
<1>4. ASSUME NEW r \in Req,
             \/ LookForSession(r) \/ Redirect(r) \/ GoNative(r) \/ Cancelled(r)
             \/ Remember(r) \/ Decline(r) \/ FallBack(r) \/ Reply(r) \/ Serve(r)
      PROVE  OwnInv'
  BY <1>4, QuietKeep
<1>5. ASSUME NEW r \in Req, NEW accepted \in BOOLEAN,
             \/ \E direct \in BOOLEAN : PlexDecides(r, accepted, direct)
             \/ PlexDecidesOpaquely(r, accepted) \/ PlexStarts(r, accepted)
      PROVE  OwnInv'
  BY <1>5, AnswersKeep
<1> QED
  BY <1>2, <1>3, <1>4, <1>5, BeginKeeps, LeaveKeeps, RegisterKeeps, SessionEndsKeeps DEF Next

(* So the handlers' own state is right in every state. *)
LEMMA OwnInvariance == Spec => []OwnInv
<1>1. Init => OwnInv
  BY PlaybackAssumption DEF Init, OwnInv, TypeOK, FallbackIsEarned, EarnedInv,
     RegisteringInv, At, NoCall
<1> QED
  BY <1>1, OwnNext, PTL DEF Spec

-----------------------------------------------------------------------------
(* The handlers implement DirectDecisions: every step is one of its steps or leaves
   its variables alone, so that what is proved of it holds of them. *)
THEOREM Implements == Spec => Decisions
<1>1. Init => D!Init
  BY DEF Init
<1>2. OwnInv /\ [Next]_vars => [D!Next]_decisionVars
  <2> SUFFICES ASSUME OwnInv, [Next]_vars PROVE D!Next \/ UNCHANGED decisionVars
    OBVIOUS
  <2>1. CASE UNCHANGED vars
    BY <2>1 DEF vars
  <2>2. ASSUME NEW r \in Req,
               \/ \E kind \in {"decision", "start"}, s \in Session, p \in Part, transcode \in BOOLEAN :
                    Begin(r, kind, s, p, transcode)
               \/ Leave(r) \/ LookForSession(r) \/ Redirect(r)
               \/ \E accepted \in BOOLEAN : PlexDecidesOpaquely(r, accepted) \/ PlexStarts(r, accepted)
               \/ Cancelled(r) \/ FallBack(r) \/ Reply(r) \/ Register(r) \/ Serve(r)
        PROVE  UNCHANGED decisionVars
    BY <2>2 DEF Begin, Leave, LookForSession, Redirect, PlexDecidesOpaquely, PlexStarts,
                Cancelled, FallBack, Reply, Serve, Register
  <2>3. ASSUME NEW r \in Req, NEW accepted \in BOOLEAN, NEW direct \in BOOLEAN,
               PlexDecides(r, accepted, direct)
        PROVE  D!Next
    <3>1. call[r].session \in Session
      BY <2>3, Calls DEF OwnInv, PlexDecides, At
    <3> QED
      BY <2>3, <3>1 DEF PlexDecides, D!Next
  <2>4. ASSUME NEW r \in Req, GoNative(r) PROVE D!Next \/ UNCHANGED decisionVars
    <3>1. call[r].session \in Session
      BY <2>4, Calls DEF OwnInv, GoNative, At
    <3> QED
      BY <2>4, <3>1 DEF GoNative, LookedUp, D!Next
  <2>5. ASSUME NEW r \in Req, Remember(r) \/ Decline(r) PROVE D!Next
    BY <2>5 DEF Remember, Decline, D!Next
  <2>6. ASSUME NEW s \in Session, Rebind(s) \/ SessionEnds(s)
        PROVE  D!Next \/ UNCHANGED decisionVars
    BY <2>6 DEF Rebind, SessionEnds, D!Next
  <2>7. CASE Tick
    BY <2>7 DEF Tick, D!Next
  <2> QED
    BY <2>1, <2>2, <2>3, <2>4, <2>5, <2>6, <2>7 DEF Next
<1> QED
  BY <1>1, <1>2, OwnInvariance, PTL DEF Spec, Decisions, D!Spec, D!vars, decisionVars

(* The instance D and the one that holds the proofs are the same specification. *)
LEMMA SameInit == D!Init <=> P!Init
BY DEF D!Init, P!Init, D!NoRecord, P!NoRecord, D!None, P!None

(* Their steps are the same ... *)
LEMMA SameNext == [D!Next]_D!vars <=> [P!Next]_P!vars
<1>1. ASSUME NEW r \in Req, NEW s \in Session, NEW direct \in BOOLEAN
      PROVE  D!Supersede(r, s, direct) <=> P!Supersede(r, s, direct)
  BY DEF D!Supersede, D!Cleared, D!Deciding, D!Number, D!NoRecord, D!None,
         P!Supersede, P!Cleared, P!Deciding, P!Number, P!NoRecord, P!None
<1>2. ASSUME NEW records PROVE D!Pruned(records) = P!Pruned(records)
  <2>1. D!Unexpired(records) = P!Unexpired(records)
    BY DEF D!Unexpired, D!Expired, D!NoRecord, D!None, P!Unexpired, P!Expired, P!NoRecord, P!None
  <2>2. \A x : D!Remembered(x) = P!Remembered(x)
    BY DEF D!Remembered, D!NoRecord, D!None, P!Remembered, P!NoRecord, P!None
  <2>3. \A x : D!Evicted(x) = P!Evicted(x)
    BY <2>2 DEF D!Evicted, D!Cardinality, P!Evicted, P!Cardinality
  <2>4. \A x, out : D!Without(x, out) = P!Without(x, out)
    BY DEF D!Without, D!NoRecord, D!None, P!Without, P!NoRecord, P!None
  <2> QED
    BY <2>1, <2>2, <2>3, <2>4 DEF D!Pruned, D!Cardinality, P!Pruned, P!Cardinality
<1>3. ASSUME NEW r \in Req PROVE D!Remember(r) <=> P!Remember(r)
  BY <1>2 DEF D!Remember, P!Remember
<1>4. ASSUME NEW r \in Req PROVE D!Decline(r) <=> P!Decline(r)
  BY DEF D!Decline, P!Decline
<1>5. ASSUME NEW s \in Session PROVE D!LookupExpired(s) <=> P!LookupExpired(s)
  BY DEF D!LookupExpired, D!Expired, D!NoRecord, D!None, P!LookupExpired, P!Expired, P!NoRecord, P!None
<1>6. D!Tick <=> P!Tick
  BY DEF D!Tick, P!Tick
<1>7. D!Next <=> P!Next
  BY <1>1, <1>3, <1>4, <1>5, <1>6 DEF D!Next, P!Next
<1>8. UNCHANGED D!vars <=> UNCHANGED P!vars
  BY DEF D!vars, P!vars
<1> QED
  BY <1>7, <1>8

(* ... and so are their behaviours. *)
LEMMA SameSpec == D!Spec <=> P!Spec
BY SameInit, SameNext, PTL DEF D!Spec, P!Spec

(* What DirectDecisions' theorems say of the memory, as far as it is needed here:
   what its records and responses are, and that none comes from the future. *)
Memory == D!TypeOK /\ D!StoredInv /\ D!LatestUnlessCrowded

(* What DirectDecisions' invariance theorem says, at this level. *)
LEMMA MemoryInvariance == Spec => []Memory
<1>1. P!Spec => []P!IInv
  <2>1. P!DecisionAssumption
    BY PlaybackAssumption DEF D!DecisionAssumption, P!DecisionAssumption, D!IsFiniteSet, P!IsFiniteSet
  <2> QED
    BY <2>1, P!Invariance
<1>2. P!IInv => Memory
  BY DEF P!IInv, Memory, P!TypeOK, D!TypeOK, P!StoredInv, D!StoredInv, P!LatestUnlessCrowded,
     D!LatestUnlessCrowded, P!Record, D!Record, P!NoRecord, D!NoRecord, P!None, D!None,
     P!Number, D!Number, P!Time, D!Time
<1> QED
  BY <1>1, <1>2, Implements, SameSpec, PTL DEF Decisions

-----------------------------------------------------------------------------
(* What Plex decided last, and what is or may be remembered. *)
Follows == OwnInv /\ Memory /\ LastInv /\ DecidingInv

(* Pruning adds no record. *)
LEMMA PrunedKeeps ==
  ASSUME NEW records, NEW kept \in D!Pruned(records), NEW s \in Session
  PROVE  kept[s] = records[s] \/ kept[s] = D!NoRecord
BY DEF D!Pruned, D!Unexpired, D!Without

(* A step leaves nothing behind of a decision that Plex has since taken back. *)
LEMMA LastNext == Follows /\ [Next]_vars => LastInv'
<1> SUFFICES ASSUME Follows, [Next]_vars PROVE LastInv'
  OBVIOUS
<1> USE DEF Follows
<1>1. CASE UNCHANGED decisionVars /\ UNCHANGED last
  BY <1>1 DEF LastInv, decisionVars
<1>2. ASSUME NEW r \in Req, NEW accepted \in BOOLEAN, NEW direct \in BOOLEAN,
             PlexDecides(r, accepted, direct)
      PROVE  LastInv'
  <2> DEFINE s == call[r].session
  <2>1. s \in Session
    BY <1>2, Calls DEF OwnInv, PlexDecides, At
  <2>2. SUFFICES ASSUME NEW t \in Session, last'[t] \in {"none", "other"}
        PROVE  /\ directDecisions'[t] # D!NoRecord => directDecisions'[t].from # latest'[t]
               /\ \A q \in Req : remembering'[q] = "deciding" /\ response'[q].session = t =>
                    response'[q].from # latest'[t]
    BY DEF LastInv
  <2>3. CASE t = s
    <3>1. ~direct /\ directDecisions'[t] = D!NoRecord /\ latest'[t] = count + 1
      BY <1>2, <2>1, <2>2, <2>3 DEF PlexDecides, D!Supersede, D!Cleared, Memory, D!TypeOK, OwnInv, TypeOK
    <3>2. \A q \in Req : remembering'[q] = "deciding" =>
            remembering[q] = "deciding" /\ response'[q] = response[q]
      BY <1>2, <3>1 DEF PlexDecides, D!Supersede, Memory, D!TypeOK
    <3>3. count \in Nat /\ \A q \in Req : response[q].from \in Int /\ response[q].from <= count
      BY PlaybackAssumption DEF Memory, D!TypeOK, D!StoredInv, D!Number, D!None, D!DecisionAssumption
    <3> QED
      BY <3>1, <3>2, <3>3
  <2>4. CASE t # s
    <3>1. /\ directDecisions'[t] = directDecisions[t] /\ latest'[t] = latest[t]
          /\ last'[t] = last[t]
      BY <1>2, <2>1, <2>4 DEF PlexDecides, D!Supersede, D!Cleared, Memory, D!TypeOK, OwnInv, TypeOK
    <3>2. \A q \in Req : remembering'[q] = "deciding" /\ response'[q].session = t =>
            remembering[q] = "deciding" /\ response'[q] = response[q]
      BY <1>2, <2>4 DEF PlexDecides, D!Supersede, Memory, D!TypeOK
    <3> QED
      BY <2>2, <3>1, <3>2 DEF LastInv
  <2> QED
    BY <2>3, <2>4
<1>3. ASSUME NEW r \in Req, NEW accepted \in BOOLEAN, PlexDecidesOpaquely(r, accepted)
      PROVE  LastInv'
  BY <1>3 DEF LastInv, PlexDecidesOpaquely, decisionVars, OwnInv, TypeOK
<1>4. ASSUME NEW s \in Session, D!LookupExpired(s), UNCHANGED last
      PROVE  LastInv'
  BY <1>4 DEF LastInv, D!LookupExpired, Memory, D!TypeOK
<1>5. ASSUME NEW r \in Req, GoNative(r) PROVE LastInv'
  <2>1. call[r].session \in Session
    BY <1>5, Calls DEF OwnInv, GoNative, At
  <2> QED
    BY <1>1, <1>4, <1>5, <2>1 DEF GoNative, LookedUp
<1>6. ASSUME NEW r \in Req, Remember(r) PROVE LastInv'
  <2> DEFINE s == response[r].session
             records == [directDecisions EXCEPT ![s] = [from |-> response[r].from, at |-> now]]
  <2>1. /\ directDecisions' \in D!Pruned(records) /\ remembering[r] = "deciding"
        /\ UNCHANGED <<response, latest, last>>
        /\ remembering' = [remembering EXCEPT ![r] = "idle"]
    BY <1>6 DEF Remember, D!Remember
  <2>2. SUFFICES ASSUME NEW t \in Session, last[t] \in {"none", "other"}
        PROVE  /\ directDecisions'[t] # D!NoRecord => directDecisions'[t].from # latest[t]
               /\ \A q \in Req : remembering'[q] = "deciding" /\ response[q].session = t =>
                    response[q].from # latest[t]
    BY <2>1 DEF LastInv
  <2>3. directDecisions'[t] = records[t] \/ directDecisions'[t] = D!NoRecord
    BY <2>1, PrunedKeeps
  <2>4. records[t] # D!NoRecord => records[t].from # latest[t]
    BY <2>1, <2>2 DEF LastInv, Memory, D!TypeOK
  <2>5. \A q \in Req : remembering'[q] = "deciding" => remembering[q] = "deciding"
    BY <2>1 DEF Memory, D!TypeOK
  <2> HIDE DEF records
  <2> QED
    BY <2>2, <2>3, <2>4, <2>5 DEF LastInv
<1>7. ASSUME NEW r \in Req, Decline(r) PROVE LastInv'
  BY <1>7 DEF LastInv, Decline, D!Decline, Memory, D!TypeOK
<1>8. CASE Tick
  BY <1>8 DEF LastInv, Tick, D!Tick
<1>9. ASSUME NEW s \in Session, Rebind(s) \/ SessionEnds(s) PROVE LastInv'
  BY <1>1, <1>4, <1>9 DEF Rebind, SessionEnds
<1>10. ASSUME NEW r \in Req,
              \/ \E kind \in {"decision", "start"}, s \in Session, p \in Part, transcode \in BOOLEAN :
                   Begin(r, kind, s, p, transcode)
              \/ Leave(r) \/ LookForSession(r) \/ Redirect(r)
              \/ \E accepted \in BOOLEAN : PlexStarts(r, accepted)
              \/ Cancelled(r) \/ FallBack(r) \/ Reply(r) \/ Register(r) \/ Serve(r)
       PROVE  UNCHANGED decisionVars /\ UNCHANGED last
  BY <1>10 DEF Begin, Leave, LookForSession, Redirect, PlexStarts, Cancelled, FallBack, Reply,
               Serve, Register
<1>11. CASE UNCHANGED vars
  BY <1>1, <1>11 DEF vars
<1> QED
  BY <1>1, <1>2, <1>3, <1>5, <1>6, <1>7, <1>8, <1>9, <1>10, <1>11 DEF Next

(* A request stores for the session it is for. *)
LEMMA DecidingNext == Follows /\ [Next]_vars => DecidingInv'
<1> SUFFICES ASSUME Follows, [Next]_vars PROVE DecidingInv'
  OBVIOUS
<1> USE DEF Follows
<1>1. CASE UNCHANGED <<call, remembering, response>>
  BY <1>1 DEF DecidingInv, At
<1>2. ASSUME NEW r \in Req, UNCHANGED <<remembering, response>>, ~At(r, "deciding"),
             \A q \in Req \ {r} : call'[q] = call[q], call'[r].at # "deciding"
      PROVE  DecidingInv'
  BY <1>2 DEF DecidingInv, At
<1>3. ASSUME NEW r \in Req, UNCHANGED <<remembering, response>>, ~At(r, "deciding"), ~At(r, "idle"),
             NEW place \in (Places \cup {"idle"}) \ {"deciding"}, Goto(r, place)
      PROVE  DecidingInv'
  BY <1>2, <1>3, Moved DEF OwnInv, NoCall
<1>4. ASSUME NEW r \in Req, Remember(r) \/ Decline(r) PROVE DecidingInv'
  <2>1. /\ At(r, "deciding") /\ Goto(r, "idle") /\ UNCHANGED response
        /\ remembering' = [remembering EXCEPT ![r] = "idle"]
    BY <1>4 DEF Remember, Decline, D!Remember, D!Decline, DecidingInv, At
  <2>2. call'[r] = NoCall /\ \A q \in Req \ {r} : call'[q] = call[q]
    BY <2>1, Moved DEF OwnInv, At
  <2> QED
    BY <2>1, <2>2 DEF DecidingInv, At, NoCall, Memory, D!TypeOK
<1>5. ASSUME NEW r \in Req, NEW accepted \in BOOLEAN, NEW direct \in BOOLEAN,
             PlexDecides(r, accepted, direct)
      PROVE  DecidingInv'
  <2>1. PICK place \in {"deciding", "rejected", "idle"} :
          Goto(r, place) /\ (place = "deciding" <=> direct)
    BY <1>5 DEF PlexDecides, PcAfter
  <2>2. ~At(r, "idle") /\ call[r].session \in Session
    BY <1>5, Calls DEF OwnInv, PlexDecides, At
  <2>3. /\ \A q \in Req \ {r} : call'[q] = call[q]
        /\ call'[r].at = "deciding" <=> direct
        /\ direct => call'[r].session = call[r].session
    BY <2>1, <2>2, Moved DEF OwnInv, Places, NoCall
  <2>4. /\ remembering' = [remembering EXCEPT ![r] = IF direct THEN "deciding" ELSE "idle"]
        /\ response' = [response EXCEPT ![r] = [from |-> count + 1, session |-> call[r].session]]
    BY <1>5 DEF PlexDecides, D!Supersede
  <2> QED
    BY <2>3, <2>4 DEF DecidingInv, At, Memory, D!TypeOK
<1>6. ASSUME NEW r \in Req, NEW accepted \in BOOLEAN,
             PlexDecidesOpaquely(r, accepted) \/ PlexStarts(r, accepted)
      PROVE  DecidingInv'
  BY <1>3, <1>6 DEF PlexDecidesOpaquely, PlexStarts, PcAfter, decisionVars, Places, At
<1>7. ASSUME NEW r \in Req, LookForSession(r) \/ Redirect(r) \/ Cancelled(r) \/ FallBack(r)
             \/ Reply(r) \/ Serve(r)
      PROVE  DecidingInv'
  BY <1>3, <1>7 DEF LookForSession, Redirect, Cancelled, FallBack, Reply, Serve, decisionVars,
     Places, At
<1>8. ASSUME NEW r \in Req, GoNative(r) PROVE DecidingInv'
  BY <1>3, <1>8 DEF GoNative, LookedUp, D!LookupExpired, decisionVars, Places, At
<1>9. ASSUME NEW r \in Req, Register(r) PROVE DecidingInv'
  BY <1>3, <1>9 DEF Register, decisionVars, Places, At
<1>10. ASSUME NEW r \in Req, Leave(r) PROVE DecidingInv'
  <2>1. /\ UNCHANGED <<remembering, response>> /\ ~At(r, "deciding")
        /\ call' = [call EXCEPT ![r].gone = TRUE]
    BY <1>10 DEF Leave, At, decisionVars
  <2>2. call[r] \in Call
    BY <1>10 DEF Leave, OwnInv, TypeOK, NoCall
  <2>3. \A q \in Req : call'[q].at = call[q].at /\ call'[q].session = call[q].session
    BY <2>1, <2>2 DEF OwnInv, TypeOK, Call
  <2> QED
    BY <2>1, <2>3 DEF DecidingInv, At
<1>11. ASSUME NEW r \in Req, NEW kind \in {"decision", "start"}, NEW s \in Session, NEW p \in Part,
              NEW transcode \in BOOLEAN, Begin(r, kind, s, p, transcode)
       PROVE  DecidingInv'
  <2>1. /\ UNCHANGED <<remembering, response>> /\ ~At(r, "deciding")
        /\ call'[r].at # "deciding" /\ \A q \in Req \ {r} : call'[q] = call[q]
    BY <1>11 DEF Begin, At, decisionVars, OwnInv, TypeOK
  <2> QED
    BY <1>2, <2>1
<1>12. ASSUME NEW s \in Session, Rebind(s) \/ SessionEnds(s) PROVE DecidingInv'
  BY <1>1, <1>12 DEF Rebind, SessionEnds, D!LookupExpired, decisionVars
<1>13. CASE Tick \/ UNCHANGED vars
  BY <1>1, <1>13 DEF Tick, D!Tick, vars, decisionVars
<1> QED
  BY <1>4, <1>5, <1>6, <1>7, <1>8, <1>9, <1>10, <1>11, <1>12, <1>13 DEF Next

(* The inductive invariant the runs check: it needs what DirectDecisions' theorem
   says of the numbers of responses, which Implements brings here. *)
THEOREM Invariance == Spec => []IInv
<1>1. Init => LastInv /\ DecidingInv
  BY DEF Init, D!Init, LastInv, DecidingInv, At, NoCall
<1>2. OwnInv /\ Memory /\ LastInv /\ DecidingInv /\ [Next]_vars => LastInv' /\ DecidingInv'
  BY LastNext, DecidingNext DEF Follows
<1>3. OwnInv /\ LastInv /\ DecidingInv => IInv
  BY DEF OwnInv, IInv
<1> QED
  BY <1>1, <1>2, <1>3, OwnInvariance, MemoryInvariance, PTL DEF Spec

(* Every proxy session there is, was earned: Plex rejected its Part in its session,
   whatever other requests did and whichever clients left. *)
THEOREM FallbackEarned == Spec => []FallbackIsEarned
<1>1. IInv => FallbackIsEarned
  BY DEF IInv
<1> QED
  BY <1>1, Invariance, PTL

(* A start is redirected past Plex on Plex's last word on its session, and of its
   Part, but for the two ways round that the code leaves. *)
THEOREM RedirectsFollowPlex == Spec => RedirectFollowsPlex
<1> DEFINE Follow(r) ==
      LET s == call[r].session IN
      \/ s \in crowded \/ last[s] = "opaque"
      \/ last[s] = "direct" /\ about[latest[s]] = call[r].part
<1>1. IInv /\ Memory => \A r \in Req : Redirect(r) => Follow(r)
  <2> SUFFICES ASSUME IInv, Memory, NEW r \in Req, Redirect(r), call[r].session \notin crowded
               PROVE  Follow(r)
    OBVIOUS
  <2>1. call[r].session \in Session
    BY Calls DEF IInv, Redirect, At
  <2>2. /\ directDecisions[call[r].session] # D!NoRecord
        /\ about[directDecisions[call[r].session].from] = call[r].part
    BY DEF Redirect, Redirectable, Live, NamesPart
  <2>3. directDecisions[call[r].session].from = latest[call[r].session]
    BY <2>1, <2>2 DEF Memory, D!LatestUnlessCrowded
  <2>4. last[call[r].session] \in {"direct", "opaque"}
    BY <2>1, <2>2, <2>3 DEF IInv, LastInv, TypeOK
  <2> QED
    BY <2>2, <2>3, <2>4
<1>2. IInv /\ Memory => [\A r \in Req : Redirect(r) => Follow(r)]_vars
  BY <1>1
<1> QED
  BY <1>2, Invariance, MemoryInvariance, PTL DEF RedirectFollowsPlex

(* handleTranscodeStart's promise that Plex is asked first, as far as the code keeps it: a
   start served by a proxy session of its own Part is one that Plex was asked for. What
   breaks the promise is a session of another Part that has the same id. *)
OwnPartIsAskedFirst ==
  [][\A r \in Req : Serve(r) /\ hls[call[r].session] = call[r].part =>
       <<call[r].session, call[r].part>> \in rejected]_vars

THEOREM OwnPartAskedFirst == Spec => OwnPartIsAskedFirst
<1>1. ASSUME IInv, NEW r \in Req, Serve(r), hls[call[r].session] = call[r].part
      PROVE  <<call[r].session, call[r].part>> \in rejected
  <2>1. call[r].session \in Session /\ call[r].part \in Part
    BY <1>1, Calls DEF IInv, Serve, At
  <2>2. hls[call[r].session] # NoPart
    BY <1>1, <2>1, PlaybackAssumption
  <2> QED
    BY <1>1, <2>1, <2>2 DEF IInv, FallbackIsEarned
<1>2. IInv /\ [Next]_vars =>
        [\A r \in Req : Serve(r) /\ hls[call[r].session] = call[r].part =>
           <<call[r].session, call[r].part>> \in rejected]_vars
  BY <1>1
<1> QED
  BY <1>2, Invariance, PTL DEF Spec, OwnPartIsAskedFirst
=============================================================================
