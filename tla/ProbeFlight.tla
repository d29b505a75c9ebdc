---------------------------- MODULE ProbeFlight ----------------------------
(***************************************************************************)
(* probeSTRMMedia in media_probe.go: the probe cache and the flights that  *)
(* let concurrent requests for one source share one ffprobe.  The first    *)
(* request for a source leads a flight, on its own context; the others     *)
(* wait for the flight or for their own context.  A probe is identified by *)
(* the flight that ran it, and what it found by that number.               *)
(*                                                                         *)
(* A request is Detached while it registers a proxy transcode: that call   *)
(* probes under context.WithoutCancel (registerProxyTranscode).  Every     *)
(* other context ends when the client goes away or, for metadata, after    *)
(* strmMetadataProbeTimeout.                                               *)
(*                                                                         *)
(* MayLeadIfUncached, CachedWhatever and FinishUnlessCancelled are         *)
(* mistakes the code could have had; the specification uses none.          *)
(***************************************************************************)
EXTENDS Naturals

CONSTANTS
  Req,        \* request goroutines
  Source,     \* mapping.ResolvedURL
  Detached,   \* the requests that probe without their client's context
  MaxProbes   \* bound: flights ever started

ASSUME ProbeAssumption == Detached \subseteq Req /\ Source # {} /\ MaxProbes \in Nat

VARIABLES
  probes,        \* s.probes: the flight whose value each source has cached
  probeFlights,  \* s.probeFlights: the flight under way for each source
  flight,        \* the mediaProbeFlight objects, and who leads them
  count,         \* flights started so far
  pc,            \* what each request is doing
  at,            \* the flight each request leads or waits for
  ctxDone,       \* the contexts that have ended
  before,        \* history: flights that had ended when the request's call began
  answer         \* history: what the request's last call returned

vars == <<probes, probeFlights, flight, count, pc, at, ctxDone, before, answer>>

None == 0
Flight == 1..MaxProbes
State == {"unmade", "running", "ok", "failed", "cancelled"}
NoAnswer == [ok |-> FALSE, from |-> None]

Init ==
  /\ probes = [s \in Source |-> None]
  /\ probeFlights = [s \in Source |-> None]
  /\ flight = [f \in Flight |-> [state |-> "unmade", src |-> CHOOSE s \in Source : TRUE]]
  /\ count = 0
  /\ pc = [r \in Req |-> "idle"]
  /\ at = [r \in Req |-> None]
  /\ ctxDone = {}
  /\ before = [r \in Req |-> {}]
  /\ answer = [r \in Req |-> NoAnswer]

Running == {f \in Flight : flight[f].state = "running"}
Over == {f \in Flight : flight[f].state \notin {"unmade", "running"}}

Begins(r) == pc[r] = "idle" /\ before' = [before EXCEPT ![r] = Over]

Return(r, ok, from) ==
  /\ answer' = [answer EXCEPT ![r] = [ok |-> ok, from |-> from]]
  /\ pc' = [pc EXCEPT ![r] = "idle"] /\ at' = [at EXCEPT ![r] = None]
  /\ ctxDone' = ctxDone \ {r}

-----------------------------------------------------------------------------
(* A fresh entry answers at once, here or in cachedSTRMMediaProbeForMapping. *)
Hit(r, s) ==
  /\ Begins(r) /\ probes[s] # None
  /\ Return(r, flight[probes[s]].state = "ok", probes[s])
  /\ UNCHANGED <<probes, probeFlights, flight, count>>

(* An entry reaches its expiresAt.  It is deleted, or passed over and written
   anew; either way nothing reads it again. *)
Expire(s) ==
  /\ probes[s] # None
  /\ probes' = [probes EXCEPT ![s] = None]
  /\ UNCHANGED <<probeFlights, flight, count, pc, at, ctxDone, before, answer>>

Join(r, s) ==
  /\ Begins(r) /\ probes[s] = None /\ probeFlights[s] # None
  /\ pc' = [pc EXCEPT ![r] = "waiting"]
  /\ at' = [at EXCEPT ![r] = probeFlights[s]]
  /\ answer' = [answer EXCEPT ![r] = NoAnswer]
  /\ UNCHANGED <<probes, probeFlights, flight, count, ctxDone>>

MayLeadIfUncached(s) == probes[s] = None
MayLead(s) == probes[s] = None /\ probeFlights[s] = None

Lead(r, s) ==
  LET f == count + 1 IN
  /\ Begins(r) /\ MayLead(s) /\ f \in Flight
  /\ count' = f
  /\ flight' = [flight EXCEPT ![f] = [state |-> "running", src |-> s]]
  /\ probeFlights' = [probeFlights EXCEPT ![s] = f]
  /\ pc' = [pc EXCEPT ![r] = "leading"] /\ at' = [at EXCEPT ![r] = f]
  /\ answer' = [answer EXCEPT ![r] = NoAnswer]
  /\ UNCHANGED <<probes, ctxDone>>

(* The client goes away, or the metadata timeout ends. *)
ContextEnds(r) ==
  /\ pc[r] # "idle" /\ r \notin Detached /\ r \notin ctxDone
  /\ ctxDone' = ctxDone \cup {r}
  /\ UNCHANGED <<probes, probeFlights, flight, count, pc, at, before, answer>>

(* runSTRMMediaProbe returns: found, an error of the source or of ffprobe, or the
   end of the leader's context, which kills ffprobe. *)
Outcomes(r) == {"ok", "failed"} \cup (IF r \in ctxDone THEN {"cancelled"} ELSE {})

CachedWhatever(s, f, outcome) == [probes EXCEPT ![s] = f]
Cached(s, f, outcome) == IF outcome = "ok" THEN [probes EXCEPT ![s] = f] ELSE probes
Landed(s, outcome) == [probeFlights EXCEPT ![s] = None]

(* The one section in which the leader publishes its result. *)
Publish(r, outcome) ==
  LET f == at[r]
      s == flight[f].src
  IN
  /\ probes' = Cached(s, f, outcome)
  /\ probeFlights' = Landed(s, outcome)
  /\ flight' = [flight EXCEPT ![f].state = outcome]
  /\ Return(r, outcome = "ok", f)
  /\ UNCHANGED <<count, before>>

FinishUnlessCancelled(r) ==
  /\ pc[r] = "leading"
  /\ \/ \E outcome \in {"ok", "failed"} : Publish(r, outcome)
     \/ /\ r \in ctxDone /\ Return(r, FALSE, None)
        /\ UNCHANGED <<probes, probeFlights, flight, count, before>>

Finish(r) == pc[r] = "leading" /\ \E outcome \in Outcomes(r) : Publish(r, outcome)

(* A waiter's select: the flight's result, its own context, either if both. *)
Receive(r) ==
  /\ pc[r] = "waiting" /\ flight[at[r]].state # "running"
  /\ Return(r, flight[at[r]].state = "ok", at[r])
  /\ UNCHANGED <<probes, probeFlights, flight, count, before>>

GiveUp(r) ==
  /\ pc[r] = "waiting" /\ r \in ctxDone
  /\ Return(r, FALSE, None)
  /\ UNCHANGED <<probes, probeFlights, flight, count, before>>

-----------------------------------------------------------------------------
Request(r) ==
  \/ \E s \in Source : Hit(r, s) \/ Join(r, s) \/ Lead(r, s)
  \/ ContextEnds(r) \/ Finish(r) \/ Receive(r) \/ GiveUp(r)

Next == (\E s \in Source : Expire(s)) \/ \E r \in Req : Request(r)

Spec == Init /\ [][Next]_vars

(* The probe itself ends: probeMedia gives ffprobe 45 seconds and the media
   client bounds each hop of the validation.  Goroutines are scheduled. *)
Fairness == \A r \in Req : WF_vars(Finish(r)) /\ WF_vars(Receive(r) \/ GiveUp(r))
FairSpec == Spec /\ Fairness

-----------------------------------------------------------------------------
TypeOK ==
  /\ probes \in [Source -> Flight \cup {None}]
  /\ probeFlights \in [Source -> Flight \cup {None}]
  /\ flight \in [Flight -> [state : State, src : Source]]
  /\ count \in 0..MaxProbes
  /\ pc \in [Req -> {"idle", "leading", "waiting"}]
  /\ at \in [Req -> Flight \cup {None}]
  /\ ctxDone \subseteq Req
  /\ before \in [Req -> SUBSET Flight]
  /\ answer \in [Req -> [ok : BOOLEAN, from : Flight \cup {None}]]

-----------------------------------------------------------------------------
(* mediaProbeFlight's promise, that a second request waits for the same probe
   "instead of starting a duplicate": one ffprobe at a time runs for a source. *)
OneProbePerSource ==
  \A f, g \in Running : flight[f].src = flight[g].src => f = g

(* A request never waits for a flight nobody will close: what it waits for is
   over, or is still led by a request that is at work on it. *)
NobodyWaitsInVain ==
  \A r \in Req : pc[r] = "waiting" =>
    \/ at[r] \in Over
    \/ \E q \in Req : pc[q] = "leading" /\ at[q] = at[r]

(* Failures are not remembered: a call that reports a failed probe reports one
   that was still running when the call began, or was started by it. *)
FailuresAreCurrent ==
  \A r \in Req : answer[r].from # None /\ ~answer[r].ok =>
    answer[r].from \notin before[r]

(* A flight in the map is running: the next request for its source never joins
   one that is over, whose answer could be of any age. *)
FlightsAreUnderWay ==
  \A s \in Source : probeFlights[s] # None =>
    flight[probeFlights[s]].state = "running" /\ flight[probeFlights[s]].src = s

(* Every call returns. *)
CallsReturn == \A r \in Req : pc[r] # "idle" ~> pc[r] = "idle"

-----------------------------------------------------------------------------
(* The inductive invariant. *)

(* Flights are numbered in the order they start. *)
MadeInv ==
  /\ \A f \in Flight : flight[f].state = "unmade" <=> f > count
  /\ \A r \in Req : pc[r] = "idle" <=> at[r] = None

(* The map holds exactly the running flights, each led by one request. *)
LeadInv ==
  /\ \A f \in Running : probeFlights[flight[f].src] = f
  /\ \A f \in Running : \E r \in Req : pc[r] = "leading" /\ at[r] = f
  /\ \A r \in Req : pc[r] = "leading" => at[r] \in Running
  /\ \A q, r \in Req : pc[q] = "leading" /\ pc[r] = "leading" /\ at[q] = at[r] => q = r
  /\ \A r \in Req : pc[r] = "waiting" => at[r] \in Running \cup Over

(* Only good probes are cached, and a call knows only ended flights as past. *)
CacheInv ==
  /\ \A s \in Source : probes[s] # None => flight[probes[s]].state = "ok"
  /\ \A r \in Req : before[r] \subseteq Over
  /\ \A r \in Req : pc[r] # "idle" => at[r] \notin before[r]

IInv ==
  /\ TypeOK /\ MadeInv /\ LeadInv /\ CacheInv
  /\ FlightsAreUnderWay /\ FailuresAreCurrent
=============================================================================
