---------------------------- MODULE ProbesProofs ----------------------------
(***************************************************************************)
(* Proofs about the two sides of a probe: ProbeFlight, which runs it for   *)
(* however many requests and sources, and MetadataRewrite, which asks for  *)
(* one on behalf of a metadata response, for any documents.  Each side is  *)
(* proved on its own.                                                      *)
(***************************************************************************)
EXTENDS ProbeFlight, MetadataRewrite, TLAPS

LEMMA InitInv == ASSUME Init PROVE IInv
<1> USE DEF Init
<1>1. (CHOOSE s \in Source : TRUE) \in Source BY ProbeAssumption
<1>2. TypeOK BY <1>1, ProbeAssumption DEF TypeOK, State, NoAnswer, None
<1>3. MadeInv BY DEF MadeInv, Flight, None
<1>4. LeadInv /\ CacheInv BY DEF LeadInv, CacheInv, Running, Over
<1>5. FlightsAreUnderWay /\ FailuresAreCurrent
  BY DEF FlightsAreUnderWay, FailuresAreCurrent, NoAnswer
<1> QED BY <1>2, <1>3, <1>4, <1>5 DEF IInv

(* Numbers: what is known of flights without arithmetic.                     *)
LEMMA FlightFacts ==
  ASSUME IInv
  PROVE  /\ None \notin Flight /\ count \in Nat
         /\ Running \subseteq Flight /\ Over \subseteq Flight
         /\ \A f \in Flight : f \in Running <=> flight[f].state = "running"
         /\ \A f \in Flight : f \in Over <=> flight[f].state \in {"ok", "failed", "cancelled"}
         /\ \A r \in Req : at[r] # None => at[r] \in Flight
BY ProbeAssumption DEF IInv, TypeOK, None, Flight, Running, Over, State

LEMMA HitStep ==
  ASSUME IInv, NEW r \in Req, NEW s \in Source, Hit(r, s)
  PROVE  IInv'
<1> USE DEF IInv
<1>1. /\ UNCHANGED <<probes, probeFlights, flight, count>> /\ Over' = Over /\ Running' = Running
      /\ flight[probes[s]].state = "ok" /\ probes[s] \in Flight
  BY DEF Hit, Over, Running, CacheInv, TypeOK
<1>2. /\ pc[r] = "idle" /\ pc' = [pc EXCEPT ![r] = "idle"] /\ at' = [at EXCEPT ![r] = None]
      /\ before' = [before EXCEPT ![r] = Over]
      /\ answer' = [answer EXCEPT ![r] = [ok |-> TRUE, from |-> probes[s]]]
      /\ ctxDone' = ctxDone \ {r}
  BY <1>1 DEF Hit, Begins, Return
<1>3. pc' = pc /\ at' = at BY <1>2 DEF TypeOK, MadeInv
<1>4. TypeOK' BY <1>1, <1>2, <1>3 DEF TypeOK, Over
<1>5. MadeInv' /\ LeadInv' BY <1>1, <1>3 DEF MadeInv, LeadInv
<1>6. CacheInv' BY <1>1, <1>2, <1>3 DEF CacheInv, TypeOK
<1>7. FlightsAreUnderWay' BY <1>1 DEF FlightsAreUnderWay
<1>8. FailuresAreCurrent' BY <1>2 DEF FailuresAreCurrent, TypeOK
<1> QED BY <1>4, <1>5, <1>6, <1>7, <1>8

LEMMA ExpireStep == ASSUME IInv, NEW s \in Source, Expire(s) PROVE IInv'
<1> USE DEF IInv, Expire
<1>1. Over' = Over /\ Running' = Running BY DEF Over, Running
<1>2. TypeOK' /\ MadeInv' /\ LeadInv' BY <1>1 DEF TypeOK, MadeInv, LeadInv
<1>3. CacheInv' BY <1>1 DEF CacheInv, TypeOK
<1>4. FlightsAreUnderWay' /\ FailuresAreCurrent' BY DEF FlightsAreUnderWay, FailuresAreCurrent
<1> QED BY <1>2, <1>3, <1>4

LEMMA JoinStep ==
  ASSUME IInv, NEW r \in Req, NEW s \in Source, Join(r, s)
  PROVE  IInv'
<1> USE DEF IInv
<1> DEFINE f == probeFlights[s]
<1>1. UNCHANGED <<probes, probeFlights, flight, count, ctxDone>> /\ Over' = Over /\ Running' = Running
  BY DEF Join, Over, Running
<1>2. f \in Flight /\ f \in Running /\ f \notin Over
  <2>1. f \in Flight BY DEF Join, TypeOK
  <2>2. flight[f].state = "running" BY DEF Join, FlightsAreUnderWay
  <2> QED BY <2>1, <2>2, FlightFacts
<1>3. /\ pc[r] = "idle" /\ pc' = [pc EXCEPT ![r] = "waiting"] /\ at' = [at EXCEPT ![r] = f]
      /\ before' = [before EXCEPT ![r] = Over] /\ answer' = [answer EXCEPT ![r] = NoAnswer]
  BY DEF Join, Begins
<1>4. TypeOK' BY <1>1, <1>2, <1>3 DEF TypeOK, Over, NoAnswer
<1>5. MadeInv' BY <1>1, <1>2, <1>3, FlightFacts DEF MadeInv, TypeOK
<1>6. LeadInv'
  <2>1. \A q \in Req : pc'[q] = "leading" <=> pc[q] = "leading" BY <1>3 DEF TypeOK
  <2>2. \A q \in Req : pc'[q] = "leading" => at'[q] = at[q] BY <1>3 DEF TypeOK
  <2>3. \A q \in Req : pc[q] = "leading" => at'[q] = at[q] BY <2>1, <2>2
  <2>4. \A q \in Req : pc'[q] = "waiting" => at'[q] \in Running \cup Over
    BY <1>2, <1>3 DEF TypeOK, LeadInv
  <2> QED BY <1>1, <2>1, <2>2, <2>3, <2>4 DEF LeadInv
<1>7. CacheInv' BY <1>1, <1>2, <1>3 DEF CacheInv, TypeOK
<1>8. FlightsAreUnderWay' BY <1>1 DEF FlightsAreUnderWay
<1>9. FailuresAreCurrent' BY <1>3 DEF FailuresAreCurrent, TypeOK, NoAnswer
<1> QED BY <1>4, <1>5, <1>6, <1>7, <1>8, <1>9

LEMMA LeadStep ==
  ASSUME IInv, NEW r \in Req, NEW s \in Source, Lead(r, s)
  PROVE  IInv'
<1> USE DEF IInv
<1> DEFINE f == count + 1
           new == [state |-> "running", src |-> s]
<1>1. /\ pc[r] = "idle" /\ probeFlights[s] = None /\ f \in Flight /\ count' = f
      /\ flight' = [flight EXCEPT ![f] = new]
      /\ probeFlights' = [probeFlights EXCEPT ![s] = f]
      /\ pc' = [pc EXCEPT ![r] = "leading"] /\ at' = [at EXCEPT ![r] = f]
      /\ before' = [before EXCEPT ![r] = Over] /\ answer' = [answer EXCEPT ![r] = NoAnswer]
      /\ UNCHANGED <<probes, ctxDone>>
  BY DEF Lead, MayLead, Begins
<1>2. /\ flight[f].state = "unmade" /\ f \notin Running /\ f \notin Over /\ f # None
      /\ \A g \in Flight : g > f <=> g > count /\ g # f
  BY <1>1, FlightFacts DEF MadeInv, Flight
<1>3. /\ flight'[f] = new /\ \A g \in Flight : g # f => flight'[g] = flight[g]
      /\ flight' \in [Flight -> [state : State, src : Source]]
  BY <1>1 DEF TypeOK, State
<1>4. Over' = Over /\ Running' = Running \cup {f}
  BY <1>1, <1>2, <1>3 DEF Over, Running
<1> HIDE DEF f, new
<1>5. new.state = "running" /\ new.src = s BY DEF new
<1>6. TypeOK'
  <2>1. count' \in 0..MaxProbes BY <1>1, ProbeAssumption DEF Flight
  <2> QED BY <1>1, <1>3, <2>1 DEF TypeOK, Over, NoAnswer
<1>7. MadeInv'
  <2>1. \A g \in Flight : flight'[g].state = "unmade" <=> g > count'
    <3>1. \A g \in Flight : g > count' <=> g > count /\ g # f BY <1>1, <1>2 DEF f
    <3>2. flight'[f].state # "unmade" BY <1>3, <1>5
    <3> QED BY <1>3, <3>1, <3>2 DEF MadeInv
  <2> QED BY <1>1, <1>2, <2>1 DEF MadeInv, TypeOK
<1>8. LeadInv'
  <2>1. \A g \in Running : g # f /\ flight[g].src # s /\ probeFlights'[flight[g].src] = g
    <3>1. \A g \in Running : g # f /\ g # None /\ probeFlights[flight[g].src] = g /\ flight[g].src \in Source
      BY <1>2, FlightFacts DEF LeadInv, TypeOK
    <3> QED BY <1>1, <3>1 DEF TypeOK
  <2>2. \A g \in Running' : probeFlights'[flight'[g].src] = g
    <3>1. probeFlights'[s] = f BY <1>1 DEF TypeOK
    <3>2. \A g \in Running : g \in Flight BY FlightFacts
    <3> QED BY <1>3, <1>4, <1>5, <2>1, <3>1, <3>2
  <2>3. \A q \in Req : q # r => pc'[q] = pc[q] /\ at'[q] = at[q] BY <1>1 DEF TypeOK
  <2>4. pc'[r] = "leading" /\ at'[r] = f BY <1>1 DEF TypeOK
  <2>5. \A q \in Req : pc[q] = "leading" => q # r /\ at[q] # f
    BY <1>1, <1>2 DEF LeadInv
  <2>6. \A q \in Req : pc'[q] = "leading" => q = r \/ pc[q] = "leading" BY <2>3
  <2>7. \A g \in Running' : \E q \in Req : pc'[q] = "leading" /\ at'[q] = g
    <3>1. ASSUME NEW g \in Running PROVE \E q \in Req : pc'[q] = "leading" /\ at'[q] = g
      <4>1. PICK q \in Req : pc[q] = "leading" /\ at[q] = g BY DEF LeadInv
      <4> QED BY <2>3, <2>5, <4>1
    <3> QED BY <1>4, <2>4, <3>1
  <2>8. \A q \in Req : pc'[q] = "leading" => at'[q] \in Running'
    BY <1>4, <2>3, <2>4 DEF LeadInv
  <2>9. \A p, q \in Req : pc'[p] = "leading" /\ pc'[q] = "leading" /\ at'[p] = at'[q] => p = q
    BY <2>3, <2>4, <2>5, <2>6 DEF LeadInv
  <2>10. \A q \in Req : pc'[q] = "waiting" => at'[q] \in Running' \cup Over'
    BY <1>4, <2>3, <2>4 DEF LeadInv
  <2> QED BY <2>2, <2>7, <2>8, <2>9, <2>10 DEF LeadInv
<1>9. CacheInv'
  <2>1. \A q \in Source : probes[q] # None => probes[q] \in Flight /\ probes[q] # f
    BY <1>2 DEF CacheInv, TypeOK
  <2> QED BY <1>1, <1>2, <1>3, <1>4, <2>1 DEF CacheInv, TypeOK
<1>10. FlightsAreUnderWay'
  <2>1. ASSUME NEW q \in Source, probeFlights'[q] # None
        PROVE  flight'[probeFlights'[q]].state = "running" /\ flight'[probeFlights'[q]].src = q
    <3>1. CASE q = s BY <1>1, <1>3, <1>5, <3>1 DEF TypeOK
    <3>2. CASE q # s
      <4>1. probeFlights'[q] = probeFlights[q] BY <1>1, <3>2 DEF TypeOK
      <4>2. flight[probeFlights[q]].state = "running" /\ flight[probeFlights[q]].src = q
        BY <2>1, <4>1 DEF FlightsAreUnderWay
      <4>3. probeFlights[q] \in Flight /\ probeFlights[q] # f
        BY <1>2, <2>1, <4>1, <4>2 DEF TypeOK
      <4> QED BY <1>3, <4>1, <4>2, <4>3
    <3> QED BY <3>1, <3>2
  <2> QED BY <2>1 DEF FlightsAreUnderWay
<1>11. FailuresAreCurrent' BY <1>1 DEF FailuresAreCurrent, TypeOK, NoAnswer
<1> QED BY <1>6, <1>7, <1>8, <1>9, <1>10, <1>11

LEMMA ContextEndsStep == ASSUME IInv, NEW r \in Req, ContextEnds(r) PROVE IInv'
<1> USE DEF IInv, ContextEnds
<1>1. Over' = Over /\ Running' = Running BY DEF Over, Running
<1>2. TypeOK' /\ MadeInv' /\ LeadInv' BY <1>1 DEF TypeOK, MadeInv, LeadInv
<1>3. CacheInv' BY <1>1 DEF CacheInv
<1>4. FlightsAreUnderWay' /\ FailuresAreCurrent' BY DEF FlightsAreUnderWay, FailuresAreCurrent
<1> QED BY <1>2, <1>3, <1>4

(* A waiter that returns, whatever it was answered.                          *)
LEMMA WaiterStep ==
  ASSUME IInv, NEW r \in Req, pc[r] = "waiting", NEW ok \in BOOLEAN, NEW from \in Flight \cup {None},
         from # None /\ ~ok => from \notin before[r],
         Return(r, ok, from), UNCHANGED <<probes, probeFlights, flight, count, before>>
  PROVE  IInv'
<1> USE DEF IInv, Return
<1>1. Over' = Over /\ Running' = Running BY DEF Over, Running
<1>2. TypeOK' /\ MadeInv' BY DEF TypeOK, MadeInv
<1>3. LeadInv'
  <2>1. \A q \in Req : /\ pc'[q] = "leading" <=> pc[q] = "leading"
                       /\ pc[q] = "leading" => at'[q] = at[q]
                       /\ pc'[q] = "waiting" => pc[q] = "waiting" /\ at'[q] = at[q]
    BY DEF TypeOK
  <2> QED BY <1>1, <2>1 DEF LeadInv
<1>4. CacheInv' BY <1>1 DEF CacheInv, TypeOK
<1>5. FlightsAreUnderWay' /\ FailuresAreCurrent'
  BY DEF FlightsAreUnderWay, FailuresAreCurrent, TypeOK
<1> QED BY <1>2, <1>3, <1>4, <1>5

LEMMA FinishStep ==
  ASSUME IInv, NEW r \in Req, Finish(r)
  PROVE  IInv'
<1> USE DEF IInv
<1>1. PICK outcome \in {"ok", "failed", "cancelled"} : Publish(r, outcome)
  BY DEF Finish, Outcomes
<1>0. pc[r] = "leading" /\ at[r] \in Running /\ at[r] \in Flight
  BY FlightFacts DEF Finish, LeadInv
<1> SUFFICES ASSUME NEW f \in Flight, f = at[r], NEW s \in Source, s = flight[f].src PROVE IInv'
  BY <1>0 DEF TypeOK
<1>2. /\ pc' = [pc EXCEPT ![r] = "idle"] /\ at' = [at EXCEPT ![r] = None]
      /\ answer' = [answer EXCEPT ![r] = [ok |-> outcome = "ok", from |-> f]]
      /\ ctxDone' = ctxDone \ {r} /\ UNCHANGED <<count, before>>
      /\ probeFlights' = [probeFlights EXCEPT ![s] = None]
      /\ flight' = [flight EXCEPT ![f].state = outcome]
      /\ probes' = IF outcome = "ok" THEN [probes EXCEPT ![s] = f] ELSE probes
  BY <1>1 DEF Publish, Return, Landed, Cached
<1>3. /\ flight' \in [Flight -> [state : State, src : Source]]
      /\ flight'[f].state = outcome /\ \A g \in Flight : g # f => flight'[g] = flight[g]
  BY <1>2 DEF TypeOK, State
<1>4. /\ f \in Running /\ f \notin Over /\ Running' = Running \ {f} /\ Over' = Over \cup {f}
      /\ Running \subseteq Flight
  BY <1>0, <1>3 DEF Running, Over
<1>5. probeFlights[s] = f /\ f # None BY <1>4, FlightFacts DEF LeadInv
<1>6. TypeOK' BY <1>2, <1>3 DEF TypeOK
<1>7. MadeInv'
  <2>1. \A g \in Flight : flight'[g].state = "unmade" <=> flight[g].state = "unmade"
    BY <1>0, <1>3, FlightFacts
  <2> QED BY <1>2, <2>1 DEF MadeInv, TypeOK
<1>8. LeadInv'
  <2>1. \A g \in Running' : probeFlights'[flight'[g].src] = g
    <3>1. \A g \in Running' : /\ g \in Flight /\ g # f /\ flight'[g] = flight[g]
                              /\ probeFlights[flight[g].src] = g
      BY <1>3, <1>4 DEF LeadInv
    <3>2. \A g \in Running' : flight[g].src # s BY <1>5, <3>1
    <3> QED BY <1>2, <3>1, <3>2 DEF TypeOK
  <2>2. \A q \in Req : /\ q # r => pc'[q] = pc[q] /\ at'[q] = at[q]
                       /\ pc'[q] # "idle" => q # r
    BY <1>2 DEF TypeOK
  <2>3. \A q \in Req : pc[q] = "leading" /\ q # r => at[q] # f
    BY <1>0 DEF LeadInv
  <2>4. \A g \in Running' : \E q \in Req : pc'[q] = "leading" /\ at'[q] = g
    <3>1. ASSUME NEW g \in Running' PROVE \E q \in Req : pc'[q] = "leading" /\ at'[q] = g
      <4>1. g \in Running /\ g # f BY <1>4
      <4>2. PICK q \in Req : pc[q] = "leading" /\ at[q] = g BY <4>1 DEF LeadInv
      <4> QED BY <2>2, <4>1, <4>2
    <3> QED BY <3>1
  <2>5. \A q \in Req : pc'[q] = "leading" => at'[q] \in Running'
    BY <1>4, <2>2, <2>3 DEF LeadInv
  <2>6. \A p, q \in Req : pc'[p] = "leading" /\ pc'[q] = "leading" /\ at'[p] = at'[q] => p = q
    BY <2>2 DEF LeadInv
  <2>7. \A q \in Req : pc'[q] = "waiting" => at'[q] \in Running' \cup Over'
    BY <1>4, <2>2 DEF LeadInv
  <2> QED BY <2>1, <2>4, <2>5, <2>6, <2>7 DEF LeadInv
<1>9. CacheInv'
  <2>1. \A q \in Source : probes'[q] # None => flight'[probes'[q]].state = "ok"
    <3>1. \A q \in Source : probes[q] # None => flight'[probes[q]].state = "ok"
      BY <1>3, <1>4, FlightFacts DEF CacheInv, TypeOK
    <3> QED BY <1>2, <1>3, <3>1 DEF TypeOK
  <2>2. \A q \in Req : pc'[q] # "idle" => pc[q] # "idle" /\ at'[q] = at[q]
    BY <1>2 DEF TypeOK
  <2> QED BY <1>2, <1>4, <2>1, <2>2 DEF CacheInv
<1>10. FlightsAreUnderWay'
  <2>1. ASSUME NEW q \in Source, probeFlights'[q] # None
        PROVE  flight'[probeFlights'[q]].state = "running" /\ flight'[probeFlights'[q]].src = q
    <3>1. q # s /\ probeFlights'[q] = probeFlights[q] BY <1>2, <2>1 DEF TypeOK
    <3>2. flight[probeFlights[q]].state = "running" /\ flight[probeFlights[q]].src = q
      BY <2>1, <3>1 DEF FlightsAreUnderWay
    <3>3. probeFlights[q] \in Flight /\ probeFlights[q] # f
      BY <2>1, <3>1, <3>2 DEF TypeOK
    <3> QED BY <1>3, <3>1, <3>2, <3>3
  <2> QED BY <2>1 DEF FlightsAreUnderWay
<1>11. FailuresAreCurrent'
  <2>1. f \notin before[r] BY <1>0 DEF CacheInv
  <2> QED BY <1>2, <2>1 DEF FailuresAreCurrent, TypeOK
<1> QED BY <1>6, <1>7, <1>8, <1>9, <1>10, <1>11

-----------------------------------------------------------------------------
LEMMA NextInv == IInv /\ [Next]_vars => IInv'
<1> SUFFICES ASSUME IInv, [Next]_vars PROVE IInv'
  OBVIOUS
<1>1. ASSUME NEW s \in Source, Expire(s) PROVE IInv' BY <1>1, ExpireStep
<1>2. ASSUME NEW r \in Req, Request(r) PROVE IInv'
  <2>1. ASSUME NEW s \in Source, Hit(r, s) \/ Join(r, s) \/ Lead(r, s) PROVE IInv'
    BY <2>1, HitStep, JoinStep, LeadStep
  <2>2. CASE ContextEnds(r) BY <2>2, ContextEndsStep
  <2>3. CASE Finish(r) BY <2>3, FinishStep
  <2>4. CASE Receive(r)
    <3>1. at[r] \in Flight /\ at[r] \notin before[r]
      BY <2>4, FlightFacts DEF Receive, IInv, LeadInv, CacheInv
    <3> QED BY <2>4, <3>1, WaiterStep DEF Receive
  <2>5. CASE GiveUp(r) BY <2>5, WaiterStep DEF GiveUp
  <2> QED BY <1>2, <2>1, <2>2, <2>3, <2>4, <2>5 DEF Request
<1>3. CASE UNCHANGED vars
  BY <1>3 DEF vars, IInv, TypeOK, MadeInv, LeadInv, CacheInv, FlightsAreUnderWay,
              FailuresAreCurrent, Running, Over
<1> QED BY <1>1, <1>2, <1>3 DEF Next

(* The map of flights, the flights and the requests agree in every reachable *)
(* state, for any number of sources and of requests, detached or not.        *)
THEOREM Invariance == Spec => []IInv
BY InitInv, NextInv, PTL DEF Spec

(* probeSTRMMedia never runs two probes of one source at a time.             *)
THEOREM OneProbe == Spec => []OneProbePerSource
<1>1. IInv => OneProbePerSource BY DEF IInv, LeadInv, OneProbePerSource
<1> QED BY <1>1, Invariance, PTL

(* Whoever waits for a flight waits for one that is over or that a request   *)
(* is at work on.                                                            *)
THEOREM NoVainWait == Spec => []NobodyWaitsInVain
<1>1. IInv => NobodyWaitsInVain BY DEF IInv, LeadInv, NobodyWaitsInVain
<1> QED BY <1>1, Invariance, PTL

(* A failed probe is reported to nobody who asked after it had ended.        *)
THEOREM FailuresNotRemembered == Spec => []FailuresAreCurrent
<1>1. IInv => FailuresAreCurrent BY DEF IInv
<1> QED BY <1>1, Invariance, PTL

-----------------------------------------------------------------------------
(* MetadataRewrite *)

LEMMA DocumentTypes ==
  ASSUME WalkTypeOK
  PROVE  /\ Listed \in Seq(Listing) /\ DOMAIN Listed \subseteq Nat
         /\ \A n \in DOMAIN Listed : Listed[n] \in Listing
<1>1. response.document \in Documents \cup {NoDocument}
  BY DEF WalkTypeOK
<1>2. <<>> \in Seq(Listing)
  OBVIOUS
<1>3. CASE response.document = NoDocument
  BY <1>2, <1>3 DEF NoDocument, Listed
<1>4. CASE response.document \in Documents
  BY <1>4, RewriteAssumption DEF Listed
<1> QED BY <1>1, <1>3, <1>4

(* What a callback that is left says of its place. *)
LEMMA CallbackTypes ==
  ASSUME WalkTypeOK, NEW c \in todo
  PROVE  /\ c.read \in {"container", "file", "probe", "item"}
         /\ c.n \in DOMAIN Listed /\ c.turn \in DOMAIN Listed
         /\ c \in [read : {"container", "file", "probe", "item"}, n : DOMAIN Listed, turn : DOMAIN Listed]
         /\ Listed[c.n].strm
         /\ c.read # "item" => c.turn = c.n
         /\ c.read = "item" => response.format = "json" /\ EndsItem(Listed, c.turn, c.n)
BY DEF WalkTypeOK, Script

(* A walk is in one callback at a time. *)
LEMMA DueIsOne ==
  ASSUME WalkTypeOK, NEW c, NEW d, Due(c), Due(d)
  PROVE  c = d
<1> SUFFICES ASSUME c # d PROVE FALSE
  OBVIOUS
<1>1. c \in todo /\ d \in todo /\ Before(response.format, c, d) /\ Before(response.format, d, c)
  BY DEF Due
<1>2. response.format \in Format
  BY DEF WalkTypeOK
<1>3. \A b \in todo : b.turn \in Nat /\ b.n \in Nat /\ Order[response.format][b.read] \in Nat
  BY <1>2, CallbackTypes, DocumentTypes DEF Format, Order
<1>4. \A a, b \in todo : Order[response.format][a.read] = Order[response.format][b.read] => a.read = b.read
  BY <1>2, CallbackTypes DEF Format, Order
<1> QED BY <1>1, <1>3, <1>4 DEF Before

(* By the time an item is described, the files of its Parts are behind. *)
LEMMA FilesAreBehind ==
  ASSUME WalkTypeOK, NEW c, Due(c), c.read = "item", NEW d \in todo, d.n = c.n
  PROVE  d.read # "file"
<1> SUFFICES ASSUME d.read = "file" PROVE FALSE
  OBVIOUS
<1>1. c \in todo /\ Before(response.format, c, d)
  BY DEF Due
<1>2. response.format = "json" /\ EndsItem(Listed, c.turn, c.n) /\ d.turn = c.n /\ c.n \in DOMAIN Listed
  BY <1>1, CallbackTypes
<1>3. d.turn <= c.turn /\ c.turn \in Nat /\ d.turn \in Nat
  BY <1>1, <1>2, CallbackTypes, DocumentTypes DEF EndsItem
<1>4. Order["json"]["file"] = 2 /\ Order["json"]["item"] = 4
  BY DEF Order
<1> QED BY <1>1, <1>2, <1>3, <1>4 DEF Before

-----------------------------------------------------------------------------
(* Other requests: what a Part has had only grows. *)

Elsewhere ==
  /\ UNCHANGED walk
  /\ store' \in [Part -> Known] /\ cached' \subseteq URL /\ had' \in [Part -> SUBSET Known]
  /\ \A p \in Part : had[p] \subseteq had'[p]
  /\ Walking => \A p \in Part : store'[p] \in had'[p]

LEMMA ElsewhereKeeps ==
  ASSUME WalkInv, Elsewhere PROVE WalkInv'
<1> USE DEF Elsewhere, walk, cold
<1>0. WalkTypeOK /\ StageInv
  BY DEF WalkInv
<1>1. UNCHANGED <<stage, response, coldProbeAllowed, coldProbeUsed, source, todo, written, items, probed>>
  OBVIOUS
<1>2. UNCHANGED <<Listed, Walking, Chosen, QueueSelection>>
  BY <1>1 DEF Listed, Walking, Chosen, QueueSelection
<1>3. \A n \in DOMAIN Listed : Listed[n].part \in Part /\ had[Listed[n].part] \subseteq had'[Listed[n].part]
  BY <1>0, DocumentTypes DEF Listing
<1>4. Walking => \A n \in DOMAIN Listed : had[Listed[n].part] # {}
  BY <1>0, <1>3 DEF StageInv
<1>5. (\A c : Due(c) = Due(c)') /\ \A n, read : Passed(n, read) = Passed(n, read)'
  BY <1>1 DEF Due, Passed
<1> HIDE DEF Elsewhere, walk, cold
<1>6. WalkTypeOK'
  BY <1>0, <1>1, <1>2 DEF WalkTypeOK, Elsewhere
<1>7. StageInv'
  BY <1>0, <1>1, <1>2 DEF StageInv, Elsewhere
<1>8. AllowedInv'
  <2>1. AllowedInv
    BY DEF WalkInv
  <2> QED BY <2>1, <1>1, <1>2, <1>3 DEF AllowedInv
<1>9. ProbingInv'
  <2>1. ProbingInv
    BY DEF WalkInv
  <2>2. \A c \in todo : c.n \in DOMAIN Listed
    BY <1>0, CallbackTypes
  <2> QED BY <2>1, <2>2, <1>1, <1>2, <1>3, <1>5 DEF ProbingInv
<1>10. MeantInv'
  <2>1. MeantInv
    BY DEF WalkInv
  <2>2. Walking => \A n \in DOMAIN Listed : Meant(n)' /\ Stable(n)' => Meant(n) /\ Stable(n)
    <3>1. Walking => \A n \in DOMAIN Listed : \A u : had'[Listed[n].part] = {u} => had[Listed[n].part] = {u}
      BY <1>3, <1>4
    <3> QED BY <3>1, <1>1, <1>2 DEF Meant, Stable
  <2>3. \A n : Tried(n) = Tried(n)'
    BY <1>1, <1>2 DEF Tried, Spent
  <2>4. Walking => \A k \in DOMAIN probed : probed[k] \in DOMAIN Listed
    BY <1>0 DEF WalkTypeOK, Walking
  <2>5. Walking => \A k \in DOMAIN probed : had'[Listed[probed[k]].part] # {NoURL}
    BY <2>1, <2>4, <1>3, <1>4 DEF MeantInv
  <2> QED BY <2>1, <2>2, <2>3, <2>5, <1>1, <1>2, <1>5 DEF MeantInv
<1>11. ItemsInv'
  <2>1. ItemsInv
    BY DEF WalkInv
  <2> QED BY <2>1, <1>1, <1>2, <1>3, <1>5 DEF ItemsInv
<1>12. ColdProbesAreEarned'
  <2>1. ColdProbesAreEarned
    BY DEF WalkInv
  <2>2. Walking => \A k \in DOMAIN probed : probed[k] \in DOMAIN Listed
    BY <1>0 DEF WalkTypeOK, Walking
  <2> QED BY <2>1, <2>2, <1>1, <1>2, <1>3 DEF ColdProbesAreEarned
<1>13. PartsAreOfTheirSource'
  <2>1. PartsAreOfTheirSource
    BY DEF WalkInv
  <2> QED BY <2>1, <1>1, <1>2, <1>3, <1>5 DEF PartsAreOfTheirSource
<1> QED BY <1>6, <1>7, <1>8, <1>9, <1>10, <1>11, <1>12, <1>13 DEF WalkInv

-----------------------------------------------------------------------------
(* Before and after a walk *)

(* Without a walk there is nothing to say. *)
LEMMA AtRest ==
  ASSUME WalkTypeOK, StageInv, ~Walking PROVE WalkInv
BY DEF WalkInv, AllowedInv, ProbingInv, MeantInv, ItemsInv, ColdProbesAreEarned,
       PartsAreOfTheirSource, Walking

LEMMA BlankTypes ==
  ASSUME NEW S PROVE Untouched(S) \in [S -> Written]
BY DEF Untouched, Written, Known

LEMMA InitRests == WalkInit => WalkInv
<1> SUFFICES ASSUME WalkInit PROVE WalkInv
  OBVIOUS
<1>1. ~Walking
  BY DEF WalkInit, Walking
<1>2. response \in [kind : RequestKind, named : Part \cup {NoPart}, format : Format,
                    document : Documents \cup {NoDocument}]
  BY DEF WalkInit, NoResponse, RequestKind, Format
<1>3. written \in [{} -> Written]
  BY BlankTypes DEF WalkInit
<1>4. probed \in Seq(DOMAIN written) /\ Len(probed) = 0
  BY DEF WalkInit
<1>5. WalkTypeOK
  BY <1>1, <1>2, <1>3, <1>4 DEF WalkInit, WalkTypeOK, Known
<1>6. StageInv
  BY <1>1, <1>4 DEF WalkInit, StageInv
<1> QED BY <1>1, <1>5, <1>6, AtRest

LEMMA BeginRests ==
  ASSUME WalkInv, NEW kind \in RequestKind, NEW native \in BOOLEAN, NEW part \in Part \cup {NoPart},
         NEW format \in Format, NEW document \in Documents, NEW found \in [Part -> Known],
         Begin(kind, native, part, format, document, found)
  PROVE  WalkInv'
<1>0. WalkTypeOK /\ StageInv
  BY DEF WalkInv
<1>1. ~Walking /\ ~Walking'
  BY DEF Begin, Walking
<1>2. response' \in [kind : RequestKind, named : Part \cup {NoPart}, format : Format,
                     document : Documents \cup {NoDocument}]
  BY DEF Begin, Named
<1>3. store' \in [Part -> Known]
  BY <1>0 DEF Begin, WalkTypeOK
<1>4. WalkTypeOK'
  BY <1>0, <1>1, <1>2, <1>3 DEF WalkTypeOK, StageInv, Begin, cold
<1>5. StageInv'
  BY <1>0, <1>1 DEF StageInv, Begin, cold
<1>6. (WalkTypeOK /\ StageInv /\ ~Walking => WalkInv)'
  BY AtRest, PTL
<1> QED BY <1>1, <1>4, <1>5, <1>6

LEMMA SendRests ==
  ASSUME WalkInv, Send PROVE WalkInv'
<1>0. WalkTypeOK /\ StageInv
  BY DEF WalkInv
<1>1. ~Walking' /\ todo' = {} /\ stage' \in {"idle", "ingested", "walking", "probing"}
  BY DEF Send, Walking
<1>2. response' \in [kind : RequestKind, named : Part \cup {NoPart}, format : Format,
                     document : Documents \cup {NoDocument}]
  BY DEF Send, NoResponse, RequestKind, Format
<1>3. written' \in [{} -> Written]
  BY BlankTypes DEF Send
<1>4. probed' = <<>> /\ probed' \in Seq(DOMAIN written') /\ Len(probed') = 0
  BY DEF Send
<1>5. items' \in [Item -> Known] /\ had' \in [Part -> SUBSET Known]
  BY DEF Send, Known
<1>6. WalkTypeOK'
  BY <1>0, <1>1, <1>2, <1>3, <1>4, <1>5 DEF Send, WalkTypeOK
<1>7. StageInv'
  BY <1>1, <1>4 DEF Send, StageInv
<1>8. (WalkTypeOK /\ StageInv /\ ~Walking => WalkInv)'
  BY AtRest, PTL
<1> QED BY <1>1, <1>6, <1>7, <1>8

(* The walk begins: the answers to come were counted on the mappings of this moment. *)
LEMMA PrepareKeeps ==
  ASSUME WalkInv, Prepare PROVE WalkInv'
<1>0. WalkTypeOK /\ StageInv /\ ~Walking /\ Walking' /\ stage' = "walking"
  BY DEF WalkInv, Prepare, Walking
<1>1. UNCHANGED <<store, cached, response, source, items, probed, Listed, Chosen, QueueSelection>>
  BY DEF Prepare, Listed, Chosen, QueueSelection
<1>2. probed' = <<>> /\ Len(probed') = 0 /\ DOMAIN probed' = {}
  BY <1>0, <1>1 DEF StageInv
<1>3. written' = Untouched(DOMAIN Listed) /\ written' \in [DOMAIN Listed -> Written]
  BY BlankTypes DEF Prepare
<1>4. had' = [p \in Part |-> {store[p]}] /\ had' \in [Part -> SUBSET Known]
  BY <1>0 DEF Prepare, WalkTypeOK
<1>5. \A n \in DOMAIN Listed : Listed[n].part \in Part /\ had'[Listed[n].part] = {store[Listed[n].part]}
  BY <1>0, <1>4, DocumentTypes DEF Listing
<1>6. WalkTypeOK'
  <2>1. coldProbeAllowed' \in BOOLEAN /\ coldProbeUsed' \in BOOLEAN
    BY DEF Prepare, ColdProbeAllowed
  <2>2. todo' = Script(Listed, response.format)
    BY DEF Prepare
  <2>3. probed' \in Seq(DOMAIN written')
    BY <1>2
  <2> QED BY <1>0, <1>1, <1>3, <1>4, <2>1, <2>2, <2>3 DEF WalkTypeOK
<1>7. StageInv'
  BY <1>0, <1>2, <1>4, <1>1 DEF Prepare, StageInv
<1>8. AllowedInv'
  <2> SUFFICES ASSUME coldProbeAllowed', response.named = NoPart
               PROVE  \/ response.kind = "queue" /\ QueueSelection # {}
                      \/ /\ response.kind = "detail"
                         /\ \A m, n \in DOMAIN Listed :
                              m # n => NoURL \in had'[Listed[m].part] \cup had'[Listed[n].part]
    BY <1>1 DEF AllowedInv
  <2>1. ColdProbeAllowed
    BY DEF Prepare
  <2>2. CASE response.kind = "queue" /\ QueueSelection # {}
    BY <2>2
  <2>3. CASE response.kind = "detail" /\ \E n \in DOMAIN Listed : STRMParts = {n}
    BY <2>3, <1>5 DEF STRMParts
  <2> QED BY <2>1, <2>2, <2>3 DEF ColdProbeAllowed
<1>9. ProbingInv'
  BY <1>0 DEF ProbingInv
<1>14. ASSUME NEW n \in DOMAIN Listed, Listed[n].strm, NEW read \in {"container", "file", "probe"}
       PROVE  ~Passed(n, read)'
  <2> DEFINE c == [read |-> read, n |-> n, turn |-> n]
  <2>1. c \in Script(Listed, response.format)
    BY <1>14 DEF Script
  <2> QED BY <2>1 DEF Prepare, Passed
<1>10. MeantInv'
  <2>1. ASSUME NEW n \in DOMAIN Listed, Meant(n)', Stable(n)'
        PROVE  coldProbeAllowed'
    <3>1. store[Listed[n].part] # NoURL
      BY <2>1, <1>1, <1>5, RewriteAssumption DEF Stable
    <3>2. response.kind = "detail" /\ (\A m \in DOMAIN Listed \ {n} : had'[Listed[m].part] = {NoURL}) =>
            STRMParts = {n}
      BY <3>1, <1>5 DEF STRMParts
    <3>3. ColdProbeAllowed
      BY <2>1, <1>1, <3>2 DEF Meant, ColdProbeAllowed
    <3> QED BY <3>3 DEF Prepare
  <2>2. \A n \in DOMAIN Listed : Stable(n)' => ~Passed(n, "probe")'
    BY <1>1, <1>14 DEF Stable
  <2> QED BY <1>1, <1>2, <2>1, <2>2 DEF MeantInv
<1>11. ItemsInv'
  BY <1>0, <1>1 DEF StageInv, ItemsInv
<1>12. ColdProbesAreEarned'
  BY <1>2 DEF ColdProbesAreEarned
<1>13. PartsAreOfTheirSource'
  BY <1>1, <1>3, <1>14 DEF PartsAreOfTheirSource, Untouched
<1> QED BY <1>6, <1>7, <1>8, <1>9, <1>10, <1>11, <1>12, <1>13 DEF WalkInv

-----------------------------------------------------------------------------
(* The callbacks: what stays the same in each. *)

Answered(c) ==
  /\ Due(c) /\ Walking /\ stage' = "walking"
  /\ UNCHANGED <<store, response, coldProbeAllowed, had>>
  /\ todo' = todo \ {c}
  /\ DOMAIN written' = DOMAIN written
  /\ probed' = probed /\ coldProbeUsed' = coldProbeUsed

LEMMA AnsweredSame ==
  ASSUME NEW c, Answered(c)
  PROVE  /\ Walking' /\ c \in todo
         /\ UNCHANGED <<Listed, Chosen, QueueSelection>>
         /\ \A n : Meant(n) = Meant(n)' /\ Stable(n) = Stable(n)'
<1>1. UNCHANGED <<Listed, Chosen, QueueSelection>>
  BY DEF Answered, Listed, Chosen, QueueSelection
<1> QED BY <1>1 DEF Answered, Walking, Due, Meant, Stable

LEMMA AnsweredKeeps ==
  ASSUME WalkInv, NEW c, Answered(c)
  PROVE  StageInv' /\ AllowedInv' /\ ProbingInv' /\ ColdProbesAreEarned'
<1>1. Walking' /\ UNCHANGED <<Listed, Chosen, QueueSelection>>
  BY AnsweredSame
<1>2. StageInv'
  BY <1>1 DEF WalkInv, StageInv, Answered
<1>3. AllowedInv'
  BY <1>1 DEF WalkInv, AllowedInv, Answered
<1>4. ProbingInv'
  BY DEF ProbingInv, Answered
<1>5. ColdProbesAreEarned'
  BY <1>1 DEF WalkInv, ColdProbesAreEarned, Answered
<1> QED BY <1>2, <1>3, <1>4, <1>5

LEMMA PassedMore ==
  ASSUME NEW c, Answered(c), NEW n, NEW read
  PROVE  /\ Passed(n, read) => Passed(n, read)'
         /\ Passed(n, read)' => Passed(n, read) \/ (n = c.n /\ read = c.read)
BY DEF Answered, Passed

(* A Part is asked once for its container, once for its file and once for a probe. *)
LEMMA PassedNow ==
  ASSUME WalkTypeOK, NEW c, Answered(c), c.read # "item"
  PROVE  Passed(c.n, c.read)'
<1>1. c \in todo
  BY DEF Answered, Due
<1>2. \A d \in todo : d.n = c.n /\ d.read = c.read => d = c
  BY <1>1, CallbackTypes
<1> QED BY <1>2 DEF Answered, Passed

(* Where a callback's Part is; it has not been passed. *)
LEMMA CallbackPlace ==
  ASSUME WalkInv, Walking, NEW c \in todo
  PROVE  /\ c.n \in DOMAIN Listed /\ Listed[c.n] \in Listing /\ Listed[c.n].strm
         /\ written \in [DOMAIN Listed -> Written]
         /\ URLOf(c.n) \in Known /\ URLOf(c.n) \in had[Listed[c.n].part]
         /\ ~Passed(c.n, c.read)
<1>1. WalkTypeOK /\ StageInv
  BY DEF WalkInv
<1>2. c.n \in DOMAIN Listed /\ Listed[c.n] \in Listing /\ Listed[c.n].strm
  BY <1>1, CallbackTypes, DocumentTypes
<1>3. Listed[c.n].part \in Part
  BY <1>2 DEF Listing
<1>4. ~Passed(c.n, c.read)
  BY DEF Passed
<1> QED BY <1>1, <1>2, <1>3, <1>4 DEF WalkTypeOK, StageInv, URLOf

(* One field of what is written on a Part *)
LEMMA RecordWritten ==
  ASSUME NEW r \in Written, NEW u \in Known
  PROVE  /\ [r EXCEPT !.container = u] \in Written /\ [r EXCEPT !.container = u].container = u
         /\ [r EXCEPT !.container = u].file = r.file /\ [r EXCEPT !.container = u].probe = r.probe
         /\ [r EXCEPT !.file = u] \in Written /\ [r EXCEPT !.file = u].file = u
         /\ [r EXCEPT !.file = u].container = r.container /\ [r EXCEPT !.file = u].probe = r.probe
         /\ [r EXCEPT !.probe = u] \in Written /\ [r EXCEPT !.probe = u].probe = u
         /\ [r EXCEPT !.probe = u].file = r.file /\ [r EXCEPT !.probe = u].container = r.container
BY DEF Written

LEMMA PartWritten ==
  ASSUME NEW S, NEW w \in [S -> Written], NEW n \in S, NEW r \in Written,
         NEW v, v = [w EXCEPT ![n] = r]
  PROVE  v \in [S -> Written] /\ v[n] = r /\ \A m \in S \ {n} : v[m] = w[m]
OBVIOUS

LEMMA ReadContainerKeeps ==
  ASSUME WalkInv, NEW c, ReadContainer(c) PROVE WalkInv'
<1>0. WalkTypeOK /\ Answered(c) /\ c \in todo /\ c.read = "container" /\ Walking
  <2>1. DOMAIN written' = DOMAIN written
    BY DEF ReadContainer
  <2> QED BY <2>1 DEF WalkInv, ReadContainer, Called, Due, Answered, Walking, cold
<1>1. Walking' /\ UNCHANGED <<Listed, Chosen, QueueSelection, source, items, cached>>
      /\ \A n : Meant(n) = Meant(n)' /\ Stable(n) = Stable(n)'
  BY <1>0, AnsweredSame DEF ReadContainer, cold
<1> DEFINE u == Container(URLOf(c.n))
<1>2. c.n \in DOMAIN Listed /\ Listed[c.n].strm /\ written \in [DOMAIN Listed -> Written]
      /\ u \in Known /\ u \in {Container(v) : v \in had[Listed[c.n].part]} /\ ~Passed(c.n, "container")
  BY <1>0, CallbackPlace DEF Known, Container
<1>3. written' = [written EXCEPT ![c.n] = [written[c.n] EXCEPT !.container = u]]
  BY DEF ReadContainer
<1> HIDE DEF u
<1>4. /\ written' \in [DOMAIN Listed -> Written]
      /\ written'[c.n].container = u
      /\ \A n \in DOMAIN Listed : written'[n].file = written[n].file /\ written'[n].probe = written[n].probe
      /\ \A n \in DOMAIN Listed \ {c.n} : written'[n] = written[n]
  <2> DEFINE r == [written[c.n] EXCEPT !.container = u]
  <2>1. written[c.n] \in Written
    BY <1>2
  <2>2. r \in Written /\ r.container = u /\ r.file = written[c.n].file /\ r.probe = written[c.n].probe
    BY <1>2, <2>1, RecordWritten
  <2>3. written' = [written EXCEPT ![c.n] = r]
    BY <1>3
  <2> HIDE DEF r
  <2>4. written' \in [DOMAIN Listed -> Written] /\ written'[c.n] = r
        /\ \A n \in DOMAIN Listed \ {c.n} : written'[n] = written[n]
    BY <1>2, <2>2, <2>3, PartWritten
  <2> QED BY <2>2, <2>4
<1>5. WalkTypeOK'
  BY <1>0, <1>1, <1>4 DEF WalkTypeOK, Answered
<1>9. \A n, read : /\ (Passed(n, read) => Passed(n, read)')
                   /\ (Passed(n, read)' => Passed(n, read) \/ (n = c.n /\ read = "container"))
  BY <1>0, PassedMore
<1>6. PartsAreOfTheirSource'
  <2> SUFFICES ASSUME NEW n \in DOMAIN Listed
               PROVE  LET urls == had[Listed[n].part]
                          containers == {Container(v) : v \in urls}
                      IN IF Listed[n].strm
                         THEN /\ written'[n].file \in IF Passed(n, "file")' THEN urls ELSE {NoURL}
                              /\ written'[n].container \in IF Passed(n, "container")' THEN containers ELSE {NoURL}
                              /\ written'[n].probe \in urls \cup {NoURL}
                         ELSE written'[n] = Untouched({n})[n]
    BY <1>0, <1>1 DEF PartsAreOfTheirSource, Answered
  <2>1. PartsAreOfTheirSource
    BY DEF WalkInv
  <2>2. CASE n # c.n
    BY <2>1, <2>2, <1>0, <1>4, <1>9 DEF PartsAreOfTheirSource
  <2>3. CASE n = c.n
    <3>1. Passed(n, "container")'
      BY <2>3, <1>0, PassedNow
    <3>2. /\ written[n].file \in IF Passed(n, "file") THEN had[Listed[n].part] ELSE {NoURL}
          /\ written[n].probe \in had[Listed[n].part] \cup {NoURL}
      BY <2>1, <2>3, <1>0, <1>2 DEF PartsAreOfTheirSource
    <3>3. Passed(n, "file")' <=> Passed(n, "file")
      BY <1>9
    <3> QED BY <2>3, <3>1, <3>2, <3>3, <1>2, <1>4
  <2> QED BY <2>2, <2>3
<1>7. ItemsInv'
  <2>1. \A n \in DOMAIN Listed : /\ Passed(n, "file") => written'[n].file = written[n].file
                               /\ written'[n].probe = written[n].probe
    BY <1>0, <1>2, <1>4
  <2> QED BY <1>0, <1>1, <1>9, <2>1 DEF WalkInv, ItemsInv, Answered
<1>8. MeantInv'
  <2>1. \A n \in DOMAIN Listed : Tried(n) = Tried(n)'
    BY <1>0, <1>1, <1>4 DEF Tried, Spent, Answered
  <2> QED BY <1>0, <1>1, <1>9, <2>1 DEF WalkInv, MeantInv, Answered
<1> QED BY <1>0, <1>5, <1>6, <1>7, <1>8, AnsweredKeeps DEF WalkInv

LEMMA ReadFileKeeps ==
  ASSUME WalkInv, NEW c, ReadFile(c) PROVE WalkInv'
<1>0. WalkTypeOK /\ Answered(c) /\ c \in todo /\ c.read = "file" /\ Walking
  <2>1. DOMAIN written' = DOMAIN written
    BY DEF ReadFile
  <2> QED BY <2>1 DEF WalkInv, ReadFile, Called, Due, Answered, Walking, cold
<1>1. Walking' /\ UNCHANGED <<Listed, Chosen, QueueSelection, source, items, cached>>
      /\ \A n : Meant(n) = Meant(n)' /\ Stable(n) = Stable(n)'
  BY <1>0, AnsweredSame DEF ReadFile, cold
<1>2. c.n \in DOMAIN Listed /\ Listed[c.n].strm /\ written \in [DOMAIN Listed -> Written]
      /\ URLOf(c.n) \in Known /\ URLOf(c.n) \in had[Listed[c.n].part] /\ ~Passed(c.n, "file")
  BY <1>0, CallbackPlace
<1>3. written' = [written EXCEPT ![c.n] = [written[c.n] EXCEPT !.file = URLOf(c.n)]]
  BY DEF ReadFile
<1>4. /\ written' \in [DOMAIN Listed -> Written]
      /\ written'[c.n].file = URLOf(c.n)
      /\ \A n \in DOMAIN Listed : written'[n].probe = written[n].probe /\ written'[n].container = written[n].container
      /\ \A n \in DOMAIN Listed \ {c.n} : written'[n] = written[n]
  <2> DEFINE r == [written[c.n] EXCEPT !.file = URLOf(c.n)]
  <2>1. written[c.n] \in Written
    BY <1>2
  <2>2. r \in Written /\ r.file = URLOf(c.n) /\ r.probe = written[c.n].probe /\ r.container = written[c.n].container
    BY <1>2, <2>1, RecordWritten
  <2>3. written' = [written EXCEPT ![c.n] = r]
    BY <1>3
  <2> HIDE DEF r
  <2>4. written' \in [DOMAIN Listed -> Written] /\ written'[c.n] = r
        /\ \A n \in DOMAIN Listed \ {c.n} : written'[n] = written[n]
    BY <1>2, <2>2, <2>3, PartWritten
  <2> QED BY <2>2, <2>4
<1>5. WalkTypeOK'
  BY <1>0, <1>1, <1>4 DEF WalkTypeOK, Answered
<1>9. \A n, read : /\ (Passed(n, read) => Passed(n, read)')
                   /\ (Passed(n, read)' => Passed(n, read) \/ (n = c.n /\ read = "file"))
  BY <1>0, PassedMore
<1>6. PartsAreOfTheirSource'
  <2> SUFFICES ASSUME NEW n \in DOMAIN Listed
               PROVE  LET urls == had[Listed[n].part]
                          containers == {Container(v) : v \in urls}
                      IN IF Listed[n].strm
                         THEN /\ written'[n].file \in IF Passed(n, "file")' THEN urls ELSE {NoURL}
                              /\ written'[n].container \in IF Passed(n, "container")' THEN containers ELSE {NoURL}
                              /\ written'[n].probe \in urls \cup {NoURL}
                         ELSE written'[n] = Untouched({n})[n]
    BY <1>0, <1>1 DEF PartsAreOfTheirSource, Answered
  <2>1. PartsAreOfTheirSource
    BY DEF WalkInv
  <2>2. CASE n # c.n
    BY <2>1, <2>2, <1>0, <1>4, <1>9 DEF PartsAreOfTheirSource
  <2>3. CASE n = c.n
    <3>1. Passed(n, "file")'
      BY <2>3, <1>0, PassedNow
    <3>2. /\ written[n].container \in IF Passed(n, "container") THEN {Container(v) : v \in had[Listed[n].part]} ELSE {NoURL}
          /\ written[n].probe \in had[Listed[n].part] \cup {NoURL}
      BY <2>1, <2>3, <1>0, <1>2 DEF PartsAreOfTheirSource
    <3>3. Passed(n, "container")' <=> Passed(n, "container")
      BY <1>9
    <3> QED BY <2>3, <3>1, <3>2, <3>3, <1>2, <1>4
  <2> QED BY <2>2, <2>3
<1>7. ItemsInv'
  <2>1. \A n \in DOMAIN Listed : /\ Passed(n, "file") => written'[n].file = written[n].file
                               /\ written'[n].probe = written[n].probe
    BY <1>0, <1>2, <1>4
  <2> QED BY <1>0, <1>1, <1>9, <2>1 DEF WalkInv, ItemsInv, Answered
<1>8. MeantInv'
  <2>1. \A n \in DOMAIN Listed : Tried(n) = Tried(n)'
    BY <1>0, <1>1, <1>4 DEF Tried, Spent, Answered
  <2> QED BY <1>0, <1>1, <1>9, <2>1 DEF WalkInv, MeantInv, Answered
<1> QED BY <1>0, <1>5, <1>6, <1>7, <1>8, AnsweredKeeps DEF WalkInv

(* A description by what the Part had: from the cache, or from ffprobe. *)
Described(c, u) ==
  /\ Answered(c) /\ Describe(c, u) /\ c.read \in {"probe", "item"}
  /\ u \in {NoURL} \cup (URL \cap had[Listed[c.n].part])
  /\ c.read = "item" /\ u # NoURL => written[c.n].file = NoURL \/ Listed[c.n].path
  /\ c.read = "probe" /\ Meant(c.n) /\ Stable(c.n) => u # NoURL \/ Spent(c.n)
  /\ source' \in Known /\ cached' \subseteq URL

LEMMA DescribedKeeps ==
  ASSUME WalkInv, NEW c, NEW u, Described(c, u) PROVE WalkInv'
<1>0. WalkTypeOK /\ Answered(c) /\ c \in todo /\ c.read \in {"probe", "item"} /\ Walking /\ Due(c)
  BY DEF WalkInv, Described, Answered, Due
<1>1. Walking' /\ UNCHANGED <<Listed, Chosen, QueueSelection>>
      /\ \A n : Meant(n) = Meant(n)' /\ Stable(n) = Stable(n)'
  BY <1>0, AnsweredSame
<1>2. c.n \in DOMAIN Listed /\ Listed[c.n].strm /\ Listed[c.n].item \in Item /\ u \in Known
      /\ written \in [DOMAIN Listed -> Written]
  BY <1>0, CallbackPlace DEF Known, Listing, Described
<1>3. /\ written' \in [DOMAIN Listed -> Written]
      /\ \A n \in DOMAIN Listed : written'[n].file = written[n].file /\ written'[n].container = written[n].container
      /\ \A n \in DOMAIN Listed \ {c.n} : written'[n] = written[n]
      /\ c.read = "probe" => written'[c.n].probe = u
      /\ c.read # "probe" => written' = written
  <2>1. CASE c.read = "probe"
    <3> DEFINE r == [written[c.n] EXCEPT !.probe = u]
    <3>1. written[c.n] \in Written
      BY <1>2
    <3>2. r \in Written /\ r.probe = u /\ r.file = written[c.n].file /\ r.container = written[c.n].container
      BY <1>2, <3>1, RecordWritten
    <3>3. written' = [written EXCEPT ![c.n] = r]
      BY <2>1 DEF Described, Describe
    <3> HIDE DEF r
    <3>4. written' \in [DOMAIN Listed -> Written] /\ written'[c.n] = r
          /\ \A n \in DOMAIN Listed \ {c.n} : written'[n] = written[n]
      BY <1>2, <3>2, <3>3, PartWritten
    <3> QED BY <2>1, <3>2, <3>4
  <2>2. CASE c.read # "probe"
    BY <2>2, <1>2 DEF Described, Describe
  <2> QED BY <2>1, <2>2
<1>4. /\ items' \in [Item -> Known]
      /\ \A i \in Item : items'[i] = items[i] \/ (i = Listed[c.n].item /\ items'[i] = u /\ u # NoURL
                          /\ (c.read = "item" \/ response.format = "xml"))
  BY <1>0, <1>2 DEF Described, Describe, DescribedItem, WalkTypeOK
<1>5. WalkTypeOK'
  BY <1>0, <1>1, <1>3, <1>4 DEF WalkTypeOK, Answered, Described
<1>9. \A n, read : /\ (Passed(n, read) => Passed(n, read)')
                   /\ (Passed(n, read)' => Passed(n, read) \/ (n = c.n /\ read = c.read))
  BY <1>0, PassedMore
<1>6. PartsAreOfTheirSource'
  <2> SUFFICES ASSUME NEW n \in DOMAIN Listed
               PROVE  LET urls == had[Listed[n].part]
                          containers == {Container(v) : v \in urls}
                      IN IF Listed[n].strm
                         THEN /\ written'[n].file \in IF Passed(n, "file") THEN urls ELSE {NoURL}
                              /\ written'[n].container \in IF Passed(n, "container") THEN containers ELSE {NoURL}
                              /\ written'[n].probe \in urls \cup {NoURL}
                         ELSE written'[n] = Untouched({n})[n]
    <3>1. \A n \in DOMAIN Listed :
            (Passed(n, "file")' <=> Passed(n, "file")) /\ (Passed(n, "container")' <=> Passed(n, "container"))
      BY <1>0, <1>9
    <3> QED BY <1>0, <1>1, <3>1 DEF PartsAreOfTheirSource, Answered
  <2>1. PartsAreOfTheirSource
    BY DEF WalkInv
  <2>2. CASE n # c.n
    BY <2>1, <2>2, <1>0, <1>3 DEF PartsAreOfTheirSource
  <2>3. CASE n = c.n
    <3>1. written[n].probe \in had[Listed[n].part] \cup {NoURL}
      BY <2>1, <2>3, <1>0, <1>2 DEF PartsAreOfTheirSource
    <3>2. u \in had[Listed[n].part] \cup {NoURL}
      BY <2>3 DEF Described
    <3>3. written'[n].probe \in had[Listed[n].part] \cup {NoURL}
      BY <2>3, <1>3, <3>1, <3>2
    <3> QED BY <2>1, <2>3, <3>3, <1>0, <1>2, <1>3 DEF PartsAreOfTheirSource
  <2> QED BY <2>2, <2>3
<1>7. ItemsInv'
  <2> SUFFICES ASSUME NEW i \in Item, items'[i] # NoURL
               PROVE  \E n \in DOMAIN Listed :
                        /\ Listed[n].item = i /\ Listed[n].strm /\ items'[i] \in had[Listed[n].part]
                        /\ response.format = "xml" => written'[n].probe = items'[i] /\ Passed(n, "probe")'
                        /\ response.format = "json" =>
                             Listed[n].path \/ (written'[n].file = NoURL /\ Passed(n, "file")')
    BY <1>1 DEF ItemsInv, Answered, Described
  <2>1. CASE items'[i] = items[i]
    <3>1. PICK n \in DOMAIN Listed :
            /\ Listed[n].item = i /\ Listed[n].strm /\ items[i] \in had[Listed[n].part]
            /\ response.format = "xml" => written[n].probe = items[i] /\ Passed(n, "probe")
            /\ response.format = "json" => Listed[n].path \/ (written[n].file = NoURL /\ Passed(n, "file"))
      BY <2>1, <1>0 DEF WalkInv, ItemsInv
    <3>2. Passed(n, "probe") => written'[n].probe = written[n].probe
      <4>1. Passed(n, "probe") => n # c.n \/ c.read # "probe"
        BY <1>0 DEF Passed
      <4> QED BY <4>1, <1>3
    <3> QED BY <2>1, <3>1, <3>2, <1>3, <1>9
  <2>2. CASE i = Listed[c.n].item /\ items'[i] = u /\ u # NoURL /\ (c.read = "item" \/ response.format = "xml")
    <3>1. (response.format = "json" => c.read = "item") /\ (response.format = "xml" => c.read = "probe")
      BY <2>2, <1>0, CallbackTypes
    <3>2. response.format = "json" => Passed(c.n, "file")
      BY <1>0, <3>1, FilesAreBehind DEF Passed
    <3>3. response.format = "json" => Passed(c.n, "file")'
      BY <3>2, <1>9
    <3>4. response.format = "xml" => written'[c.n].probe = u /\ Passed(c.n, "probe")'
      BY <1>0, <1>3, <3>1, PassedNow
    <3>5. response.format = "json" => Listed[c.n].path \/ written'[c.n].file = NoURL
      BY <1>2, <1>3, <2>2, <3>1 DEF Described
    <3>6. u \in had[Listed[c.n].part]
      BY <2>2 DEF Described
    <3> QED BY <2>2, <3>3, <3>4, <3>5, <3>6, <1>2
  <2> QED BY <1>4, <2>1, <2>2
<1>8. MeantInv'
  <2>1. \A n \in DOMAIN Listed : Tried(n) /\ (n = c.n /\ c.read = "probe" => u # NoURL) => Tried(n)'
    BY <1>0, <1>1, <1>3 DEF Tried, Spent, Answered
  <2>2. \A n \in DOMAIN Listed : n = c.n /\ c.read = "probe" /\ Meant(n) /\ Stable(n) => Tried(n)'
    BY <1>0, <1>1, <1>2, <1>3 DEF Tried, Spent, Answered, Described
  <2>3. ASSUME NEW n \in DOMAIN Listed, Meant(n), Stable(n), Passed(n, "probe")'
        PROVE  Tried(n)'
    <3>1. CASE n = c.n /\ c.read = "probe"
      BY <2>2, <2>3, <3>1
    <3>2. CASE ~(n = c.n /\ c.read = "probe")
      <4>1. Passed(n, "probe")
        BY <2>3, <3>2, <1>9
      <4> QED BY <4>1, <2>3, <3>2, <2>1, <1>0 DEF WalkInv, MeantInv
    <3> QED BY <3>1, <3>2
  <2> QED BY <1>0, <1>1, <2>3 DEF WalkInv, MeantInv, Answered
<1> QED BY <1>0, <1>5, <1>6, <1>7, <1>8, AnsweredKeeps DEF WalkInv

(* A Part that is passed over, or described from the cache. *)
LEMMA PassedOverKeeps ==
  ASSUME WalkInv, NEW c, ReadProbe(c), ~(Wanted(c) /\ URLOf(c.n) \notin cached /\ MayProbe)
  PROVE  WalkInv'
<1> DEFINE u == IF Wanted(c) /\ URLOf(c.n) \in cached THEN URLOf(c.n) ELSE NoURL
<1>0. WalkTypeOK /\ StageInv /\ MeantInv /\ ColdProbesAreEarned
  BY DEF WalkInv
<1>1. /\ Describe(c, u) /\ c.read \in {"probe", "item"} /\ stage = "walking" /\ Walking /\ Due(c) /\ c \in todo
      /\ UNCHANGED <<store, cached, stage, response, cold, had, probed>>
  BY DEF ReadProbe, Called, Walking, Due, cold
<1>2. c.n \in DOMAIN Listed /\ URLOf(c.n) \in had[Listed[c.n].part] /\ cached \subseteq URL
      /\ written \in [DOMAIN Listed -> Written]
  BY <1>0, <1>1, CallbackPlace DEF WalkTypeOK
<1>3. Answered(c)
  <2>1. todo' = todo \ {c} /\ DOMAIN written' = DOMAIN written
    BY <1>1 DEF Describe
  <2> QED BY <1>1, <2>1 DEF Answered, cold
<1>4. c.read = "item" /\ u # NoURL => written[c.n].file = NoURL \/ Listed[c.n].path
  BY DEF Wanted, ItemSettled
<1>5. c.read = "probe" /\ Meant(c.n) /\ Stable(c.n) => u # NoURL \/ Spent(c.n)
  <2> SUFFICES ASSUME c.read = "probe", Meant(c.n), Stable(c.n), u = NoURL PROVE Spent(c.n)
    OBVIOUS
  <2>1. URLOf(c.n) # NoURL
    BY <1>2, RewriteAssumption DEF Stable
  <2>2. Wanted(c)
    BY <2>1 DEF Wanted, MayDescribe, Meant
  <2>3. coldProbeAllowed
    BY <1>0, <1>1, <1>2 DEF MeantInv
  <2>4. coldProbeUsed
    BY <2>1, <2>2, <2>3 DEF MayProbe
  <2>5. 1 \in DOMAIN probed /\ probed[1] \in DOMAIN Listed
    BY <2>4, <1>0, <1>1 DEF StageInv, WalkTypeOK
  <2>6. response.named \in {NoPart, Listed[probed[1]].part} /\ had[Listed[probed[1]].part] # {NoURL}
    BY <2>5, <1>0, <1>1 DEF ColdProbesAreEarned, MeantInv
  <2>7. response.kind = "queue" \/ Listed[probed[1]].part = Listed[c.n].part
    BY <2>5, <2>6 DEF Meant
  <2> QED BY <2>5, <2>7 DEF Spent
<1>6. u \in {NoURL} \cup (URL \cap had[Listed[c.n].part])
  BY <1>2
<1>7. source' \in Known /\ cached' \subseteq URL
  BY <1>0, <1>1 DEF cold, WalkTypeOK
<1> HIDE DEF u
<1> QED BY <1>1, <1>3, <1>4, <1>5, <1>6, <1>7, DescribedKeeps DEF Described

(* The cold probe is spent. *)
LEMMA ProbeStartedKeeps ==
  ASSUME WalkInv, NEW c, ReadProbe(c), Wanted(c) /\ URLOf(c.n) \notin cached /\ MayProbe
  PROVE  WalkInv'
<1>0. WalkTypeOK /\ StageInv /\ AllowedInv /\ MeantInv /\ ItemsInv /\ PartsAreOfTheirSource
  BY DEF WalkInv
<1>1. /\ stage = "walking" /\ Due(c) /\ c \in todo /\ c.read \in {"probe", "item"}
      /\ stage' = "probing" /\ coldProbeUsed' = TRUE /\ source' = URLOf(c.n) /\ probed' = Append(probed, c.n)
      /\ UNCHANGED <<todo, written, items, store, cached, response, coldProbeAllowed, had>>
      /\ Wanted(c) /\ coldProbeAllowed /\ ~coldProbeUsed
  BY DEF ReadProbe, Called, Due, MayProbe
<1>2. Walking /\ Walking' /\ UNCHANGED <<Listed, Chosen, QueueSelection>>
      /\ (\A d : Due(d) = Due(d)') /\ (\A n : Meant(n) = Meant(n)' /\ Stable(n) = Stable(n)')
      /\ \A n, read : Passed(n, read) = Passed(n, read)'
  BY <1>1 DEF Walking, Listed, Chosen, QueueSelection, Due, Meant, Stable, Passed
<1>3. c.n \in DOMAIN Listed /\ URLOf(c.n) \in had[Listed[c.n].part] /\ URLOf(c.n) \in Known
      /\ URLOf(c.n) # NoURL /\ written \in [DOMAIN Listed -> Written]
  BY <1>0, <1>1, <1>2, CallbackPlace DEF Wanted, MayDescribe
<1>4. probed' = <<c.n>> /\ Len(probed') = 1 /\ DOMAIN probed' = {1} /\ probed'[1] = c.n
  BY <1>0, <1>1 DEF StageInv, WalkTypeOK
<1>5. WalkTypeOK'
  <2>1. probed' \in Seq(DOMAIN written')
    BY <1>1, <1>3, <1>4
  <2> QED BY <1>0, <1>1, <1>2, <1>3, <2>1 DEF WalkTypeOK
<1>6. StageInv'
  BY <1>0, <1>1, <1>2, <1>4 DEF StageInv
<1>7. AllowedInv'
  BY <1>0, <1>1, <1>2 DEF AllowedInv
<1>8. ProbingInv'
  <2>1. source' \in URL \cap had[Listed[c.n].part]
    BY <1>1, <1>3 DEF Known
  <2>2. c.read = "item" => written[c.n].file = NoURL \/ Listed[c.n].path
    BY <1>1 DEF Wanted, ItemSettled
  <2>3. \A d : Due(d) => d = c
    BY <1>0, <1>1, DueIsOne
  <2> QED BY <1>1, <1>2, <1>4, <2>1, <2>2, <2>3 DEF ProbingInv
<1>9. MeantInv'
  <2>1. DOMAIN probed = {}
    BY <1>0, <1>1 DEF StageInv, WalkTypeOK
  <2>2. \A n : Tried(n) => Tried(n)'
    BY <1>1, <2>1 DEF Tried, Spent
  <2> QED BY <1>0, <1>1, <1>2, <1>3, <1>4, <2>2 DEF MeantInv
<1>10. ItemsInv'
  BY <1>0, <1>1, <1>2 DEF ItemsInv
<1>11. ColdProbesAreEarned'
  <2>1. response.named \in {NoPart, Listed[c.n].part}
        /\ (response.kind = "queue" /\ QueueSelection # {} => Listed[c.n].part \in QueueSelection)
    BY <1>1 DEF Wanted, MayDescribe
  <2>2. response.kind = "list" => response.named # NoPart
    BY <1>0, <1>1, <1>2 DEF AllowedInv
  <2>3. response.kind = "queue" /\ response.named = NoPart =>
          \E m \in DOMAIN Listed :
            /\ Listed[m].part = Listed[c.n].part
            /\ \/ Listed[m].item \in response.document.chosen
               \/ Listed[m].selected /\ \A l \in DOMAIN Listed : Listed[l].item \notin response.document.chosen
    <3>1. response.kind = "queue" /\ response.named = NoPart => Listed[c.n].part \in QueueSelection
      BY <2>1, <1>0, <1>1, <1>2 DEF AllowedInv
    <3> QED BY <3>1 DEF QueueSelection, Chosen
  <2>4. response.kind = "detail" /\ response.named = NoPart =>
          \A m \in DOMAIN Listed \ {c.n} : NoURL \in had[Listed[m].part] \cup had[Listed[c.n].part]
    BY <1>0, <1>1, <1>2, <1>3 DEF AllowedInv
  <2> QED BY <1>1, <1>2, <1>4, <2>1, <2>2, <2>3, <2>4 DEF ColdProbesAreEarned
<1>12. PartsAreOfTheirSource'
  BY <1>0, <1>1, <1>2 DEF PartsAreOfTheirSource
<1> QED BY <1>5, <1>6, <1>7, <1>8, <1>9, <1>10, <1>11, <1>12 DEF WalkInv

LEMMA ProbedKeeps ==
  ASSUME WalkInv, NEW c, NEW answers \in BOOLEAN, Probed(c, answers) PROVE WalkInv'
<1> DEFINE u == IF answers THEN source ELSE NoURL
<1>0. WalkTypeOK /\ ProbingInv
  BY DEF WalkInv
<1>1. /\ Describe(c, u) /\ stage = "probing" /\ stage' = "walking" /\ Walking /\ Due(c) /\ c \in todo
      /\ UNCHANGED <<store, response, coldProbeAllowed, coldProbeUsed, had, probed>>
      /\ source' = NoURL /\ cached' \subseteq cached \cup {source}
  BY DEF Probed, Walking, Due
<1>2. c.n \in DOMAIN Listed /\ written \in [DOMAIN Listed -> Written]
  BY <1>0, <1>1, CallbackPlace
<1>3. /\ c.read \in {"probe", "item"} /\ source \in URL \cap had[Listed[c.n].part]
      /\ c.read = "item" => written[c.n].file = NoURL \/ Listed[c.n].path
      /\ probed = <<c.n>>
  BY <1>0, <1>1 DEF ProbingInv
<1>4. Answered(c)
  <2>1. todo' = todo \ {c} /\ DOMAIN written' = DOMAIN written
    BY <1>1 DEF Describe
  <2> QED BY <1>1, <2>1 DEF Answered
<1>5. Spent(c.n)
  <2>1. 1 \in DOMAIN probed /\ probed[1] = c.n
    BY <1>3
  <2> QED BY <2>1 DEF Spent
<1>6. source' \in Known /\ cached' \subseteq URL /\ u \in {NoURL} \cup (URL \cap had[Listed[c.n].part])
  BY <1>0, <1>1, <1>3 DEF WalkTypeOK, Known
<1> HIDE DEF u
<1> QED BY <1>1, <1>3, <1>4, <1>5, <1>6, DescribedKeeps DEF Described

-----------------------------------------------------------------------------
(* The theorems *)

LEMMA WalkNextKeeps == WalkInv /\ [WalkNext]_walkVars => WalkInv'
<1> SUFFICES ASSUME WalkInv, [WalkNext]_walkVars PROVE WalkInv'
  OBVIOUS
<1>0. WalkTypeOK /\ StageInv
  BY DEF WalkInv
<1>1. ASSUME NEW p \in Part, NEW u \in Known, Remap(p, u) PROVE WalkInv'
  <2>1. UNCHANGED walk /\ cached' = cached /\ store' = [store EXCEPT ![p] = u] /\ had' = [had EXCEPT ![p] = @ \cup {u}]
    BY <1>1 DEF Remap
  <2>2. store' \in [Part -> Known] /\ had' \in [Part -> SUBSET Known]
    BY <1>0, <2>1 DEF WalkTypeOK
  <2>3. \A q \in Part : had[q] \subseteq had'[q]
    BY <1>0, <2>1 DEF WalkTypeOK
  <2>4. Walking => \A q \in Part : store'[q] \in had'[q]
    BY <1>0, <2>1 DEF WalkTypeOK, StageInv
  <2>5. Elsewhere
    BY <1>0, <2>1, <2>2, <2>3, <2>4 DEF Elsewhere, WalkTypeOK
  <2> QED BY <2>5, ElsewhereKeeps
<1>2. ASSUME NEW u \in URL, Probe(u) \/ Forget(u) PROVE WalkInv'
  <2>1. UNCHANGED <<walk, store, had>> /\ cached' \subseteq cached \cup {u}
    BY <1>2 DEF Probe, Forget
  <2>2. Elsewhere
    BY <1>0, <2>1 DEF Elsewhere, WalkTypeOK, StageInv
  <2> QED BY <2>2, ElsewhereKeeps
<1>3. CASE UNCHANGED walkVars
  <2>1. Elsewhere
    BY <1>0, <1>3 DEF walkVars, Elsewhere, WalkTypeOK, StageInv
  <2> QED BY <2>1, ElsewhereKeeps
<1>4. ASSUME NEW c \in todo,
             ReadContainer(c) \/ ReadFile(c) \/ ReadProbe(c) \/ \E answers \in BOOLEAN : Probed(c, answers)
      PROVE  WalkInv'
  BY <1>4, ReadContainerKeeps, ReadFileKeeps, PassedOverKeeps, ProbeStartedKeeps, ProbedKeeps
<1>5. CASE Prepare
  BY <1>5, PrepareKeeps
<1>6. CASE Send
  BY <1>6, SendRests
<1> QED BY <1>1, <1>2, <1>3, <1>4, <1>5, <1>6, BeginRests DEF WalkNext

(* Of every response to every client, for any documents and any changes of the mappings
   and of the probe cache while it is rewritten. *)
THEOREM WalkInvariance == WalkSpec => []WalkInv
BY InitRests, WalkNextKeeps, PTL DEF WalkSpec

(* What the walk keeps stays well-formed, and what is still to be called back is of its
   own document. *)
THEOREM WalkTypes == WalkSpec => []WalkTypeOK
<1>1. WalkInv => WalkTypeOK
  BY DEF WalkInv
<1> QED BY <1>1, WalkInvariance, PTL

(* rewriteSTRMMetadataResponse starts at most one ffprobe for a response, and only for a
   Part the request or the queue singles out, or that was the only known one. *)
THEOREM ColdProbesEarned == WalkSpec => []ColdProbesAreEarned
<1>1. WalkInv => ColdProbesAreEarned
  BY DEF WalkInv
<1> QED BY <1>1, WalkInvariance, PTL

(* And it does start it: what the client selected, and kept its URL, was described by a
   probe, or the one cold probe was spent where it may be. *)
THEOREM SelectionProbed == WalkSpec => []SelectionIsProbed
<1>1. WalkInv => SelectionIsProbed
  BY DEF WalkInv, MeantInv, SelectionIsProbed, Walking, Passed
<1> QED BY <1>1, WalkInvariance, PTL

(* Container, file and streams of a Part are of URLs it had while it was rewritten. *)
THEOREM PartsOfTheirSource == WalkSpec => []PartsAreOfTheirSource
<1>1. WalkInv => PartsAreOfTheirSource
  BY DEF WalkInv
<1> QED BY <1>1, WalkInvariance, PTL

(* An item is described by a Part of its own: in XML by the probe of the Part itself, in
   JSON by no Part that is declared for direct play, unless its path is .strm. *)
THEOREM ItemsOfTheirParts == WalkSpec => []ItemsAreOfTheirParts
<1>1. WalkInv => ItemsAreOfTheirParts
  BY DEF WalkInv, ItemsInv, ItemsAreOfTheirParts
<1> QED BY <1>1, WalkInvariance, PTL
=============================================================================
