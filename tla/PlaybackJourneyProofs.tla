----------------------- MODULE PlaybackJourneyProofs -----------------------
(***************************************************************************)
(* Proofs about PlaybackJourney, for any clients, sources, decisions and   *)
(* number of sessions.  IInv is inductive: what was told stays true        *)
(* because a start that comes later finds the session before it asks Plex, *)
(* so only the starts counted in "crowded" can reach register.             *)
(***************************************************************************)
EXTENDS PlaybackJourney, TLAPS

-----------------------------------------------------------------------------
(* The policy *)

(* The plan is one of the four, and the two of the proxy are made only where the
   transcoder is configured. *)
LEMMA PlanOfPolicy ==
  ASSUME JourneyAssumption, NEW stage \in Stage, NEW strm \in BOOLEAN, NEW probe, NEW profile,
         NEW intent, NEW confirmed \in BOOLEAN, NEW hlsRequest \in BOOLEAN,
         NEW plan, plan = SelectPlaybackPlan(stage, strm, probe, profile, intent, confirmed, hlsRequest)
  PROVE  /\ plan \in Plan
         /\ plan \in {"proxy audio", "proxy video"} => HLS /\ strm
  BY DEF SelectPlaybackPlan, FallBackTo, Plan, JourneyAssumption, PolicyAssumption

(* rewriteSTRMMetadata asks at the metadata stage, where nothing is probed: a Part of a
   .strm file is always one to redirect. *)
THEOREM MetadataRedirects ==
  ASSUME JourneyAssumption, NEW profile \in Profile, NEW intent \in Intent, NEW confirmed \in BOOLEAN
  PROVE  /\ ~Probes("metadata", profile, intent, confirmed)
         /\ SelectPlaybackPlan("metadata", TRUE, NoProbe, profile, intent, confirmed, FALSE)
              = "redirect"
  BY DEF Probes, SelectPlaybackPlan, VideoNeedsTranscode, AudioNeedsTranscode, NoProbe

(* A redirect is planned only where what is known of the client and of the source
   agree, a client's insistence on direct play standing in for a list of audio codecs. *)
LEMMA RedirectSuits ==
  ASSUME JourneyAssumption, NEW stage \in Stage, NEW probe, NEW profile, NEW intent,
         NEW hlsRequest \in BOOLEAN,
         SelectPlaybackPlan(stage, TRUE, probe, profile, intent, FALSE, hlsRequest) = "redirect"
  PROVE  /\ ~VideoNeedsTranscode(profile, probe)
         /\ \/ ~AudioNeedsTranscode(profile, probe)
            \/ intent = "direct play" /\ ~HasAudio(profile)
  BY DEF SelectPlaybackPlan, FallBackTo

(* registerProxyTranscode also encodes the audio when the plan says so; the plan never
   does where the audio itself does not. *)
THEOREM PlanAddsNoAudio ==
  ASSUME JourneyAssumption, NEW stage \in Stage, NEW probe, NEW profile, NEW intent,
         NEW hlsRequest \in BOOLEAN,
         SelectPlaybackPlan(stage, TRUE, probe, profile, intent, FALSE, hlsRequest) = "proxy audio"
  PROVE  AudioIsEncoded(profile, probe)
  BY DEF SelectPlaybackPlan, FallBackTo, AudioIsEncoded

-----------------------------------------------------------------------------
(* Requests *)

LEMMA CallShape ==
  ASSUME call \in [Req -> Call \cup {NoCall}], NEW r \in Req
  PROVE  /\ At(r, "idle") => call[r] = NoCall
         /\ At(r, "asking") => call[r] \in [at : {"asking"}, kind : {"native", "plain", "start"}, intent : Intent]
         /\ At(r, "rejected") => call[r] \in [at : {"rejected"}, kind : {"native", "start"}, intent : Intent]
         /\ At(r, "looking") => call[r] \in [at : {"looking"}, kind : {"start"}, intent : Intent]
         /\ At(r, "choosing") => call[r] \in [at : {"choosing"}, kind : {"start"}, intent : Intent]
         /\ At(r, "planning") => call[r] \in [at : {"planning"}, intent : Intent, profile : Profiles, direct : BOOLEAN]
         /\ At(r, "deciding") => call[r] \in [at : {"deciding"}, intent : Intent, profile : Profiles]
         /\ At(r, "starting") => call[r] \in [at : {"starting"}, intent : Intent, own : 0..MaxSessions]
         /\ At(r, "labelling") => call[r] \in [at : {"labelling"}, got : 1..MaxSessions, format : Format]
<1>1. call[r] \in Call \cup {NoCall}
  OBVIOUS
<1>2. CASE call[r] = NoCall
  BY <1>2 DEF At, NoCall
<1>3. CASE call[r] \in Call
  BY <1>3 DEF At, Call
<1> QED BY <1>1, <1>2, <1>3

LEMMA GotoShape ==
  ASSUME NEW r \in Req, NEW place, Goto(r, place)
  PROVE  /\ place = "idle" => Becomes(r, NoCall)
         /\ place # "idle" => \A a, k, i :
              call[r] = [at |-> a, kind |-> k, intent |-> i]
                => Becomes(r, [at |-> place, kind |-> k, intent |-> i])
<1>1. \A a, k, i : [[at |-> a, kind |-> k, intent |-> i] EXCEPT !.at = place]
                     = [at |-> place, kind |-> k, intent |-> i]
  OBVIOUS
<1> QED BY <1>1 DEF Goto

LEMMA ReadingShape ==
  ASSUME NEW reading \in Readings
  PROVE  reading.direct \in BOOLEAN
<1>1. PICK d \in Documents :
        reading = [direct |-> IsDirect(d), transcodes |-> TranscodesSelected(d),
                   plays |-> PlaysDirectly(d)]
  BY Zenon DEF Readings
<1>2. reading.direct = IsDirect(d)
  BY <1>1, Zenon
<1>3. IsDirect(d) \in BOOLEAN
  BY Zenon DEF IsDirect
<1> QED BY <1>2, <1>3

(* The steps that change a request and nothing that the invariant relates it to. *)
LEMMA OnlyCalls ==
  ASSUME JourneyAssumption, IInv, NEW r \in Req, NEW new \in Call \cup {NoCall},
         Becomes(r, new), UNCHANGED <<source, session, made, told, crowded>>, record' \in BOOLEAN,
         new.at \in {"choosing", "asking", "rejected"} /\ new.kind = "start"
           => told = NothingTold \/ crowded,
         new.at = "starting" => new.own = 0,
         new.at = "labelling" =>
           Exists /\ new.got = session.n /\ new.format = session.format
  PROVE  IInv'
<1> USE DEF IInv
<1>1. /\ call' \in [Req -> Call \cup {NoCall}]
      /\ \A q \in Req : call'[q] = IF q = r THEN new ELSE call[q]
  BY DEF TypeOK, Becomes
<1>2. TypeOK'
  BY <1>1 DEF TypeOK
<1>3. ToldIsKept'
  BY DEF ToldIsKept, Exists, StreamsOf, Encoded
<1>4. ToldInv'
  <2>1. ASSUME NEW q \in Req, told # NothingTold, ~crowded PROVE ~PastLook(q)'
    <3>1. CASE q = r
      BY <3>1, <2>1, <1>1 DEF PastLook
    <3>2. CASE q # r
      BY <3>2, <2>1, <1>1 DEF PastLook, ToldInv
    <3> QED BY <3>1, <3>2
  <2> QED BY <2>1 DEF ToldInv, Exists
<1>5. OwnInv'
  <2>1. ASSUME NEW q \in Req, At(q, "starting")'
        PROVE  /\ call'[q].own <= made
               /\ Exists /\ call'[q].own = session.n /\ call'[q].intent = "transcode" => session.forced
    <3>1. CASE q = r
      BY <3>1, <2>1, <1>1 DEF At, Exists, TypeOK, Session, NoSession
    <3>2. CASE q # r
      BY <3>2, <2>1, <1>1 DEF At, OwnInv
    <3> QED BY <3>1, <3>2
  <2> QED BY <2>1 DEF OwnInv, Exists
<1>6. GotInv'
  <2>1. ASSUME NEW q \in Req, At(q, "labelling")'
        PROVE  /\ call'[q].got <= made
               /\ Exists /\ call'[q].got = session.n => call'[q].format = session.format
    <3>1. CASE q = r
      BY <3>1, <2>1, <1>1 DEF At, Exists, TypeOK
    <3>2. CASE q # r
      BY <3>2, <2>1, <1>1 DEF At, GotInv
    <3> QED BY <3>1, <3>2
  <2> QED BY <2>1 DEF GotInv, Exists
<1> QED BY <1>2, <1>3, <1>4, <1>5, <1>6

(* Those before register, and those after start. *)
LEMMA RequestSteps ==
  ASSUME JourneyAssumption, IInv, NEW r \in Req,
         \/ \E directPlay, directStream \in Flag :
              BeginStart(r, directPlay, directStream)
                \/ \E path \in {"metadata", "strm", "url"} : Begin(r, path, directPlay, directStream)
         \/ Look(r) \/ Choose(r)
         \/ \E reading \in Readings, profile \in Profiles :
              PlexDecidesPlainly(r, reading, profile)
                \/ \E accepted \in BOOLEAN : PlexDecides(r, reading, accepted, profile)
         \/ \E accepted \in BOOLEAN : PlexAnswers(r, accepted)
         \/ \E answers \in BOOLEAN : Rewrite(r, answers) \/ Remember(r, answers)
         \/ Reply(r) \/ Label(r)
  PROVE  IInv'
<1> DEFINE Kept(new) ==
      /\ new \in Call \cup {NoCall}
      /\ Becomes(r, new) /\ UNCHANGED <<source, session, made, told, crowded>>
      /\ new.at \in {"choosing", "asking", "rejected"} /\ new.kind = "start"
           => told = NothingTold \/ crowded
      /\ new.at = "starting" => new.own = 0
      /\ new.at # "labelling"
<1>0. record \in BOOLEAN /\ call \in [Req -> Call \cup {NoCall}]
  BY DEF IInv, TypeOK
<1>1. \A new : Kept(new) /\ record' \in BOOLEAN => IInv'
  BY OnlyCalls, <1>0
<1>2. \A n : n = NoCall /\ Becomes(r, n) /\ UNCHANGED <<source, session, made, told, crowded>> => Kept(n)
  BY DEF NoCall
<1>3. (At(r, "choosing") \/ (At(r, "asking") /\ call[r].kind = "start"))
        => told = NothingTold \/ crowded
  BY CallShape, <1>0 DEF IInv, ToldInv, PastLook, At
<1>4. ASSUME NEW directPlay \in Flag, NEW directStream \in Flag, BeginStart(r, directPlay, directStream)
      PROVE  IInv'
  <2> DEFINE new == [at |-> "looking", kind |-> "start", intent |-> IntentOf(directPlay, directStream)]
  <2>1. new \in Call
    BY DEF Call, Intent, IntentOf
  <2>2. Kept(new) /\ record' \in BOOLEAN
    BY <2>1, <1>0, <1>4 DEF BeginStart
  <2> QED BY <2>2, <1>1
<1>5. ASSUME NEW directPlay \in Flag, NEW directStream \in Flag, NEW path \in {"metadata", "strm", "url"},
             Begin(r, path, directPlay, directStream)
      PROVE  IInv'
  <2> DEFINE new == [at |-> "asking", kind |-> IF path = "metadata" THEN "native" ELSE "plain",
                     intent |-> IF path = "strm" THEN "direct play"
                                ELSE IntentOf(directPlay, directStream)]
  <2>1. new \in Call /\ new.kind # "start"
    BY DEF Call, Intent, IntentOf
  <2>2. Kept(new) /\ record' \in BOOLEAN
    BY <2>1, <1>0, <1>5 DEF Begin
  <2> QED BY <2>2, <1>1
<1>6. ASSUME Look(r) PROVE IInv'
  <2>1. call[r].intent \in Intent /\ call[r] = [at |-> "looking", kind |-> "start", intent |-> call[r].intent]
    BY <1>6, <1>0, CallShape DEF Look
  <2>2. CASE Looks
    <3> DEFINE new == [at |-> "starting", intent |-> call[r].intent, own |-> 0]
    <3>1. new \in Call
      BY <2>1 DEF Call, JourneyAssumption
    <3>2. Kept(new) /\ record' \in BOOLEAN
      BY <3>1, <2>2, <1>0, <1>6 DEF Look
    <3> QED BY <3>2, <1>1
  <2>3. CASE ~Looks
    <3> DEFINE new == [at |-> "choosing", kind |-> "start", intent |-> call[r].intent]
    <3>1. new \in Call /\ Becomes(r, new)
      BY <2>1, <2>3, <1>6 DEF Call, Look, Goto, Becomes
    <3>2. told = NothingTold
      BY <2>3 DEF Looks, IInv, ToldInv
    <3>3. Kept(new) /\ record' \in BOOLEAN
      BY <3>1, <3>2, <1>0, <1>6 DEF Look
    <3> QED BY <3>3, <1>1
  <2> QED BY <2>2, <2>3
<1>7. ASSUME Choose(r) PROVE IInv'
  <2>1. call[r].intent \in Intent /\ call[r] = [at |-> "choosing", kind |-> "start", intent |-> call[r].intent]
    BY <1>7, <1>0, CallShape DEF Choose
  <2> DEFINE new == IF Redirects(r) THEN NoCall
                    ELSE [at |-> "asking", kind |-> "start", intent |-> call[r].intent]
  <2>2. new \in Call \cup {NoCall}
    BY <2>1 DEF Call
  <2>3. Becomes(r, new)
    <3>1. CASE Redirects(r)
      BY <3>1, <1>7, GotoShape DEF Choose
    <3>2. CASE ~Redirects(r)
      BY <3>2, <2>1, <1>7, GotoShape DEF Choose
    <3> QED BY <3>1, <3>2
  <2>4. told = NothingTold \/ crowded
    BY <1>3, <1>7 DEF Choose
  <2>5. new.at # "starting" /\ new.at # "labelling"
    BY DEF NoCall
  <2>6. Kept(new) /\ record' \in BOOLEAN
    BY <2>2, <2>3, <2>4, <2>5, <1>0, <1>7 DEF Choose
  <2> QED BY <2>6, <1>1
<1>8. ASSUME NEW reading \in Readings, NEW profile \in Profiles, PlexDecidesPlainly(r, reading, profile)
      PROVE  IInv'
  <2> DEFINE new == [at |-> "planning", intent |-> call[r].intent, profile |-> profile,
                     direct |-> reading.direct]
  <2>1. reading.direct \in BOOLEAN /\ call[r].intent \in Intent
    BY <1>8, <1>0, CallShape, ReadingShape DEF PlexDecidesPlainly
  <2>2. new \in Call
    BY <2>1 DEF Call
  <2>3. Kept(new) /\ record' \in BOOLEAN
    BY <2>2, <1>0, <1>8 DEF PlexDecidesPlainly
  <2> QED BY <2>3, <1>1
<1>9. ASSUME NEW reading \in Readings, NEW profile \in Profiles, NEW accepted \in BOOLEAN,
             PlexDecides(r, reading, accepted, profile)
      PROVE  IInv'
  <2>1. call[r].intent \in Intent /\ call[r] = [at |-> "asking", kind |-> "native", intent |-> call[r].intent]
    BY <1>9, <1>0, CallShape DEF PlexDecides
  <2> DEFINE new == IF reading.direct
                    THEN [at |-> "deciding", intent |-> call[r].intent, profile |-> profile]
                    ELSE IF accepted THEN NoCall
                    ELSE [at |-> "rejected", kind |-> "native", intent |-> call[r].intent]
  <2>2. new \in Call \cup {NoCall}
    BY <2>1 DEF Call
  <2>3. Becomes(r, new)
    BY <2>1, <1>9 DEF PlexDecides, Deciding, Goto, Becomes
  <2>4. Kept(new) /\ record' \in BOOLEAN
    BY <2>2, <2>3, <1>9 DEF PlexDecides, NoCall
  <2> QED BY <2>4, <1>1
<1>10. ASSUME NEW accepted \in BOOLEAN, PlexAnswers(r, accepted) PROVE IInv'
  <2>1. /\ call[r].intent \in Intent /\ call[r].kind \in {"native", "start"}
        /\ call[r] = [at |-> "asking", kind |-> call[r].kind, intent |-> call[r].intent]
    BY <1>10, <1>0, CallShape DEF PlexAnswers
  <2> DEFINE new == IF accepted THEN NoCall
                    ELSE [at |-> "rejected", kind |-> call[r].kind, intent |-> call[r].intent]
  <2>2. new \in Call \cup {NoCall}
    BY <2>1 DEF Call
  <2>3. Becomes(r, new)
    <3>1. CASE accepted
      BY <3>1, <1>10, GotoShape DEF PlexAnswers
    <3>2. CASE ~accepted
      BY <3>2, <2>1, <1>10, GotoShape DEF PlexAnswers
    <3> QED BY <3>1, <3>2
  <2>4. Kept(new) /\ record' \in BOOLEAN
    BY <2>2, <2>3, <1>0, <1>3, <1>10 DEF PlexAnswers, NoCall
  <2> QED BY <2>4, <1>1
<1>11. ASSUME NEW answers \in BOOLEAN, Rewrite(r, answers) PROVE IInv'
  <2>1. call[r].intent \in Intent /\ call[r].profile \in Profiles
    BY <1>11, <1>0, CallShape DEF Rewrite
  <2> DEFINE new == IF SaysDirect(r, PlanFor(r, call[r].profile, answers))
                    THEN [at |-> "deciding", intent |-> call[r].intent, profile |-> call[r].profile]
                    ELSE NoCall
  <2>2. new \in Call \cup {NoCall}
    BY <2>1 DEF Call
  <2>3. Becomes(r, new)
    BY <1>11 DEF Rewrite, Deciding, Goto
  <2>4. Kept(new) /\ record' \in BOOLEAN
    BY <2>2, <2>3, <1>11 DEF Rewrite, NoCall
  <2> QED BY <2>4, <1>1
<1>12. ASSUME NEW answers \in BOOLEAN, Remember(r, answers) PROVE IInv'
  <2>1. Kept(NoCall)
    BY <1>2, <1>12 DEF Remember, Goto
  <2>2. record' \in BOOLEAN
    BY <1>12 DEF Remember
  <2> QED BY <2>1, <2>2, <1>1
<1>13. ASSUME Reply(r) \/ Label(r) PROVE IInv'
  <2>1. Kept(NoCall) /\ record' \in BOOLEAN
    BY <1>0, <1>2, <1>13 DEF Reply, Label, Goto
  <2> QED BY <2>1, <1>1
<1> QED BY <1>4, <1>5, <1>6, <1>7, <1>8, <1>9, <1>10, <1>11, <1>12, <1>13

-----------------------------------------------------------------------------
(* The session *)

(* The steps that let the session go on: who was told of it still is. *)
LEMMA SessionMoves ==
  ASSUME JourneyAssumption, IInv, Exists, NEW state \in {"ready", "running", "done"},
         session' = [session EXCEPT !.state = state],
         UNCHANGED <<source, made, record, call, told, crowded>>
  PROVE  IInv'
<1> USE DEF IInv
<1>1. /\ session \in Session
      /\ session'.n = session.n /\ session'.format = session.format
      /\ session'.forced = session.forced /\ session'.encodesAudio = session.encodesAudio
      /\ session' \in Session
  BY DEF TypeOK, Session, Exists
<1>2. Exists'
  BY <1>1 DEF Exists, Session, NoSession
<1>3. TypeOK'
  BY <1>1 DEF TypeOK
<1>4. ToldIsKept'
  BY <1>1, <1>2 DEF ToldIsKept, StreamsOf
<1>5. ToldInv'
  BY <1>2 DEF ToldInv, PastLook
<1>6. OwnInv'
  BY <1>1 DEF OwnInv, At
<1>7. GotInv'
  BY <1>1 DEF GotInv, At
<1> QED BY <1>3, <1>4, <1>5, <1>6, <1>7

(* register: the request of the proxy's own decision is alone in what it names. *)
LEMMA RegisterSteps ==
  ASSUME JourneyAssumption, IInv, NEW r \in Req, NEW format \in Format, NEW profile \in Profiles,
         NEW answers \in BOOLEAN, Register(r, format, profile, answers)
  PROVE  IInv'
<1> USE DEF IInv
<1> DEFINE probe == ProbeFor("transcode start", profile, call[r].intent, answers)
           new == NewSession(r, format, profile, probe)
<1>1. /\ At(r, "rejected") /\ MayFallBack(r) /\ made < MaxSessions
      /\ Registered(new) /\ UNCHANGED <<source, record>>
  BY DEF Register
<1>2. /\ call[r] \in [at : {"rejected"}, kind : {"native", "start"}, intent : Intent]
      /\ call \in [Req -> Call \cup {NoCall}] /\ made \in Nat /\ MaxSessions \in Nat
  <2>1. call \in [Req -> Call \cup {NoCall}] /\ made \in Nat /\ MaxSessions \in Nat
    BY DEF TypeOK, JourneyAssumption
  <2> QED BY <2>1, <1>1, CallShape
<1>3. /\ new \in Session /\ new.n = made + 1 /\ new.format = format /\ new.state = "ready"
      /\ (call[r].kind = "native" \/ call[r].intent = "transcode") => new.forced
  <2>1. ForceTranscode(r, profile, probe) \in BOOLEAN
    BY Zenon DEF ForceTranscode, VideoIsForced
  <2>2. AudioIsEncoded(profile, probe) \in BOOLEAN
    BY Zenon DEF AudioIsEncoded
  <2>3. NamesCodec(ForceTranscode(r, profile, probe), probe) \in BOOLEAN
    BY Zenon DEF NamesCodec
  <2>4. (call[r].kind = "native" \/ call[r].intent = "transcode") => ForceTranscode(r, profile, probe)
    BY DEF ForceTranscode, VideoIsForced
  <2>5. made + 1 \in 1..MaxSessions
    <3> HIDE DEF new, probe, IInv
    <3> QED BY <1>1, <1>2
  <2> HIDE DEF probe
  <2> QED BY <2>1, <2>2, <2>3, <2>4, <2>5 DEF NewSession, Session
<1> HIDE DEF new, probe
(* The session of the id from here on, and whose it is. *)
<1>4. /\ session' \in Session /\ Exists' /\ session'.n \in 1..made' /\ made' \in 1..MaxSessions
      /\ session'.format = format /\ session'.forced = new.forced
      /\ \/ session' = session /\ made' = made /\ Exists
         \/ session'.n = made + 1 /\ made' = made + 1
  <2>1. CASE Matches(new)
    <3>1. Exists /\ session.format = new.format /\ session.forced = new.forced
            /\ session' = session /\ made' = made
      BY <2>1, <1>1 DEF Registered, Keeps, Matches
    <3>2. session \in Session /\ session.n <= made
      BY <3>1 DEF TypeOK, Exists
    <3> QED BY <3>1, <3>2, <1>1, <1>2, <1>3 DEF Exists, Session
  <2>2. CASE ~Matches(new)
    <3>1. session' = new /\ made' = made + 1
      BY <2>2, <1>1 DEF Registered, Makes
    <3> QED BY <3>1, <1>1, <1>2, <1>3 DEF Exists, Session, NoSession
  <2> QED BY <2>1, <2>2
<1>7. ASSUME NEW q \in Req, call'[q] = call[q]
      PROVE  /\ At(q, "starting")' =>
                  /\ call'[q].own <= made'
                  /\ call'[q].own = session'.n /\ call'[q].intent = "transcode" => session'.forced
             /\ At(q, "labelling")' =>
                  /\ call'[q].got <= made'
                  /\ call'[q].got = session'.n => call'[q].format = session'.format
  <2>1. CASE At(q, "starting")
    <3>1. call[q].own \in Nat /\ call[q].own <= made
      BY <2>1, <1>2, CallShape DEF OwnInv
    <3>2. ~At(q, "labelling")' /\ At(q, "starting")
      BY <2>1, <1>7 DEF At
    <3> QED BY <3>1, <3>2, <1>7, <1>2, <1>4 DEF OwnInv
  <2>2. CASE At(q, "labelling")
    <3>1. call[q].got \in Nat /\ call[q].got <= made
      BY <2>2, <1>2, CallShape DEF GotInv
    <3>2. ~At(q, "starting")' /\ At(q, "labelling")
      BY <2>2, <1>7 DEF At
    <3> QED BY <3>1, <3>2, <1>7, <1>2, <1>4 DEF GotInv
  <2>3. CASE ~At(q, "starting") /\ ~At(q, "labelling")
    BY <2>3, <1>7 DEF At
  <2> QED BY <2>1, <2>2, <2>3
<1>5. CASE call[r].kind = "native"
  <2>1. /\ told' = [n |-> session'.n, format |-> format, streams |-> Encoded]
        /\ crowded' = \E q \in Req : PastLook(q)
        /\ call' = [call EXCEPT ![r] = NoCall]
    BY <1>5, <1>3 DEF Register, Goto, Becomes, StreamsToldFor, new, probe
  <2>2. /\ call' \in [Req -> Call \cup {NoCall}]
        /\ \A q \in Req : call'[q] = IF q = r THEN NoCall ELSE call[q]
    BY <2>1, <1>2
  <2>3. told' \in [n : 1..MaxSessions, format : Format, streams : Streams]
    BY <2>1, <1>4, <1>2 DEF Encoded, Streams, JourneyAssumption, PolicyAssumption
  <2>4. crowded' \in BOOLEAN
    BY <2>1, Zenon
  <2>5. TypeOK'
    BY <2>2, <2>3, <2>4, <1>1, <1>2, <1>4 DEF TypeOK
  <2>6. ToldIsKept'
    BY <2>1, <1>3, <1>4, <1>5 DEF ToldIsKept, StreamsOf
  <2>7. ToldInv'
    <3>1. HLS /\ Exists'
      BY <1>1, <1>4 DEF MayFallBack
    <3>2. ASSUME ~crowded', NEW q \in Req PROVE ~PastLook(q)'
      BY <3>2, <2>1, <2>2 DEF PastLook, NoCall
    <3> QED BY <3>1, <3>2 DEF ToldInv
  <2>8. \A q \in Req : q = r \/ call'[q] = call[q]
    BY <2>2
  <2>9. ~At(r, "starting")' /\ ~At(r, "labelling")'
    BY <2>2 DEF At, NoCall
  <2>10. OwnInv' /\ GotInv'
    BY <2>8, <2>9, <1>7 DEF OwnInv, GotInv
  <2> QED BY <2>5, <2>6, <2>7, <2>10
<1>6. CASE call[r].kind = "start"
  <2> DEFINE next == [at |-> "starting", intent |-> call[r].intent, own |-> session'.n]
  <2>1. call' = [call EXCEPT ![r] = next] /\ UNCHANGED <<told, crowded>>
    BY <1>6 DEF Register, Becomes
  <2>2. next \in Call
    BY <1>2, <1>4 DEF Call
  <2> HIDE DEF next
  <2>3. /\ call' \in [Req -> Call \cup {NoCall}]
        /\ \A q \in Req : call'[q] = IF q = r THEN next ELSE call[q]
    BY <2>1, <2>2, <1>2
  <2>4. told = NothingTold \/ crowded
    BY <1>1, <1>6 DEF ToldInv, PastLook, At
  <2>5. TypeOK'
    BY <2>1, <2>3, <1>1, <1>2, <1>4 DEF TypeOK
  <2>6. ToldIsKept' /\ ToldInv'
    BY <2>1, <2>4, <1>1, <1>4 DEF ToldIsKept, ToldInv, MayFallBack
  <2>7. \A q \in Req : q = r \/ call'[q] = call[q]
    BY <2>3
  <2>8. /\ ~At(r, "labelling")'
        /\ call'[r].own <= made'
        /\ call'[r].intent = "transcode" => session'.forced
    BY <2>3, <1>2, <1>3, <1>4 DEF At, next
  <2>9. OwnInv' /\ GotInv'
    BY <2>7, <2>8, <1>7 DEF OwnInv, GotInv
  <2> QED BY <2>5, <2>6, <2>9
<1> QED BY <1>2, <1>5, <1>6

LEMMA StartSteps ==
  ASSUME JourneyAssumption, IInv, NEW r \in Req, Start(r) \/ StartFails(r)
  PROVE  IInv'
<1> USE DEF IInv
(* A step that starts the session, then one that the request takes alone. *)
<1>1. /\ call \in [Req -> Call \cup {NoCall}] /\ At(r, "starting") /\ record \in BOOLEAN
      /\ UNCHANGED <<source, made, record, told, crowded>>
  BY DEF TypeOK, Start, StartFails
<1>2. Exists => session \in Session /\ Started \in Session
                /\ Started.n = session.n /\ Started.format = session.format
                /\ Started.forced = session.forced /\ Started.encodesAudio = session.encodesAudio
  BY DEF TypeOK, Exists, Started, Session
<1>3. \/ session' = session
      \/ Exists /\ session' = Started
  BY DEF Start, StartFails
<1>4. /\ session' \in Session \cup {NoSession} /\ Exists' = Exists
      /\ Exists => session'.n = session.n /\ session'.format = session.format
                   /\ session'.forced = session.forced
                   /\ session'.encodesAudio = session.encodesAudio
      /\ session'.n <= made
  BY <1>2, <1>3 DEF TypeOK, Exists, Session, NoSession
<1>5. PICK new \in Call \cup {NoCall} :
        /\ call' = [call EXCEPT ![r] = new]
        /\ new.at \in {"idle", "labelling"}
        /\ new.at = "labelling" => Exists /\ new.got = session.n /\ new.format = session.format
  <2>1. CASE Start(r)
    <3>1. Exists /\ session \in Session /\ session.n \in 1..MaxSessions /\ session.format \in Format
      BY <2>1 DEF Start, TypeOK, Exists, Session
    <3> DEFINE new == [at |-> "labelling", got |-> session.n, format |-> session.format]
    <3>2. new \in Call
      BY <3>1 DEF Call
    <3>3. call' = [call EXCEPT ![r] = new]
      BY <2>1 DEF Start, Becomes
    <3>4. new.at = "labelling" /\ new.got = session.n /\ new.format = session.format
      OBVIOUS
    <3> HIDE DEF new
    <3> QED BY <3>1, <3>2, <3>3, <3>4
  <2>2. CASE StartFails(r)
    <3>1. call' = [call EXCEPT ![r] = NoCall]
      BY <2>2 DEF StartFails, Goto, Becomes
    <3>2. NoCall.at = "idle"
      BY DEF NoCall
    <3> QED BY <3>1, <3>2
  <2> QED BY <2>1, <2>2
<1>6. /\ call' \in [Req -> Call \cup {NoCall}]
      /\ \A q \in Req : call'[q] = IF q = r THEN new ELSE call[q]
  BY <1>1, <1>5
<1>7. TypeOK'
  BY <1>1, <1>4, <1>6 DEF TypeOK
<1>8. ToldIsKept'
  BY <1>1, <1>4 DEF ToldIsKept, StreamsOf
<1>9. ToldInv'
  BY <1>1, <1>4, <1>5, <1>6 DEF ToldInv, PastLook
<1>10. OwnInv'
  BY <1>1, <1>4, <1>5, <1>6 DEF OwnInv, At
<1>11. GotInv'
  <2>1. ASSUME NEW q \in Req, At(q, "labelling")'
        PROVE  /\ call'[q].got <= made'
               /\ Exists' /\ call'[q].got = session'.n => call'[q].format = session'.format
    <3>1. CASE q = r
      BY <3>1, <2>1, <1>1, <1>4, <1>5, <1>6 DEF At, TypeOK
    <3>2. CASE q # r
      BY <3>2, <2>1, <1>1, <1>4, <1>6 DEF At, GotInv
    <3> QED BY <3>1, <3>2
  <2> QED BY <2>1 DEF GotInv
<1> QED BY <1>7, <1>8, <1>9, <1>10, <1>11

LEMMA SessionSteps ==
  ASSUME JourneyAssumption, IInv, Forget \/ SessionEnds \/ Sweep
  PROVE  IInv'
<1>1. CASE Forget
  BY <1>1 DEF Forget, IInv, TypeOK, ToldIsKept, ToldInv, OwnInv, GotInv, StreamsOf,
     Exists, PastLook, At
<1>2. CASE SessionEnds
  BY <1>2, SessionMoves DEF SessionEnds
<1>3. CASE Sweep
  <2>1. ~Exists' /\ told' = NothingTold /\ UNCHANGED <<source, made, record, call>>
          /\ session' = NoSession /\ crowded' = FALSE
    BY <1>3 DEF Sweep, Exists
  <2>2. TypeOK'
    <3>1. made \in 0..MaxSessions /\ session'.n <= made
      BY <2>1 DEF IInv, TypeOK, NoSession, JourneyAssumption
    <3> QED BY <2>1, <3>1 DEF IInv, TypeOK
  <2>3. ToldIsKept' /\ ToldInv'
    BY <2>1 DEF ToldIsKept, ToldInv
  <2>4. OwnInv' /\ GotInv'
    BY <2>1 DEF IInv, OwnInv, GotInv, At
  <2> QED BY <2>2, <2>3, <2>4 DEF IInv
<1> QED BY <1>1, <1>2, <1>3

-----------------------------------------------------------------------------
LEMMA InitInv ==
  ASSUME JourneyAssumption, Init
  PROVE  IInv
<1>1. TypeOK
  <2>1. made \in 0..MaxSessions /\ session.n <= made
    BY DEF Init, NoSession, JourneyAssumption
  <2>2. call \in [Req -> Call \cup {NoCall}]
    BY DEF Init
  <2> QED BY <2>1, <2>2 DEF Init, TypeOK
<1>2. ToldIsKept /\ ToldInv
  BY DEF Init, ToldIsKept, ToldInv
<1>3. OwnInv /\ GotInv
  BY DEF Init, OwnInv, GotInv, At, NoCall
<1> QED BY <1>1, <1>2, <1>3 DEF IInv

LEMMA StepInv ==
  ASSUME JourneyAssumption, IInv, [Next]_vars
  PROVE  IInv'
<1>1. ASSUME NEW r \in Req,
             \E format \in Format, profile \in Profiles, answers \in BOOLEAN :
               Register(r, format, profile, answers)
      PROVE  IInv'
  BY <1>1, RegisterSteps
<1>2. ASSUME NEW r \in Req, Start(r) \/ StartFails(r)
      PROVE  IInv'
  BY <1>2, StartSteps
<1>3. CASE Forget \/ SessionEnds \/ Sweep
  BY <1>3, SessionSteps
<1>4. CASE UNCHANGED vars
  BY <1>4 DEF vars, IInv, TypeOK, ToldIsKept, ToldInv, OwnInv, GotInv, StreamsOf,
     Exists, PastLook, At
<1> QED BY <1>1, <1>2, <1>3, <1>4, RequestSteps DEF Next

(* The inductive invariant: every session and every request is well formed, a session
   that was told can only be replaced by the starts that "crowded" counts, and a start
   that asked for encoded streams and registered its session still finds them. *)
THEOREM Invariance ==
  ASSUME JourneyAssumption
  PROVE  Spec => []IInv
<1>1. Init => IInv
  BY InitInv
<1>2. IInv /\ [Next]_vars => IInv'
  BY StepInv
<1> QED BY <1>1, <1>2, PTL DEF Spec

(* What the proxy's own decision named is what its session id serves. *)
THEOREM ToldKept ==
  ASSUME JourneyAssumption
  PROVE  Spec => []ToldIsKept
<1>1. IInv => ToldIsKept
  BY DEF IInv
<1> QED BY <1>1, Invariance, PTL

(* A start that asked for encoded streams is served such, if by its own session. *)
THEOREM ForcedHonoured ==
  ASSUME JourneyAssumption
  PROVE  Spec => ForcedIntentIsHonoured
<1>1. ASSUME IInv, NEW r \in Req, Start(r), call[r].intent = "transcode"
      PROVE  session.forced \/ call[r].own # session.n
  BY <1>1 DEF Start, IInv, OwnInv
<1>2. IInv /\ [Next]_vars =>
        [\A r \in Req : Start(r) /\ call[r].intent = "transcode" =>
           session.forced \/ call[r].own # session.n]_vars
  BY <1>1
<1> QED BY <1>2, Invariance, PTL DEF Spec, ForcedIntentIsHonoured

(* A new session copies only what its client decodes, as far as both are known, and
   audio only when it is. *)
THEOREM MakerSuited ==
  ASSUME JourneyAssumption
  PROVE  Spec => CopiesSuitTheMaker
<1>1. ASSUME NEW r \in Req, NEW format \in Format, NEW profile \in Profiles, NEW answers \in BOOLEAN,
             made' # made, Register(r, format, profile, answers), ~session'.forced
      PROVE  /\ ~session'.encodesAudio => answers /\ ~AudioNeedsTranscode(profile, source)
             /\ ProbeFor("transcode start", profile, call[r].intent, answers).probed =>
                  ~VideoNeedsTranscode(profile, source)
  <2> DEFINE probe == ProbeFor("transcode start", profile, call[r].intent, answers)
  <2>1. session' = NewSession(r, format, profile, probe)
    BY <1>1 DEF Register, Registered, Makes, Keeps
  <2>2. /\ session'.forced = ForceTranscode(r, profile, probe)
        /\ session'.encodesAudio = AudioIsEncoded(profile, probe)
    BY <2>1 DEF NewSession
  <2> HIDE DEF probe
  <2>3. ~VideoNeedsTranscode(profile, probe)
    BY <2>2, <1>1 DEF ForceTranscode, VideoIsForced
  <2>4. ~session'.encodesAudio => probe.probed /\ ~AudioNeedsTranscode(profile, probe)
    BY <2>2 DEF AudioIsEncoded
  <2>5. probe.probed => answers /\ probe = source
    BY DEF probe, ProbeFor, NoProbe
  <2> QED BY <2>3, <2>4, <2>5 DEF probe
<1>2. [Next]_vars =>
        [\A r \in Req, format \in Format, profile \in Profiles, answers \in BOOLEAN :
           made' # made /\ Register(r, format, profile, answers) /\ ~session'.forced =>
             /\ ~session'.encodesAudio => answers /\ ~AudioNeedsTranscode(profile, source)
             /\ ProbeFor("transcode start", profile, call[r].intent, answers).probed =>
                  ~VideoNeedsTranscode(profile, source)]_vars
  BY <1>1
<1> QED BY <1>2, PTL DEF Spec, CopiesSuitTheMaker

(* Only a decision that suits the client as far as it is known is remembered. *)
THEOREM RecordSuited ==
  ASSUME JourneyAssumption
  PROVE  Spec => RecordSuits
<1>1. ASSUME NEW r \in Req, NEW answers \in BOOLEAN, record', ~record, Remember(r, answers),
             ProbeFor("decision response", call[r].profile, call[r].intent, answers).probed
      PROVE  /\ ~VideoNeedsTranscode(call[r].profile, source)
             /\ \/ ~AudioNeedsTranscode(call[r].profile, source)
                \/ call[r].intent = "direct play" /\ ~HasAudio(call[r].profile)
  <2> DEFINE probe == ProbeFor("decision response", call[r].profile, call[r].intent, answers)
  <2>1. PlanFor(r, call[r].profile, answers) = "redirect"
    BY <1>1 DEF Remember, Remembers
  <2>2. SelectPlaybackPlan("decision response", TRUE, probe, call[r].profile, call[r].intent,
                           FALSE, FALSE) = "redirect"
    BY <2>1 DEF PlanFor
  <2>3. probe = source
    BY <1>1 DEF ProbeFor, NoProbe
  <2> HIDE DEF probe
  <2> QED BY <2>2, <2>3, RedirectSuits DEF Stage
<1>2. [Next]_vars =>
        [\A r \in Req, answers \in BOOLEAN :
           /\ record' /\ ~record /\ Remember(r, answers)
           /\ ProbeFor("decision response", call[r].profile, call[r].intent, answers).probed
           => /\ ~VideoNeedsTranscode(call[r].profile, source)
              /\ \/ ~AudioNeedsTranscode(call[r].profile, source)
                 \/ call[r].intent = "direct play" /\ ~HasAudio(call[r].profile)]_vars
  BY <1>1
<1> QED BY <1>2, PTL DEF Spec, RecordSuits

(* The Content-Type is that of the manifest, unless the session was replaced. *)
THEOREM LabelMatches ==
  ASSUME JourneyAssumption
  PROVE  Spec => ContentTypeMatches
<1>1. ASSUME IInv, NEW r \in Req, Label(r)
      PROVE  ContentType = call[r].format \/ session.n # call[r].got
  <2>1. At(r, "labelling") /\ call[r].got \in 1..MaxSessions
    BY <1>1, CallShape DEF Label, IInv, TypeOK
  <2>2. CASE Exists
    BY <2>1, <2>2, <1>1 DEF IInv, GotInv, ContentType
  <2>3. CASE ~Exists
    BY <2>1, <2>3 DEF Exists, NoSession, JourneyAssumption
  <2> QED BY <2>2, <2>3
<1>2. IInv /\ [Next]_vars =>
        [\A r \in Req : Label(r) =>
           ContentType = call[r].format \/ session.n # call[r].got]_vars
  BY <1>1
<1> QED BY <1>2, Invariance, PTL DEF Spec, ContentTypeMatches

-----------------------------------------------------------------------------
(* Decisions *)

LEMMA StreamItemsAre ==
  ASSUME NEW d, NEW i
  PROVE  i \in StreamItems(d) <=>
           \/ \E p \in d.parts : \E s \in p.streams :
                i = [decision |-> s.decision, selection |-> Inherited(s.selection, p.selection)]
           \/ d.json /\ i \in d.loose
<1>1. i \in UNION {ItemsWithin(p) : p \in d.parts} <=> \E p \in d.parts : i \in ItemsWithin(p)
  BY Zenon
<1>2. \A p : i \in ItemsWithin(p) <=> \E s \in p.streams :
        i = [decision |-> s.decision, selection |-> Inherited(s.selection, p.selection)]
  BY Zenon DEF ItemsWithin
<1>3. i \in {s \in d.loose : d.json} <=> d.json /\ i \in d.loose
  BY Zenon
<1>4. i \in StreamItems(d) <=> \/ i \in UNION {ItemsWithin(p) : p \in d.parts}
                              \/ i \in {s \in d.loose : d.json}
  BY DEF StreamItems
<1> QED BY <1>1, <1>2, <1>3, <1>4, Zenon

LEMMA SelectedCount ==
  ASSUME NEW items, NEW x
  PROVE  x \in Counted(items, TRUE) <=> \E i \in items : i.selection = "selected" /\ x = i.decision
BY Zenon DEF Counted

(* A document that selects a stream to be transcoded is never read as a direct
   decision. *)
LEMMA TranscodesIsNotDirect ==
  ASSUME JourneyAssumption, NEW d \in Documents, TranscodesSelected(d)
  PROVE  ~IsDirect(d)
<1>1. \E i \in StreamItems(d) : i.decision = "transcode" /\ i.selection = "selected"
  <2>1. ASSUME NEW p \in d.parts, NEW s \in p.streams,
               s.decision = "transcode", Live(s, p), "selected" \in {s.selection, p.selection}
        PROVE  \E i \in StreamItems(d) : i.decision = "transcode" /\ i.selection = "selected"
    <3> DEFINE i == [decision |-> s.decision, selection |-> Inherited(s.selection, p.selection)]
    <3>1. i \in StreamItems(d)
      BY StreamItemsAre
    <3>2. s.selection \in Selection /\ p.selection \in Selection
      BY DEF JourneyAssumption, Item
    <3>3. i.selection = "selected" /\ i.decision = "transcode"
      BY <2>1, <3>2 DEF Inherited, Live, Selection
    <3> HIDE DEF i
    <3> QED BY <3>1, <3>3
  <2>2. ASSUME NEW s \in Loose(d), s.decision = "transcode"
        PROVE  \E i \in StreamItems(d) : i.decision = "transcode" /\ i.selection = "selected"
    <3>1. d.json /\ s \in d.loose /\ s.selection = "selected"
      BY Zenon DEF Loose
    <3> QED BY <2>2, <3>1, StreamItemsAre
  <2> QED BY <2>1, <2>2 DEF TranscodesSelected
<1>2. Strongest(Counted(StreamItems(d), TRUE)) = "transcode"
  BY <1>1, SelectedCount DEF Strongest
<1>3. Joined(Strongest(Counted(PartItems(d), TRUE)), "transcode") = "transcode"
  BY DEF Joined
<1> QED BY <1>2, <1>3 DEF IsDirect, DecisionOf

(* A document all of whose selected items play directly is read as one, whatever it
   says of the others. *)
LEMMA PlaysIsDirect ==
  ASSUME JourneyAssumption, NEW d \in Documents, PlaysDirectly(d)
  PROVE  IsDirect(d)
<1> DEFINE parts == Counted(PartItems(d), TRUE)
           streams == Counted(StreamItems(d), TRUE)
<1>1. "direct play" \in parts
  <2>1. PICK p \in d.parts : p.decision = "direct play" /\ p.selection = "selected"
    BY DEF PlaysDirectly
  <2>2. [decision |-> p.decision, selection |-> p.selection] \in PartItems(d)
    BY DEF PartItems
  <2>3. /\ [decision |-> p.decision, selection |-> p.selection].selection = "selected"
        /\ [decision |-> p.decision, selection |-> p.selection].decision = "direct play"
    BY <2>1
  <2> QED BY <2>2, <2>3, SelectedCount
<1>2. \A x \in parts : x = "direct play"
  <2>1. ASSUME NEW i \in PartItems(d), i.selection = "selected" PROVE i.decision = "direct play"
    <3>1. PICK p \in d.parts : i = [decision |-> p.decision, selection |-> p.selection]
      BY Zenon DEF PartItems
    <3>2. i.decision = p.decision /\ p.selection = "selected"
      BY <3>1, <2>1
    <3> QED BY <3>2 DEF PlaysDirectly
  <2> QED BY <2>1, SelectedCount
<1>3. \A x \in streams : x = "direct play"
  <2>1. ASSUME NEW i \in StreamItems(d), i.selection = "selected" PROVE i.decision = "direct play"
    <3>1. ASSUME NEW p \in d.parts, NEW s \in p.streams,
                 i = [decision |-> s.decision, selection |-> Inherited(s.selection, p.selection)]
          PROVE  i.decision = "direct play"
      <4>1. s.selection \in Selection /\ p.selection \in Selection
        BY DEF JourneyAssumption, Item
      <4>2. Inherited(s.selection, p.selection) = "selected"
        BY <2>1, <3>1
      <4>3. Live(s, p) /\ p.selection # "unselected"
        BY <4>1, <4>2 DEF Inherited, Live, Selection
      <4> QED BY <3>1, <4>3 DEF PlaysDirectly
    <3>2. CASE d.json /\ i \in d.loose
      <4>1. i \in Loose(d)
        BY <3>2, <2>1, Zenon DEF Loose
      <4> QED BY <4>1 DEF PlaysDirectly
    <3> QED BY <3>1, <3>2, StreamItemsAre
  <2> QED BY <2>1, SelectedCount
<1> HIDE DEF parts, streams
<1>4. Strongest(parts) = "direct play" /\ Strongest(streams) \in {"direct play", "unknown"}
  BY <1>1, <1>2, <1>3 DEF Strongest
<1>5. Joined(Strongest(parts), Strongest(streams)) = "direct play"
  BY <1>4 DEF Joined
<1> QED BY <1>5 DEF IsDirect, DecisionOf, parts, streams

(* A decision is remembered as direct for what it selects and for nothing else. *)
THEOREM DecisionRead ==
  ASSUME JourneyAssumption
  PROVE  Spec => DecisionIsOfWhatPlays
<1>1. ASSUME IInv, NEW r \in Req, NEW reading \in Readings, NEW profile \in Profiles,
             PlexDecides(r, reading, TRUE, profile)
      PROVE  /\ reading.transcodes => ~At(r, "deciding")'
             /\ reading.plays => At(r, "deciding")'
  <2>1. PICK d \in Documents :
          reading = [direct |-> IsDirect(d), transcodes |-> TranscodesSelected(d),
                     plays |-> PlaysDirectly(d)]
    BY Zenon DEF Readings
  <2>2. /\ reading.direct = IsDirect(d) /\ reading.transcodes = TranscodesSelected(d)
        /\ reading.plays = PlaysDirectly(d)
    BY <2>1, Zenon
  <2>3. /\ reading.transcodes => ~reading.direct
        /\ reading.plays => reading.direct
    BY <2>2, TranscodesIsNotDirect, PlaysIsDirect, Zenon
  <2>4. call \in [Req -> Call \cup {NoCall}]
    BY <1>1 DEF IInv, TypeOK
  <2>5. reading.direct => At(r, "deciding")'
    BY <1>1, <2>4 DEF PlexDecides, Deciding, Becomes, At
  <2>6. ~reading.direct => ~At(r, "deciding")'
    BY <1>1, <2>4, GotoShape DEF PlexDecides, Goto, Becomes, At, NoCall
  <2> QED BY <2>3, <2>5, <2>6
<1>2. IInv /\ [Next]_vars =>
        [\A r \in Req, reading \in Readings, profile \in Profiles :
           PlexDecides(r, reading, TRUE, profile) =>
             /\ reading.transcodes => ~At(r, "deciding")'
             /\ reading.plays => At(r, "deciding")']_vars
  BY <1>1
<1> QED BY <1>2, Invariance, PTL DEF Spec, DecisionIsOfWhatPlays
=============================================================================
