-------------------------- MODULE PlaybackJourney --------------------------
(***************************************************************************)
(* What the clients of one session id are told about one STRM Part, and    *)
(* what they are served: decisions and starts of server.go, with the       *)
(* policy of PlaybackPolicy at every point where the code asks it, and the *)
(* session that register of hls_transcode.go keeps for the id.             *)
(*                                                                         *)
(* PlaybackStart has who may register at all and what becomes of direct    *)
(* decisions that overlap; here it is what each request makes of codecs,   *)
(* intents and formats.  Requests are cut where they wait for Plex, for a  *)
(* probe or for ffmpeg, and between two looks at the session.  What a      *)
(* request says of its client and the format it asks for are chosen by the *)
(* step that first reads them, and kept as long as another step does.      *)
(*                                                                         *)
(* LooksNever, DirectWhateverIsSelected, RemembersAll, ForceAsAsked,       *)
(* MatchesAnyForce and RefreshedInPlace are mistakes the code could have   *)
(* had; the specification uses none.                                       *)
(***************************************************************************)
EXTENDS PlaybackPolicy, Naturals

CONSTANTS
  Req,
  Profiles,     \* those that the clients send
  Sources,      \* those that the Part may be
  Documents,    \* Plex's decisions
  Playable,     \* the source's URL ends in a container the proxy knows
  MaxSessions   \* bound: sessions ever made

ASSUME JourneyAssumption ==
  /\ PolicyAssumption
  /\ Profiles \subseteq Profile /\ Sources \subseteq Source
  /\ \A d \in Documents :
       /\ d.json \in BOOLEAN /\ d.loose \subseteq Item
       /\ \A p \in d.parts :
            p.decision \in Decision /\ p.selection \in Selection /\ p.streams \subseteq Item
       /\ d.media \subseteq Decision /\ d.container \in Decision
  /\ Playable \in BOOLEAN /\ MaxSessions \in Nat

VARIABLES
  source,   \* what the Part is; a probe finds this or nothing
  session,  \* the session the id names
  made,     \* how many there have been
  record,   \* a direct decision is remembered
  call,     \* the requests under way
  told,     \* history: the session, the format and the streams that the proxy's own
            \* decision named last, until the id names no session
  crowded   \* history: a start was already past its look when that was told

vars == <<source, session, made, record, call, told, crowded>>

NoSession == [n |-> 0]
NothingTold == [n |-> 0]
NoCall == [at |-> "idle"]

(* A session that is not forced copies the video, until a copy fails. *)
Session == [n : 1..MaxSessions, format : Format, forced : BOOLEAN, encodesAudio : BOOLEAN,
            namesCodec : BOOLEAN, state : {"ready", "running", "done"}]

(* direct: what Plex's document says; own: the session that register gave the call, 0 if
   it had found one; got and format: the session that start served. *)
Call ==
  [at : {"asking"}, kind : {"native", "plain", "start"}, intent : Intent]
    \cup [at : {"rejected"}, kind : {"native", "start"}, intent : Intent]
    \cup [at : {"looking", "choosing"}, kind : {"start"}, intent : Intent]
    \cup [at : {"planning"}, intent : Intent, profile : Profiles, direct : BOOLEAN]
    \cup [at : {"deciding"}, intent : Intent, profile : Profiles]
    \cup [at : {"starting"}, intent : Intent, own : 0..MaxSessions]
    \cup [at : {"labelling"}, got : 1..MaxSessions, format : Format]

Init ==
  /\ source \in Sources
  /\ session = NoSession /\ made = 0
  /\ record = FALSE
  /\ call = [r \in Req |-> NoCall]
  /\ told = NothingTold /\ crowded = FALSE

At(r, place) == call[r].at = place
Becomes(r, new) == call' = [call EXCEPT ![r] = new]
Goto(r, place) == Becomes(r, IF place = "idle" THEN NoCall ELSE [call[r] EXCEPT !.at = place])
Exists == session # NoSession

-----------------------------------------------------------------------------
(* The client.  A decision about a metadata path is native, any other is plain; with
   the path of a .strm file the proxy asks Plex for direct play, whatever the client
   asked for (prepareSTRMDirectPlaybackQuery). *)
Begin(r, path, directPlay, directStream) ==
  /\ At(r, "idle")
  /\ Becomes(r, [at |-> "asking", kind |-> IF path = "metadata" THEN "native" ELSE "plain",
                 intent |-> IF path = "strm" THEN "direct play"
                            ELSE IntentOf(directPlay, directStream)])
  /\ UNCHANGED <<source, session, made, record, told, crowded>>

BeginStart(r, directPlay, directStream) ==
  /\ At(r, "idle")
  /\ Becomes(r, [at |-> "looking", kind |-> "start", intent |-> IntentOf(directPlay, directStream)])
  /\ UNCHANGED <<source, session, made, record, told, crowded>>

-----------------------------------------------------------------------------
(* A start, before it asks Plex *)

LooksNever == FALSE
(* sessionFormat: there is a session for the id. *)
Looks == HLS /\ Exists

Look(r) ==
  /\ At(r, "looking")
  /\ IF Looks THEN Becomes(r, [at |-> "starting", intent |-> call[r].intent, own |-> 0])
     ELSE Goto(r, "choosing")
  /\ UNCHANGED <<source, session, made, record, told, crowded>>

(* A start with both flags at zero does not look for a direct decision. *)
Redirects(r) == call[r].intent # "transcode" /\ record

Choose(r) ==
  /\ At(r, "choosing")
  /\ Goto(r, IF Redirects(r) THEN "idle" ELSE "asking")
  /\ UNCHANGED <<source, session, made, record, told, crowded>>

(* Records expire, and are evicted. *)
Forget ==
  /\ record
  /\ record' = FALSE
  /\ UNCHANGED <<source, session, made, call, told, crowded>>

-----------------------------------------------------------------------------
(* Plex decides *)

(* The probe a stage gets, if it asks for one and ffprobe answers. *)
ProbeFor(stage, profile, intent, answers) ==
  IF Probes(stage, profile, intent, FALSE) /\ answers THEN source ELSE NoProbe
PlanFor(r, profile, answers) ==
  SelectPlaybackPlan("decision response", TRUE,
                     ProbeFor("decision response", profile, call[r].intent, answers),
                     profile, call[r].intent, FALSE, FALSE)

DirectWhateverIsSelected(document) ==
  "direct play" \in {i.decision : i \in PartItems(document) \cup StreamItems(document)}
(* decisionBodyIsDirect *)
IsDirect(document) == DecisionOf(document) = "direct play"

(* Of what the documents hold: a selected stream is transcoded; all that is selected,
   and some Part is, plays directly. *)
Live(item, part) == "unselected" \notin {item.selection, part.selection}
Loose(document) == {s \in document.loose : document.json /\ s.selection = "selected"}
TranscodesSelected(document) ==
  \/ \E p \in document.parts : \E s \in p.streams :
       s.decision = "transcode" /\ Live(s, p) /\ "selected" \in {s.selection, p.selection}
  \/ \E s \in Loose(document) : s.decision = "transcode"
PlaysDirectly(document) ==
  /\ \E p \in document.parts : p.decision = "direct play" /\ p.selection = "selected"
  /\ \A p \in document.parts : p.selection # "unselected" =>
       p.decision = "direct play"
         /\ \A s \in p.streams : Live(s, p) => s.decision = "direct play"
  /\ \A s \in Loose(document) : s.decision = "direct play"

(* What the code reads in each document, beside what is in it. *)
Readings ==
  {[direct |-> IsDirect(d), transcodes |-> TranscodesSelected(d), plays |-> PlaysDirectly(d)] :
     d \in Documents}

Deciding(r, profile) ==
  Becomes(r, [at |-> "deciding", intent |-> call[r].intent, profile |-> profile])

(* What is remembered goes with every decision; a direct one comes with 200. *)
PlexDecides(r, reading, accepted, profile) ==
  /\ At(r, "asking") /\ call[r].kind = "native" /\ (reading.direct => accepted)
  /\ record' = FALSE
  /\ IF reading.direct THEN Deciding(r, profile)
     ELSE Goto(r, IF accepted THEN "idle" ELSE "rejected")
  /\ UNCHANGED <<source, session, made, told, crowded>>

(* Nor is anything rejected but what a native decision or a start asked for. *)
PlexAnswers(r, accepted) ==
  /\ At(r, "asking") /\ call[r].kind # "plain"
  /\ Goto(r, IF accepted THEN "idle" ELSE "rejected")
  /\ UNCHANGED <<source, session, made, record, told, crowded>>

PlexDecidesPlainly(r, reading, profile) ==
  /\ At(r, "asking") /\ call[r].kind = "plain"
  /\ Becomes(r, [at |-> "planning", intent |-> call[r].intent, profile |-> profile,
                 direct |-> reading.direct])
  /\ UNCHANGED <<source, session, made, record, told, crowded>>

(* modifyPlexResponse: by these plans Plex's decision stands, by any other it is made
   to say direct play. *)
Stands(plan) == plan \in {"proxy audio", "plex"}
SaysDirect(r, plan) == call[r].direct \/ (Playable /\ ~Stands(plan))

Rewrite(r, answers) ==
  /\ At(r, "planning")
  /\ record' = FALSE
  /\ IF SaysDirect(r, PlanFor(r, call[r].profile, answers)) THEN Deciding(r, call[r].profile)
     ELSE Goto(r, "idle")
  /\ UNCHANGED <<source, session, made, told, crowded>>

RemembersAll(plan) == TRUE
Remembers(plan) == plan = "redirect"

(* rememberDirectDecision plans again; ffprobe may answer differently. *)
Remember(r, answers) ==
  /\ At(r, "deciding")
  /\ record' = (record \/ Remembers(PlanFor(r, call[r].profile, answers)))
  /\ Goto(r, "idle")
  /\ UNCHANGED <<source, session, made, told, crowded>>

-----------------------------------------------------------------------------
(* The fallback *)

(* The client leaves, or there is nothing to fall back to: the rejection is the
   answer. *)
Reply(r) ==
  /\ At(r, "rejected")
  /\ Goto(r, "idle")
  /\ UNCHANGED <<source, session, made, record, told, crowded>>

MayFallBack(r) == HLS /\ (call[r].kind = "native" => call[r].intent = "transcode")

ForceAsAsked(r, profile, probe) == call[r].kind = "native" \/ call[r].intent = "transcode"
(* A decision forces, a start does when it asks for it, and so does a source whose
   video the client does not decode. *)
ForceTranscode(r, profile, probe) ==
  VideoIsForced(call[r].kind = "native" \/ call[r].intent = "transcode", profile, probe)

NewSession(r, format, profile, probe) ==
  [n |-> made + 1, format |-> format, forced |-> ForceTranscode(r, profile, probe),
   encodesAudio |-> AudioIsEncoded(profile, probe),
   namesCodec |-> NamesCodec(ForceTranscode(r, profile, probe), probe), state |-> "ready"]

MatchesAnyForce(new) ==
  Exists /\ session.state = "running" /\ session.format = new.format
(* register keeps a session that runs and is what it was asked for, as far as it
   compares. *)
Matches(new) ==
  /\ Exists /\ session.state = "running"
  /\ session.forced = new.forced /\ session.namesCodec = new.namesCodec
  /\ session.format = new.format

Makes(new) == made' = made + 1 /\ session' = new
Keeps == UNCHANGED <<session, made>>

RefreshedInPlace(new) ==
  IF Exists /\ session.state = "running"
  THEN session' = [session EXCEPT !.format = new.format] /\ UNCHANGED made ELSE Makes(new)
Registered(new) == IF Matches(new) THEN Keeps ELSE Makes(new)

(* The starts that may still replace the session that is told. *)
PastLook(q) == call[q].at \in {"choosing", "asking", "rejected"} /\ call[q].kind = "start"

(* The path of a decision has no suffix. *)
FormatsFor(kind) ==
  {FormatFor(protocol, suffix) :
     protocol \in Protocol, suffix \in IF kind = "native" THEN {"other"} ELSE Suffix}

Register(r, format, profile, answers) ==
  LET probe == ProbeFor("transcode start", profile, call[r].intent, answers)
      new == NewSession(r, format, profile, probe)
  IN
  /\ At(r, "rejected") /\ MayFallBack(r) /\ made < MaxSessions
  /\ format \in FormatsFor(call[r].kind)
  /\ Registered(new)
  /\ IF call[r].kind = "native"
     THEN /\ told' = [n |-> session'.n, format |-> new.format,
                      streams |-> StreamsToldFor(profile, probe, TRUE)]
          /\ crowded' = \E q \in Req : PastLook(q)
          /\ Goto(r, "idle")
     ELSE /\ Becomes(r, [at |-> "starting", intent |-> call[r].intent, own |-> session'.n])
          /\ UNCHANGED <<told, crowded>>
  /\ UNCHANGED <<source, record>>

-----------------------------------------------------------------------------
(* start: the session that the id names by now, which the first one sets off *)

Started ==
  IF session.state = "ready" THEN [session EXCEPT !.state = "running"] ELSE session

Start(r) ==
  /\ At(r, "starting") /\ Exists
  /\ session' = Started
  /\ Becomes(r, [at |-> "labelling", got |-> session.n, format |-> session.format])
  /\ UNCHANGED <<source, made, record, told, crowded>>

(* There is none, its playlist does not come, or the client has had enough. *)
StartFails(r) ==
  /\ At(r, "starting")
  /\ session' \in {session} \cup (IF Exists THEN {Started} ELSE {})
  /\ Goto(r, "idle")
  /\ UNCHANGED <<source, made, record, told, crowded>>

(* handleProxyTranscodeStart looks the format up again for the Content-Type. *)
ContentType == IF Exists THEN session.format ELSE "hls"

Label(r) ==
  /\ At(r, "labelling")
  /\ Goto(r, "idle")
  /\ UNCHANGED <<source, session, made, record, told, crowded>>

(* Its last process ends. *)
SessionEnds ==
  /\ Exists /\ session.state = "running"
  /\ session' = [session EXCEPT !.state = "done"]
  /\ UNCHANGED <<source, made, record, call, told, crowded>>

Sweep ==
  /\ Exists /\ session.state # "running"
  /\ session' = NoSession /\ told' = NothingTold /\ crowded' = FALSE
  /\ UNCHANGED <<source, made, record, call>>

-----------------------------------------------------------------------------
Next ==
  \/ \E r \in Req :
       \/ \E directPlay, directStream \in Flag :
            BeginStart(r, directPlay, directStream)
              \/ \E path \in {"metadata", "strm", "url"} : Begin(r, path, directPlay, directStream)
       \/ Look(r) \/ Choose(r)
       \/ \E reading \in Readings, profile \in Profiles :
            PlexDecidesPlainly(r, reading, profile)
              \/ \E accepted \in BOOLEAN : PlexDecides(r, reading, accepted, profile)
       \/ \E accepted \in BOOLEAN : PlexAnswers(r, accepted)
       \/ \E answers \in BOOLEAN : Rewrite(r, answers) \/ Remember(r, answers)
       \/ Reply(r)
       \/ \E format \in Format, profile \in Profiles, answers \in BOOLEAN :
            Register(r, format, profile, answers)
       \/ Start(r) \/ StartFails(r) \/ Label(r)
  \/ Forget \/ SessionEnds \/ Sweep

Spec == Init /\ [][Next]_vars

-----------------------------------------------------------------------------
TypeOK ==
  /\ source \in Sources
  /\ made \in 0..MaxSessions
  /\ session \in Session \cup {NoSession} /\ session.n <= made
  /\ record \in BOOLEAN
  /\ call \in [Req -> Call \cup {NoCall}]
  /\ told \in [n : 1..MaxSessions, format : Format, streams : Streams] \cup {NothingTold}
  /\ crowded \in BOOLEAN

(* The proxy's own decision names a session, a format and two streams.  As long as the id
   names a session it names that one, and it serves what was told; only a start that was
   past its look already can have put another in its place. *)
ToldIsKept ==
  told # NothingTold /\ ~crowded =>
    /\ Exists /\ session.n = told.n /\ session.format = told.format
    /\ told.streams = StreamsOf(source, ~session.forced, session.encodesAudio)
    /\ session.forced

(* register's comment: forceTranscode is for clients "that already stated they cannot
   decode the source".  A start with both flags at zero is served encoded streams,
   unless there was a session when it came, or another has replaced its own. *)
ForcedIntentIsHonoured ==
  [][\A r \in Req : Start(r) /\ call[r].intent = "transcode" =>
       session.forced \/ call[r].own # session.n]_vars

(* registerProxyTranscode's comment: "unknown audio must not be advertised or muxed as a
   direct copy".  The streams a new session is to copy are such as the client decodes
   that it is made for: audio always, video as far as it could be probed. *)
CopiesSuitTheMaker ==
  [][\A r \in Req, format \in Format, profile \in Profiles, answers \in BOOLEAN :
       made' # made /\ Register(r, format, profile, answers) /\ ~session'.forced =>
         /\ ~session'.encodesAudio => answers /\ ~AudioNeedsTranscode(profile, source)
         /\ ProbeFor("transcode start", profile, call[r].intent, answers).probed =>
              ~VideoNeedsTranscode(profile, source)]_vars

(* A direct decision is remembered for starts to come only if the client decodes the
   source, as far as both are known.  A client that insists on direct play without
   naming audio codecs is taken at its word. *)
RecordSuits ==
  [][\A r \in Req, answers \in BOOLEAN :
       /\ record' /\ ~record /\ Remember(r, answers)
       /\ ProbeFor("decision response", call[r].profile, call[r].intent, answers).probed
       => /\ ~VideoNeedsTranscode(call[r].profile, source)
          /\ \/ ~AudioNeedsTranscode(call[r].profile, source)
             \/ call[r].intent = "direct play" /\ ~HasAudio(call[r].profile)]_vars

(* choosePlexDecision's comment: a selected stream's transcode "must prevent a stale
   direct redirect from being remembered".  And what is not selected prevents none. *)
DecisionIsOfWhatPlays ==
  [][\A r \in Req, reading \in Readings, profile \in Profiles :
       PlexDecides(r, reading, TRUE, profile) =>
         /\ reading.transcodes => ~At(r, "deciding")'
         /\ reading.plays => At(r, "deciding")']_vars

(* The Content-Type of a manifest is that of its format, unless its session has been
   replaced or collected since. *)
ContentTypeMatches ==
  [][\A r \in Req : Label(r) =>
       ContentType = call[r].format \/ session.n # call[r].got]_vars

-----------------------------------------------------------------------------
(* The inductive invariant: who may still replace a session that was told, and what a
   start may count on that registered its own. *)
ToldInv ==
  told # NothingTold =>
    /\ HLS /\ Exists
    /\ ~crowded => \A r \in Req : ~PastLook(r)

OwnInv ==
  \A r \in Req : At(r, "starting") =>
    /\ call[r].own <= made
    /\ Exists /\ call[r].own = session.n /\ call[r].intent = "transcode" => session.forced

GotInv ==
  \A r \in Req : At(r, "labelling") =>
    /\ call[r].got <= made
    /\ Exists /\ call[r].got = session.n => call[r].format = session.format

IInv == TypeOK /\ ToldIsKept /\ ToldInv /\ OwnInv /\ GotInv
=============================================================================
