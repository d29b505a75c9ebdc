--------------------------- MODULE PlaybackStart ---------------------------
(***************************************************************************)
(* Who answers a client that wants to play an STRM Part: handleDecision    *)
(* and handleTranscodeStart of server.go, with Plex behind them, over the  *)
(* memory of direct decisions (DirectDecisions, the instance D) and the    *)
(* transcoder's registry of proxy sessions.                                *)
(*                                                                         *)
(* A request is cut where it waits for Plex, for a probe or for ffmpeg,    *)
(* and between two locks.  A client may leave at any time.                 *)
(*                                                                         *)
(* PcAfterAny, NamesPartAny and LookedUpOnce are mistakes the code could   *)
(* have had; the specification uses none.                                  *)
(***************************************************************************)
EXTENDS Integers, FiniteSets

CONSTANTS
  Req, Session, Limit, TTL, MaxTime, MaxResponses,  \* as in DirectDecisions
  Part,  \* Part ids
  STRM,  \* those whose mapping is a resolved STRM one
  HLS    \* whether STRM_HLS_TRANSCODE is on: s.hls is not nil

VARIABLES
  directDecisions, now, remembering, response, count, latest, stored, crowded,
             \* as in DirectDecisions, remembering for its pc
  about,     \* the Part of each numbered response, which its record keeps
  hls,       \* the Part of the proxy session registered for each session id
  call,      \* the requests under way: what each asks for, where it is (at) and
             \* whether its client has left (gone)
  last,      \* history: what Plex last decided for each session
  rejected   \* history: the Parts of each session that Plex rejected

decisionVars == <<directDecisions, now, remembering, response, count, latest, stored, crowded>>
vars == <<decisionVars, about, hls, call, last, rejected>>

D == INSTANCE DirectDecisions WITH pc <- remembering

NoPart == "none"

ASSUME PlaybackAssumption ==
  /\ STRM \subseteq Part /\ NoPart \notin Part /\ HLS \in BOOLEAN
  /\ D!DecisionAssumption

Places == {"looking", "choosing", "asking", "deciding", "rejected", "registering", "serving"}
Call == [at : Places, kind : {"decision", "start"}, session : Session, part : Part,
         transcode : BOOLEAN, gone : BOOLEAN]
NoCall == [at |-> "idle"]

Init ==
  /\ D!Init
  /\ about = [n \in 1..MaxResponses |-> NoPart]
  /\ hls = [s \in Session |-> NoPart]
  /\ call = [r \in Req |-> NoCall]
  /\ last = [s \in Session |-> "none"]
  /\ rejected = {}

At(r, place) == call[r].at = place
Goto(r, place) ==
  call' = [call EXCEPT ![r] = IF place = "idle" THEN NoCall ELSE [@ EXCEPT !.at = place]]

-----------------------------------------------------------------------------
(* The client *)

(* A request whose Part is looked up.  Starts of other Parts pass to Plex and
   touch nothing here; decisions of other Parts do supersede. *)
Begin(r, kind, s, p, transcode) ==
  /\ At(r, "idle")
  /\ kind = "start" => p \in STRM
  /\ call' = [call EXCEPT ![r] =
       [at |-> IF kind = "decision" THEN "asking" ELSE "looking", kind |-> kind,
        session |-> s, part |-> p, transcode |-> transcode, gone |-> FALSE]]
  /\ UNCHANGED <<decisionVars, about, hls, last, rejected>>

(* It matters from when Plex is asked to when its answer is dealt with: nothing looks
   before, and what follows runs with context.WithoutCancel or is over in one step. *)
Leave(r) ==
  /\ call[r].at \in {"asking", "rejected"} /\ ~call[r].gone
  /\ call' = [call EXCEPT ![r].gone = TRUE]
  /\ UNCHANGED <<decisionVars, about, hls, last, rejected>>

-----------------------------------------------------------------------------
(* handleTranscodeStart, before it asks Plex *)

(* An existing proxy session takes every start of its session id. *)
LookForSession(r) ==
  /\ At(r, "looking")
  /\ Goto(r, IF HLS /\ hls[call[r].session] # NoPart THEN "serving" ELSE "choosing")
  /\ UNCHANGED <<decisionVars, about, hls, last, rejected>>

NamesPartAny(n, p) == TRUE
(* directDecisionRecordForStart: the record has to be of the start's Part. *)
NamesPart(n, p) == about[n] = p

(* A start with directPlay=0 and directStream=0 does not look at all. *)
Live(r) ==
  LET record == directDecisions[call[r].session] IN
  ~call[r].transcode /\ record # D!NoRecord /\ ~D!Expired(record)
Redirectable(r) == Live(r) /\ NamesPart(directDecisions[call[r].session].from, call[r].part)

Redirect(r) ==
  /\ At(r, "choosing") /\ Redirectable(r)
  /\ Goto(r, "idle")
  /\ UNCHANGED <<decisionVars, about, hls, last, rejected>>

LookedUpOnce(r) ==
  /\ directDecisions' = [directDecisions EXCEPT ![call[r].session] = D!NoRecord]
  /\ UNCHANGED <<now, remembering, response, count, latest, stored, crowded>>
(* A lookup drops an expired record and leaves any other. *)
LookedUp(r) ==
  LET s == call[r].session IN
  IF ~call[r].transcode /\ directDecisions[s] # D!NoRecord /\ D!Expired(directDecisions[s])
  THEN D!LookupExpired(s) ELSE UNCHANGED decisionVars

GoNative(r) ==
  /\ At(r, "choosing") /\ ~Redirectable(r)
  /\ LookedUp(r)
  /\ Goto(r, "asking")
  /\ UNCHANGED <<about, hls, last, rejected>>

(* A start that brings the media URL back instead of a metadata path is passed to
   Plex whatever it finds; its lookup may find an expired record. *)
Rebind(s) ==
  /\ HLS /\ D!LookupExpired(s)
  /\ UNCHANGED <<about, hls, call, last, rejected>>

-----------------------------------------------------------------------------
(* Plex answers *)

PcAfterAny(accepted) == "rejected"
(* shouldUseSTRMProxyFallback looks at the status. *)
PcAfter(accepted) == IF accepted THEN "idle" ELSE "rejected"

Rejects(r, accepted) ==
  rejected' = IF accepted THEN rejected
              ELSE rejected \cup {<<call[r].session, call[r].part>>}

(* A structured decision, of whatever status, passes through modifyPlexResponse
   to rememberDirectDecision; a direct one may have to wait for a probe. *)
PlexDecides(r, accepted, direct) ==
  LET s == call[r].session IN
  /\ At(r, "asking") /\ call[r].kind = "decision" /\ (direct => accepted)
  /\ D!Supersede(r, s, direct)
  /\ about' = [about EXCEPT ![count + 1] = call[r].part]
  /\ last' = [last EXCEPT ![s] = IF direct THEN "direct" ELSE "other"]
  /\ Rejects(r, accepted)
  /\ Goto(r, IF direct THEN "deciding" ELSE PcAfter(accepted))
  /\ UNCHANGED hls

(* Anything else does not: another content type, a body past the limit, one that
   cannot be read or decoded (a 502 to the client), or no answer from Plex. *)
PlexDecidesOpaquely(r, accepted) ==
  /\ At(r, "asking") /\ call[r].kind = "decision"
  /\ last' = [last EXCEPT ![call[r].session] = "opaque"]
  /\ Rejects(r, accepted)
  /\ Goto(r, PcAfter(accepted))
  /\ UNCHANGED <<decisionVars, about, hls>>

PlexStarts(r, accepted) ==
  /\ At(r, "asking") /\ call[r].kind = "start"
  /\ Rejects(r, accepted)
  /\ Goto(r, PcAfter(accepted))
  /\ UNCHANGED <<decisionVars, about, hls, last>>

(* The client's leaving cancels the request to Plex: a 502, but no rejection. *)
Cancelled(r) ==
  /\ At(r, "asking") /\ call[r].gone
  /\ Goto(r, "idle")
  /\ UNCHANGED <<decisionVars, about, hls, last, rejected>>

Remember(r) ==
  /\ At(r, "deciding") /\ call[r].part \in STRM
  /\ D!Remember(r)
  /\ Goto(r, "idle")
  /\ UNCHANGED <<about, hls, last, rejected>>

Decline(r) ==
  /\ At(r, "deciding")
  /\ D!Decline(r)
  /\ Goto(r, "idle")
  /\ UNCHANGED <<about, hls, last, rejected>>

-----------------------------------------------------------------------------
(* The fallback *)

MayFallBack(r) ==
  /\ HLS /\ ~call[r].gone /\ call[r].part \in STRM
  /\ call[r].kind = "decision" => call[r].transcode

FallBack(r) ==
  /\ At(r, "rejected") /\ MayFallBack(r)
  /\ Goto(r, "registering")
  /\ UNCHANGED <<decisionVars, about, hls, last, rejected>>

(* The rejection is the answer: no fallback, or none that works. *)
Reply(r) ==
  /\ At(r, "registering") \/ (At(r, "rejected") /\ ~MayFallBack(r))
  /\ Goto(r, "idle")
  /\ UNCHANGED <<decisionVars, about, hls, last, rejected>>

(* registerProxyTranscode: the session of this id is refreshed or replaced. *)
Register(r) ==
  /\ At(r, "registering")
  /\ hls' = [hls EXCEPT ![call[r].session] = call[r].part]
  /\ Goto(r, IF call[r].kind = "decision" THEN "idle" ELSE "serving")
  /\ UNCHANGED <<decisionVars, about, last, rejected>>

(* handleProxyTranscodeStart: the session the id names by now is started, if any. *)
Serve(r) ==
  /\ At(r, "serving")
  /\ Goto(r, "idle")
  /\ UNCHANGED <<decisionVars, about, hls, last, rejected>>

(* The idle sweep. *)
SessionEnds(s) ==
  /\ hls[s] # NoPart
  /\ hls' = [hls EXCEPT ![s] = NoPart]
  /\ UNCHANGED <<decisionVars, about, call, last, rejected>>

Tick == D!Tick /\ UNCHANGED <<about, hls, call, last, rejected>>

-----------------------------------------------------------------------------
Next ==
  \/ \E r \in Req :
       \/ \E kind \in {"decision", "start"}, s \in Session, p \in Part, transcode \in BOOLEAN :
            Begin(r, kind, s, p, transcode)
       \/ Leave(r)
       \/ LookForSession(r) \/ Redirect(r) \/ GoNative(r)
       \/ \E accepted, direct \in BOOLEAN : PlexDecides(r, accepted, direct)
       \/ \E accepted \in BOOLEAN : PlexDecidesOpaquely(r, accepted) \/ PlexStarts(r, accepted)
       \/ Cancelled(r) \/ Remember(r) \/ Decline(r)
       \/ FallBack(r) \/ Reply(r) \/ Register(r) \/ Serve(r)
  \/ \E s \in Session : Rebind(s) \/ SessionEnds(s)
  \/ Tick

Spec == Init /\ [][Next]_vars

-----------------------------------------------------------------------------
TypeOK ==
  /\ about \in [1..MaxResponses -> Part \cup {NoPart}]
  /\ hls \in [Session -> STRM \cup {NoPart}]
  /\ call \in [Req -> Call \cup {NoCall}]
  /\ last \in [Session -> {"none", "direct", "other", "opaque"}]
  /\ rejected \subseteq Session \X Part

(* Whatever the handlers do to the memory of decisions, DirectDecisions allows. *)
Decisions == D!Spec

(* README: "Only when Plex rejects the native STRM decision or start request with
   an HTTP error ... may the proxy use FFmpeg".  Plex has rejected the Part of
   every proxy session there is, in that session: a client that left is no
   rejection, and what another request registered meanwhile does not count. *)
FallbackIsEarned ==
  \A s \in Session : hls[s] # NoPart => HLS /\ <<s, hls[s]>> \in rejected

(* A start is redirected past Plex only when Plex's last word on its session was
   direct play of the very Part.  The two ways round that the code leaves are
   responses that overlap and answers that never reached rememberDirectDecision. *)
RedirectFollowsPlex ==
  [][\A r \in Req : Redirect(r) =>
       LET s == call[r].session IN
       \/ s \in crowded \/ last[s] = "opaque"
       \/ last[s] = "direct" /\ about[latest[s]] = call[r].part]_vars

(* handleTranscodeStart's comment: "New STRM playback never creates one here: the
   Plex server must receive the original start request".  What ffmpeg produces is
   for a Part that Plex was asked for in this session and rejected. *)
PlexIsAskedFirst ==
  [][\A r \in Req : Serve(r) /\ hls[call[r].session] # NoPart =>
       <<call[r].session, call[r].part>> \in rejected]_vars

-----------------------------------------------------------------------------
(* The inductive invariant behind FallbackIsEarned: requests that may register
   hold a rejection. *)
EarnedInv ==
  \A r \in Req : At(r, "rejected") \/ At(r, "registering") =>
    <<call[r].session, call[r].part>> \in rejected

RegisteringInv ==
  \A r \in Req :
    /\ At(r, "registering") => HLS /\ call[r].part \in STRM
    /\ ~At(r, "idle") /\ call[r].kind = "start" => call[r].part \in STRM

(* Unless Plex's last decision for a session was a direct one, neither a record nor
   a response about to store one is the last to have cleared the session. *)
LastInv ==
  \A s \in Session : last[s] \in {"none", "other"} =>
    /\ directDecisions[s] # D!NoRecord => directDecisions[s].from # latest[s]
    /\ \A r \in Req : remembering[r] = "deciding" /\ response[r].session = s =>
         response[r].from # latest[s]

(* A request stores for the session it is for. *)
DecidingInv ==
  \A r \in Req :
    /\ At(r, "deciding") <=> remembering[r] = "deciding"
    /\ At(r, "deciding") => response[r].session = call[r].session

IInv == TypeOK /\ FallbackIsEarned /\ EarnedInv /\ RegisteringInv /\ LastInv /\ DecidingInv
=============================================================================
