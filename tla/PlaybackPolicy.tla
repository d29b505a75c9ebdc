--------------------------- MODULE PlaybackPolicy ---------------------------
(***************************************************************************)
(* What the proxy makes of what it is told: the codecs a client names      *)
(* (client_profile.go), the plan for a Part and what Plex's decision says  *)
(* (playback_policy.go), and the streams and the format a session of the   *)
(* proxy is to have (transcode_plan.go, transcode_format.go,               *)
(* buildFFmpegArgs).                                                       *)
(*                                                                         *)
(* The code keeps these functions free of state; they are operators here.  *)
(* Plans are named for what they mean; the reasons are for the log.        *)
(***************************************************************************)
CONSTANTS
  VideoName, AudioName,   \* the spellings of codec names
  Normal,                 \* normalizePlaybackCodec on them
  NotPortable,            \* audio that Plex clients do not decode consistently
  H264, AAC, HEVC, NoCodec,
  HLS                     \* whether STRM_HLS_TRANSCODE is on: s.hls is not nil

ASSUME PolicyAssumption ==
  /\ NoCodec \notin VideoName \cup AudioName
  /\ NotPortable \subseteq AudioName /\ AAC \in AudioName \ NotPortable
  /\ {H264, HEVC} \subseteq VideoName /\ H264 # HEVC
  /\ DOMAIN Normal = VideoName \cup AudioName
  /\ HLS \in BOOLEAN

-----------------------------------------------------------------------------
(* The client: what it wants and what it says it decodes *)

Flag == {"0", "1", "absent"}
Intent == {"direct play", "transcode", "open"}
(* playbackIntent and isSTRMTranscodeIntent: both flags at zero ask the server for a
   transcode. *)
IntentOf(directPlay, directStream) ==
  IF directPlay = "1" THEN "direct play"
  ELSE IF directPlay = "0" /\ directStream = "0" THEN "transcode" ELSE "open"

NoProfile == [given |-> FALSE]
(* The codecs of all the targets in X-Plex-Client-Profile-Extra, under one spelling.
   A target may also name protocols and containers, which decide nothing. *)
ParseProfile(fields) ==
  IF fields = {} THEN NoProfile
  ELSE [given |-> TRUE,
        video |-> {Normal[f.name] : f \in {g \in fields : g.kind = "videoCodec"}},
        audio |-> {Normal[f.name] : f \in {g \in fields : g.kind = "audioCodec"}}]

Profile == {NoProfile}
  \cup [given : {TRUE}, video : SUBSET {Normal[c] : c \in VideoName},
                        audio : SUBSET {Normal[c] : c \in AudioName}]

HasVideo(profile) == profile.given /\ profile.video # {}
HasAudio(profile) == profile.given /\ profile.audio # {}

-----------------------------------------------------------------------------
(* The source, as ffprobe describes it *)

NoProbe == [probed |-> FALSE]
Source == [probed : {TRUE}, video : VideoName \cup {NoCodec}, audio : AudioName \cup {NoCodec}]

(* Without a list of video codecs the client is taken to decode any ... *)
VideoNeedsTranscode(profile, probe) ==
  /\ probe.probed /\ probe.video # NoCodec
  /\ HasVideo(profile) /\ Normal[probe.video] \notin profile.video

(* ... without a list of audio codecs, those that are portable. *)
AudioNeedsTranscode(profile, probe) ==
  /\ probe.probed /\ probe.audio # NoCodec
  /\ IF HasAudio(profile) THEN Normal[probe.audio] \notin profile.audio
                          ELSE probe.audio \in NotPortable

-----------------------------------------------------------------------------
(* The plan *)

Stage == {"metadata", "decision request", "decision response", "transcode start"}
Plan == {"redirect", "plex", "proxy audio", "proxy video"}

(* Whether selectPlaybackPlan has the Part probed. *)
Probes(stage, profile, intent, confirmed) ==
  stage # "metadata" /\ ~confirmed /\ (intent # "direct play" \/ profile.given)

FallBackTo(plan) == IF HLS THEN plan ELSE "plex"

(* SelectPlaybackPlan.  What Plex decided plays no part, nor does directStream. *)
SelectPlaybackPlan(stage, strm, probe, profile, intent, confirmed, hlsRequest) ==
  IF ~strm THEN "plex"
  ELSE IF confirmed THEN "redirect"
  ELSE IF VideoNeedsTranscode(profile, probe) THEN FallBackTo("proxy video")
  ELSE IF AudioNeedsTranscode(profile, probe) /\ ~(intent = "direct play" /\ ~HasAudio(profile))
    THEN FallBackTo("proxy audio")
  ELSE IF intent = "direct play" \/ stage # "transcode start" THEN "redirect"
  ELSE IF hlsRequest THEN FallBackTo("proxy video")
  ELSE "plex"

-----------------------------------------------------------------------------
(* What the streams of a fallback are said to be, and what they are *)

Streams == [video : VideoName \cup {NoCodec}, audio : AudioName \cup {NoCodec}]
Encoded == [video |-> H264, audio |-> AAC]

(* proxyStreamPlanForMode, for the decisions the proxy writes itself.  An unknown
   video codec is left out.  An audio codec that needs no transcode is named, though
   the stream is marked as transcoded. *)
StreamsToldFor(profile, probe, force) ==
  IF force THEN Encoded
  ELSE IF ~probe.probed THEN [video |-> NoCodec, audio |-> AAC]
  ELSE [video |-> IF VideoNeedsTranscode(profile, probe) THEN H264 ELSE probe.video,
        audio |-> IF AudioNeedsTranscode(profile, probe) THEN AAC ELSE probe.audio]

(* registerProxyTranscode: whether the audio and the video of a session have to be
   encoded.  Audio that could not be probed is. *)
AudioIsEncoded(profile, probe) == ~probe.probed \/ AudioNeedsTranscode(profile, probe)
VideoIsForced(force, profile, probe) == force \/ VideoNeedsTranscode(profile, probe)
(* A DASH manifest repeats the source's codec string for HEVC that is copied. *)
NamesCodec(forced, probe) == probe.probed /\ ~forced /\ probe.video = HEVC

(* buildFFmpegArgs: the output of a process that copies, or that does not. *)
StreamsOf(source, copies, encodesAudio) ==
  IF copies THEN [video |-> source.video, audio |-> IF encodesAudio THEN AAC ELSE source.audio]
  ELSE Encoded

Format == {"hls", "dash"}
Protocol == {"hls", "dash", "other"}
Suffix == {".m3u8", ".mpd", "other"}
IsHLSStart(protocol, suffix) == protocol = "hls" \/ suffix = ".m3u8"
(* transcodeFormatForRequest *)
FormatFor(protocol, suffix) ==
  IF ~IsHLSStart(protocol, suffix) /\ (protocol = "dash" \/ suffix = ".mpd") THEN "dash" ELSE "hls"

-----------------------------------------------------------------------------
(* What Plex decided.  A document has Parts with streams, a summary of each Media,
   and codes on its container.  Elements may say whether they are selected.  JSON
   may have streams outside any Part, which count there and not in XML. *)

Decision == {"unknown", "direct play", "direct stream", "transcode"}
Selection == {"unstated", "selected", "unselected"}
Item == [decision : Decision, selection : Selection]

(* inheritStreamSelection: a stream is selected with its Part. *)
Inherited(stream, part) ==
  IF part = "unstated" THEN stream
  ELSE IF stream = "unstated" THEN part
  ELSE IF stream = "selected" /\ part = "selected" THEN "selected" ELSE "unselected"

PartItems(document) == {[decision |-> p.decision, selection |-> p.selection] : p \in document.parts}
ItemsWithin(part) ==
  {[decision |-> s.decision, selection |-> Inherited(s.selection, part.selection)] : s \in part.streams}
StreamItems(document) ==
  (UNION {ItemsWithin(p) : p \in document.parts}) \cup {s \in document.loose : document.json}

(* choosePlexDecisionObservations: what is known not to be selected does not count. *)
Counted(items, selectedOnly) ==
  {i.decision : i \in {j \in items : IF selectedOnly THEN j.selection = "selected"
                                     ELSE j.selection # "unselected"}}
Strongest(decisions) ==
  IF "transcode" \in decisions THEN "transcode"
  ELSE IF "direct stream" \in decisions THEN "direct stream"
  ELSE IF "direct play" \in decisions THEN "direct play" ELSE "unknown"

(* A transcode of either, else the Part's own, else the stream's. *)
Joined(part, stream) ==
  IF "transcode" \in {part, stream} THEN "transcode"
  ELSE IF part # "unknown" THEN part ELSE stream

(* choosePlexDecision: what is selected, else whatever there is, else the summaries. *)
DecisionOf(document) ==
  LET Of(selectedOnly) ==
        Joined(Strongest(Counted(PartItems(document), selectedOnly)),
               Strongest(Counted(StreamItems(document), selectedOnly)))
  IN IF Of(TRUE) # "unknown" THEN Of(TRUE)
     ELSE IF Of(FALSE) # "unknown" THEN Of(FALSE)
     ELSE IF Strongest(document.media) # "unknown" THEN Strongest(document.media)
     ELSE document.container
=============================================================================
