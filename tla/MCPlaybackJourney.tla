------------------------- MODULE MCPlaybackJourney -------------------------
EXTENDS PlaybackJourney, TLC

CONSTANTS r1, r2

VideoNames == {"h264", "avc1", "hevc"}
AudioNames == {"aac", "eac3", "ec-3"}
NormalNames == [c \in VideoNames \cup AudioNames |->
  CASE c = "avc1" -> "h264" [] c = "ec-3" -> "eac3" [] OTHER -> c]

(* A client that says nothing, and one that decodes H.264 with AAC or E-AC-3. *)
MCProfiles ==
  {NoProfile,
   ParseProfile({[kind |-> "videoCodec", name |-> "avc1"], [kind |-> "audioCodec", name |-> "aac"],
                 [kind |-> "audioCodec", name |-> "ec-3"], [kind |-> "protocol"]})}
MCSources == {[probed |-> TRUE, video |-> v, audio |-> "eac3"] : v \in {"h264", "hevc"}}

(* One Part with a stream or none, with and without another Part that is not selected
   and a stream outside both; a summary and a code of the container where there is no
   Part. *)
Streams1 == [decision : {"direct play", "transcode"}, selection : Selection]
Parts1 == [decision : {"unknown", "direct play"}, selection : Selection,
           streams : {{}} \cup {{s} : s \in Streams1}]
OtherPart == [decision |-> "transcode", selection |-> "unselected", streams |-> {}]
LooseStream == [decision |-> "transcode", selection |-> "selected"]
Document(parts, media, container, loose, json) ==
  [parts |-> parts, media |-> media, container |-> container, loose |-> loose, json |-> json]
MCDocuments ==
  {Document({p} \cup other, {"direct play"}, "direct play", loose, json) :
      p \in Parts1, other \in {{}, {OtherPart}}, loose \in {{}, {LooseStream}}, json \in BOOLEAN}
    \cup {Document({}, media, container, {[decision |-> "transcode", selection |-> "unstated"]}, json) :
            media \in {{}, {"direct stream"}}, container \in {"unknown", "direct play"}, json \in BOOLEAN}

Symmetry == Permutations({r1, r2})
=============================================================================
