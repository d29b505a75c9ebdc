------------------------- MODULE TranscoderService -------------------------
(***************************************************************************)
(* What the transcoder of hls_transcode.go promises about its sessions,    *)
(* whatever processes, locks and waiters are behind it.  HLSTranscoder     *)
(* implements it.                                                          *)
(*                                                                         *)
(* An id names at most one session at a time.  A session is made ready by  *)
(* register, plays once it has been started, and is over when its last     *)
(* process has been waited for; it may be told to stop in between.  It     *)
(* never goes back, a new session of the same id is another session, and a *)
(* session that loses its id while it plays is told to stop by the very    *)
(* step that takes the id away.                                            *)
(***************************************************************************)
EXTENDS Naturals

CONSTANTS
  Sid,          \* session ids
  MaxSessions   \* bound: sessions ever made

VARIABLES
  current,  \* the session each id names, or NoSession
  phase,    \* of each session
  made      \* sessions made so far

vars == <<current, phase, made>>

NoSession == 0
SessionNumber == 1..MaxSessions
Phase == {"unmade", "ready", "playing", "stopping", "over"}

Init ==
  /\ current = [s \in Sid |-> NoSession]
  /\ phase = [o \in SessionNumber |-> "unmade"]
  /\ made = 0

-----------------------------------------------------------------------------
(* Idle sessions: those that have something to stop are told to and keep their
   id, the others lose it.  Any caller may find them on its way. *)

Plays(s) == current[s] # NoSession /\ phase[current[s]] = "playing"
MayGo(s) == current[s] # NoSession /\ phase[current[s]] \in {"ready", "over"}

Without(ids) == [s \in Sid |-> IF s \in ids THEN NoSession ELSE current[s]]
Stopping(ids) ==
  [o \in SessionNumber |-> IF \E s \in ids : o = current[s] /\ phase[o] = "playing"
                            THEN "stopping" ELSE phase[o]]

Swept(gone, idle) == (\A s \in gone : MayGo(s)) /\ (\A s \in idle : Plays(s))

Collect(gone, idle) ==
  /\ Swept(gone, idle)
  /\ current' = Without(gone) /\ phase' = Stopping(idle)
  /\ UNCHANGED made

(* register: the id is taken by a new session, or by none when its directory
   cannot be made. *)
Open(s, gone, idle) ==
  /\ Swept(gone, idle) /\ made < MaxSessions
  /\ made' = made + 1
  /\ current' = [Without(gone) EXCEPT ![s] = made + 1]
  /\ phase' = [Stopping(idle \cup {s}) EXCEPT ![made + 1] = "ready"]

Refuse(s, gone, idle) ==
  /\ Swept(gone, idle)
  /\ current' = Without(gone \cup {s}) /\ phase' = Stopping(idle \cup {s})
  /\ UNCHANGED made

(* A start may come late: its session need not have its id any more. *)
Play(o) ==
  /\ phase[o] = "ready"
  /\ phase' = [phase EXCEPT ![o] = "playing"]
  /\ UNCHANGED <<current, made>>

Finish(o) ==
  /\ phase[o] \in {"playing", "stopping"}
  /\ phase' = [phase EXCEPT ![o] = "over"]
  /\ UNCHANGED <<current, made>>

Next ==
  \/ \E gone, idle \in SUBSET Sid :
       \/ Collect(gone, idle)
       \/ \E s \in Sid : Open(s, gone, idle) \/ Refuse(s, gone, idle)
  \/ \E o \in SessionNumber : Play(o) \/ Finish(o)

Spec == Init /\ [][Next]_vars

=============================================================================
