--------------------------- MODULE HLSTranscoder ---------------------------
(***************************************************************************)
(* The session life cycle of the ffmpeg transcoder in hls_transcode.go:    *)
(* register, start, waitForProcess (with the fallback from stream copy to  *)
(* a full transcode), session lookups, the cleanup sweep, and the requests *)
(* that wait for output.                                                   *)
(*                                                                         *)
(* Every call of register that does not reuse a session makes a new        *)
(* hlsSession; a request keeps a pointer to the one it looked up, so the   *)
(* model tells session OBJECTS (Obj) apart from session IDS (Sid): several *)
(* objects may have had the same id, and all of them share its directory.  *)
(*                                                                         *)
(* The sections under t.mu are one action each.  session.mu is held over   *)
(* several steps only while start validates a direct source ("validating") *)
(* and for ever once a handler has panicked with the locks held (wedged).  *)
(* Seeking (ensureSegment, the source cache) is not in this module.        *)
(*                                                                         *)
(* A definition named after another with a suffix (MayStartAlways next to  *)
(* MayStart) is a mistake the code could have had; the specification never *)
(* uses it, a property that is worth its run tells it from the original.   *)
(***************************************************************************)
EXTENDS Naturals, FiniteSets

CONSTANTS
  Sid,          \* normalised session ids
  Req,          \* request goroutines
  Source,       \* what register compares besides forceTranscode: the URLs, the
                \* video codec string and the format, as one value
  Proxied,      \* the sources read through the proxy's own Part route
  Validated,    \* what ResolveMediaTarget turns a direct source into
  ForceArgs,    \* the forceTranscode arguments register is called with
  CopyFirst,    \* t.copyFirst
  Faults,       \* subset of {"spawn", "respawn"}: which exec.Cmd.Start may fail
  MaxSessions   \* bound: session objects ever made

ASSUME TranscoderAssumption ==
  /\ Proxied \subseteq Source
  /\ Validated \in [Source \ Proxied -> Source \ Proxied]
  /\ Sid # {} /\ Source # {}
  /\ ForceArgs # {} /\ ForceArgs \subseteq BOOLEAN
  /\ CopyFirst \in BOOLEAN
  /\ MaxSessions \in Nat

VARIABLES
  sessions,  \* t.sessions: the object registered under each id, or NoSession
  sess,      \* the hlsSession objects
  proc,      \* the operating system's view of the processes of each object
  dirs,      \* ids whose directory exists
  output,    \* objects whose ffmpeg has written into the directory of each id
  count,     \* session objects made so far
  pc,        \* what each request is doing
  obj,       \* the session pointer each request holds
  wedged,    \* the object whose mutex a panic left locked, along with t.mu
  late,      \* history: objects whose ffmpeg was launched when unregistered
  lost,      \* history: objects whose fallback process could not be spawned
  stopped    \* history: <<object, role>> of the processes told to stop

history == <<late, lost, stopped>>
files == <<dirs, output>>
vars == <<sessions, sess, proc, files, count, pc, obj, wedged, history>>

NoSession == 0
Obj == 1..MaxSessions
Role == {"first", "fallback"}
ProcState == {"none", "running", "killed", "failed", "finished", "reaped"}
Stop == {"none", "replaced", "expired"}
Step == {"idle", "locking", "validating", "opening", "manifest", "touching",
         "fetching", "restarting", "waiting"}
Want == [src : Source, force : ForceArgs]

Session == [id : Sid, src : Source, force : BOOLEAN, started : BOOLEAN,
            done : BOOLEAN, stop : Stop, copy : BOOLEAN,
            cmd : {"nil", "unstarted"} \cup Role, vod : BOOLEAN, fresh : BOOLEAN]

NewSession(s, w) ==
  [id |-> s, src |-> w.src, force |-> w.force, started |-> FALSE,
   done |-> FALSE, stop |-> "none", copy |-> FALSE, cmd |-> "nil",
   vod |-> FALSE, fresh |-> TRUE]

Init ==
  /\ sessions = [s \in Sid |-> NoSession]
  /\ sess = [o \in Obj |-> NewSession(CHOOSE s \in Sid : TRUE, CHOOSE w \in Want : TRUE)]
  /\ proc = [o \in Obj |-> [p \in Role |-> "none"]]
  /\ dirs = {} /\ output = [s \in Sid |-> {}]
  /\ count = 0
  /\ pc = [r \in Req |-> "idle"]
  /\ obj = [r \in Req |-> NoSession]
  /\ wedged = NoSession
  /\ late = {} /\ lost = {} /\ stopped = {}

-----------------------------------------------------------------------------
(* The locks. *)

Registered(o) == sessions[sess[o].id] = o
Active(o) == sess[o].started /\ ~sess[o].done

(* session.mu is taken: by a start that is validating its source, or by the
   goroutine that panicked. *)
Locked(o) == wedged = o \/ \E r \in Req : pc[r] = "validating" /\ obj[r] = o

(* t.mu can be taken and the sweep, which locks every registered session in
   turn while it holds t.mu, can run to its end. *)
TranscoderFree ==
  wedged = NoSession /\ \A o \in Obj : Registered(o) => ~Locked(o)

-----------------------------------------------------------------------------
(* cleanupExpiredLocked, which register, session and cleanupLoop run first.
   The ttl is never shorter than the idle timeout, so idleness alone decides:
   an idle session with a process is told to stop and stays registered, one
   without is removed with its directory. *)

Idle(o) == Registered(o) /\ ~sess[o].fresh
ExpiringNever == {}
Expiring == {o \in Obj : Idle(o) /\ Active(o) /\ sess[o].cmd # "nil"}
Evicting == {o \in Obj : Idle(o) /\ ~Active(o)}

(* Process.Kill: no effect on a process that has already ended. *)
Kill(o) == [p \in Role |-> IF p = sess[o].cmd /\ proc[o][p] = "running"
                            THEN "killed" ELSE proc[o][p]]

SessionsSwept == [s \in Sid |-> IF sessions[s] \in Evicting THEN NoSession ELSE sessions[s]]
SessSwept == [o \in Obj |-> IF o \in Expiring THEN [sess[o] EXCEPT !.stop = "expired"]
                                              ELSE sess[o]]
ProcSwept == [o \in Obj |-> IF o \in Expiring THEN Kill(o) ELSE proc[o]]
DirsSwept == {s \in dirs : sessions[s] \notin Evicting}
OutputSwept == [s \in Sid |-> IF sessions[s] \in Evicting THEN {} ELSE output[s]]
StoppedSwept == stopped \cup {<<o, sess[o].cmd>> : o \in Expiring}

(* What a sweep leaves for an operation that then changes only the session
   objects. *)
SweepAround(objects) ==
  /\ TranscoderFree
  /\ sessions' = SessionsSwept /\ sess' = objects /\ proc' = ProcSwept
  /\ dirs' = DirsSwept /\ output' = OutputSwept /\ stopped' = StoppedSwept

(* cleanupLoop's ticker. *)
Tick ==
  /\ SweepAround(SessSwept)
  /\ UNCHANGED <<count, pc, obj, wedged, late, lost>>

(* min(ttl, hlsSessionIdleTimeout) goes by without an access. *)
GrowIdle(o) ==
  /\ Registered(o) /\ sess[o].fresh
  /\ sess' = [sess EXCEPT ![o].fresh = FALSE]
  /\ UNCHANGED <<sessions, proc, files, count, pc, obj, wedged, history>>

-----------------------------------------------------------------------------
(* register *)

Reusable(o, w) ==
  Active(o) /\ sess[o].src = w.src /\ sess[o].force = w.force

(* A registered session that matches and is active is only refreshed. *)
Reuse(r, s, w) ==
  LET o == SessionsSwept[s] IN
  /\ pc[r] = "idle" /\ o # NoSession /\ Reusable(o, w)
  /\ SweepAround([SessSwept EXCEPT ![o].fresh = TRUE])
  /\ UNCHANGED <<count, pc, obj, wedged, late, lost>>

(* Anything else under the id is replaced: its process is told to stop, the
   directory is emptied and a new object takes the place.  A cmd whose Start
   failed has no process to kill, see RegisterPanics. *)
Replaced(o) == o # NoSession /\ sess[o].cmd # "nil" /\ ~sess[o].done
SessReplacedQuietly(o) == SessSwept
SessReplaced(o) ==
  IF Replaced(o) THEN [SessSwept EXCEPT ![o].stop = "replaced"] ELSE SessSwept
ProcReplacedAlive(o) == ProcSwept
ProcReplaced(o) ==
  IF Replaced(o) THEN [ProcSwept EXCEPT ![o] = Kill(o)] ELSE ProcSwept
StoppedReplaced(o) ==
  StoppedSwept \cup IF Replaced(o) THEN {<<o, sess[o].cmd>>} ELSE {}
ClearedNot(s) == OutputSwept
Cleared(s) == [OutputSwept EXCEPT ![s] = {}]

Takeover(r, s, w) ==
  LET o == SessionsSwept[s] IN
  /\ pc[r] = "idle" /\ TranscoderFree
  /\ o # NoSession => ~Reusable(o, w) /\ sess[o].cmd # "unstarted"
  /\ proc' = ProcReplaced(o) /\ stopped' = StoppedReplaced(o)

Register(r, s, w) ==
  LET o == SessionsSwept[s]
      new == count + 1
  IN
  /\ Takeover(r, s, w)
  /\ new \in Obj
  /\ sessions' = [SessionsSwept EXCEPT ![s] = new]
  /\ sess' = [SessReplaced(o) EXCEPT ![new] = NewSession(s, w)]
  /\ dirs' = DirsSwept \cup {s} /\ output' = Cleared(s)
  /\ count' = new
  /\ UNCHANGED <<pc, obj, wedged, late, lost>>

(* RemoveAll or MkdirAll fails: the old session is gone and there is no new
   one; the directory is as it was, or removed. *)
RegisterFails(r, s, w) ==
  /\ Takeover(r, s, w)
  /\ sessions' = [SessionsSwept EXCEPT ![s] = NoSession]
  /\ sess' = SessReplaced(SessionsSwept[s])
  /\ \/ dirs' = DirsSwept /\ output' = OutputSwept
     \/ dirs' = DirsSwept \ {s} /\ output' = Cleared(s)
  /\ UNCHANGED <<count, pc, obj, wedged, late, lost>>

(* existing.cmd is set but its Start failed: cmd.Process is nil and Kill
   panics.  The HTTP server recovers; t.mu and existing.mu stay locked. *)
RegisterPanics(r, s, w) ==
  LET o == SessionsSwept[s] IN
  /\ pc[r] = "idle" /\ o # NoSession /\ sess[o].cmd = "unstarted"
  /\ SweepAround([SessSwept EXCEPT ![o].stop = "replaced"])
  /\ wedged' = o
  /\ UNCHANGED <<count, pc, obj, late, lost>>

-----------------------------------------------------------------------------
(* session(id): the sweep, then the registered object, its access noted.  The
   caller leaves t.mu with a pointer that later steps use unchecked. *)

Lookup(r, s, next) ==
  /\ SessionsSwept[s] # NoSession
  /\ SweepAround([SessSwept EXCEPT ![SessionsSwept[s]].fresh = TRUE])
  /\ obj' = [obj EXCEPT ![r] = SessionsSwept[s]]
  /\ pc' = [pc EXCEPT ![r] = next]

Goto(r, next) ==
  /\ pc' = [pc EXCEPT ![r] = next]
  /\ obj' = [obj EXCEPT ![r] = IF next = "idle" THEN NoSession ELSE @]

NotFound(r, s) ==
  SessionsSwept[s] = NoSession /\ SweepAround(SessSwept) /\ Goto(r, "idle")

-----------------------------------------------------------------------------
(* start *)

StartLooksUp(r, s) ==
  /\ \/ pc[r] = "idle"
     \/ pc[r] = "restarting" /\ sess[obj[r]].id = s
  /\ Lookup(r, s, "locking") \/ NotFound(r, s)

ManifestStep(vod) == IF vod THEN "opening" ELSE "manifest"

(* Another request has started this object already. *)
StartJoins(r) ==
  LET o == obj[r] IN
  /\ pc[r] = "locking" /\ ~Locked(o) /\ sess[o].started
  /\ Goto(r, ManifestStep(sess[o].vod))

(* exec.Cmd.Start of the first process.  Nothing checks that the object is
   still registered. *)
Attempt(rec) == [rec EXCEPT !.copy = CopyFirst /\ ~rec.force]

Launch(r, rec) ==
  LET o == obj[r] IN
  \/ /\ sess' = [sess EXCEPT ![o] = [Attempt(rec) EXCEPT !.cmd = "first", !.started = TRUE]]
     /\ proc' = [proc EXCEPT ![o]["first"] = "running"]
     /\ late' = IF Registered(o) THEN late ELSE late \cup {o}
     /\ Goto(r, ManifestStep(rec.vod))
  \/ /\ "spawn" \in Faults
     /\ sess' = [sess EXCEPT ![o] = [Attempt(rec) EXCEPT !.cmd = "unstarted"]]
     /\ Goto(r, "idle") /\ UNCHANGED <<proc, late>>

MayStartAlways(o) == TRUE
MayStartIfInactive(o) == ~Active(o)
MayStart(o) == ~sess[o].started

StartProxied(r) ==
  LET o == obj[r] IN
  /\ pc[r] = "locking" /\ ~Locked(o) /\ MayStart(o) /\ sess[o].src \in Proxied
  /\ Launch(r, sess[o])
  /\ UNCHANGED <<sessions, files, count, wedged, lost, stopped>>

(* A direct source is validated, and its duration probed, with session.mu
   held; the session then keeps the validated URL. *)
StartDirect(r) ==
  LET o == obj[r] IN
  /\ pc[r] = "locking" /\ ~Locked(o) /\ MayStart(o) /\ sess[o].src \notin Proxied
  /\ Goto(r, "validating")

ValidationFails(r) ==
  pc[r] = "validating" /\ Goto(r, "idle")

ValidRecord(o, known) ==
  [sess[o] EXCEPT !.src = Validated[sess[o].src], !.vod = @ \/ known]

ValidationEnds(r) ==
  LET o == obj[r] IN
  /\ pc[r] = "validating"
  /\ \E known \in BOOLEAN :
       \/ Launch(r, ValidRecord(o, known))
       \/ \* writeHLSVODPlaylist fails
          /\ known /\ sess' = [sess EXCEPT ![o] = ValidRecord(o, TRUE)]
          /\ Goto(r, "idle") /\ UNCHANGED <<proc, late>>
  /\ UNCHANGED <<sessions, files, count, wedged, lost, stopped>>

-----------------------------------------------------------------------------
(* The operating system: a process writes its output, ends by itself, or dies
   of the kill. *)

Live(o, p) == proc[o][p] \in {"running", "killed"}

Write(o, p) ==
  /\ Live(o, p) /\ sess[o].id \in dirs
  /\ output' = [output EXCEPT ![sess[o].id] = @ \cup {o}]
  /\ UNCHANGED <<sessions, sess, proc, dirs, count, pc, obj, wedged, history>>

End(o, p) ==
  /\ proc[o][p] = "running"
  /\ \E how \in {"failed", "finished"} : proc' = [proc EXCEPT ![o][p] = how]
  /\ UNCHANGED <<sessions, sess, files, count, pc, obj, wedged, history>>

Die(o, p) ==
  /\ proc[o][p] = "killed"
  /\ proc' = [proc EXCEPT ![o][p] = "failed"]
  /\ UNCHANGED <<sessions, sess, files, count, pc, obj, wedged, history>>

-----------------------------------------------------------------------------
(* waitForProcess, after cmd.Wait has returned: one section under session.mu. *)

Ended(o) == sess[o].cmd \in Role /\ proc[o][sess[o].cmd] \in {"failed", "finished"}
Failed(o) == proc[o][sess[o].cmd] = "failed"

CopyMayFallBackIfStopped(o) == Failed(o) /\ sess[o].copy
(* shouldFallbackFromCopy *)
CopyMayFallBack(o) == Failed(o) /\ sess[o].copy /\ sess[o].stop = "none"

Reaped(o) == [proc[o] EXCEPT ![sess[o].cmd] = "reaped"]

SettledRecordOnSuccess(o) == [sess[o] EXCEPT !.stop = "none", !.done = ~Failed(o)]
SettledRecord(o) == [sess[o] EXCEPT !.stop = "none", !.done = TRUE]
FallbackRecord(o) ==
  [sess[o] EXCEPT !.stop = "none", !.done = FALSE, !.copy = FALSE]

(* hlsSourceAllowed may refuse a direct source that no longer validates. *)
Settle(o) ==
  /\ Ended(o) /\ ~Locked(o)
  /\ CopyMayFallBack(o) => sess[o].src \notin Proxied
  /\ sess' = [sess EXCEPT ![o] = SettledRecord(o)]
  /\ proc' = [proc EXCEPT ![o] = Reaped(o)]
  /\ UNCHANGED <<sessions, files, count, pc, obj, wedged, history>>

FallBack(o) ==
  /\ Ended(o) /\ ~Locked(o) /\ CopyMayFallBack(o)
  /\ sess' = [sess EXCEPT ![o] = [FallbackRecord(o) EXCEPT !.cmd = "fallback"]]
  /\ proc' = [proc EXCEPT ![o] = [Reaped(o) EXCEPT !["fallback"] = "running"]]
  /\ UNCHANGED <<sessions, files, count, pc, obj, wedged, history>>

(* The fallback's Start fails: done has been reset and nothing sets it again. *)
FallbackLost(o) ==
  /\ Ended(o) /\ ~Locked(o) /\ CopyMayFallBack(o) /\ "respawn" \in Faults
  /\ sess' = [sess EXCEPT ![o] = FallbackRecord(o)]
  /\ proc' = [proc EXCEPT ![o] = Reaped(o)]
  /\ lost' = lost \cup {o}
  /\ UNCHANGED <<sessions, files, count, pc, obj, wedged, late, stopped>>

-----------------------------------------------------------------------------
(* waitForHLSFile: for the manifest in start, for any file in the resource
   handler. *)

Here(r) == output[sess[obj[r]].id] # {}
Waiting(r) == pc[r] \in {"manifest", "waiting"}

(* handleProxyTranscodeStart asks for the format (a lookup) after start; the
   resource handler, which also calls start, serves the file. *)
Served(r) == \/ Goto(r, "idle")
             \/ pc[r] # "waiting" /\ Goto(r, "touching")

WaitServed(r) == Waiting(r) /\ Here(r) /\ Served(r)
WaitFails(r) ==
  Waiting(r) /\ ~Locked(obj[r]) /\ sess[obj[r]].done /\ Goto(r, "idle")

WaitGivesUpNever(r) == FALSE
(* The request is cancelled, or hlsResourceWaitSeconds have passed. *)
WaitGivesUp(r) == Waiting(r) /\ ~Locked(obj[r]) /\ Goto(r, "idle")

(* A session of known duration does not wait: os.Stat of ffmpeg's own playlist
   decides at once. *)
OpenVOD(r) ==
  pc[r] = "opening" /\ IF Here(r) THEN Served(r) ELSE Goto(r, "idle")

(* The steps above that change only the request's own position. *)
Moves(r) ==
  /\ \/ StartJoins(r) \/ StartDirect(r) \/ ValidationFails(r)
     \/ WaitServed(r) \/ WaitFails(r) \/ WaitGivesUp(r) \/ OpenVOD(r)
  /\ UNCHANGED <<sessions, sess, proc, files, count, wedged, history>>

-----------------------------------------------------------------------------
(* handleTranscodeResource looks the session up, then looks it up again for the
   path.  A missing manifest calls start, which a found manifest follows; for a
   missing segment it waits on the FIRST object, for a file of the directory
   both objects share. *)
Fetch(r, s) == pc[r] = "idle" /\ (Lookup(r, s, "fetching") \/ NotFound(r, s))

FetchPath(r) ==
  LET s == sess[obj[r]].id
      o == SessionsSwept[s]
  IN
  /\ pc[r] = "fetching" /\ ~Locked(obj[r]) /\ o # NoSession
  /\ SweepAround([SessSwept EXCEPT ![o].fresh = TRUE])
  /\ \/ OutputSwept[s] # {} /\ Goto(r, "idle")
     \/ Goto(r, "waiting")
     \/ OutputSwept[s] = {} /\ Goto(r, "restarting")

(* The second lookup finds nothing: the request goes on to Plex. *)
FetchLosesSession(r) ==
  pc[r] = "fetching" /\ ~Locked(obj[r]) /\ NotFound(r, sess[obj[r]].id)

(* sessionFormat after a start that succeeded. *)
Touch(r) ==
  /\ pc[r] = "touching"
  /\ LET s == sess[obj[r]].id
         o == SessionsSwept[s]
     IN SweepAround(IF o = NoSession THEN SessSwept ELSE [SessSwept EXCEPT ![o].fresh = TRUE])
  /\ Goto(r, "idle")

(* The steps that only look up: they differ from a sweep by one access. *)
Looks(r) ==
  /\ \/ \E s \in Sid : StartLooksUp(r, s) \/ Fetch(r, s)
     \/ FetchPath(r) \/ FetchLosesSession(r) \/ Touch(r)
  /\ UNCHANGED <<count, wedged, late, lost>>

-----------------------------------------------------------------------------
Request(r) ==
  \/ \E s \in Sid, w \in Want :
       Reuse(r, s, w) \/ Register(r, s, w) \/ RegisterFails(r, s, w) \/ RegisterPanics(r, s, w)
  \/ StartProxied(r) \/ ValidationEnds(r) \/ Moves(r) \/ Looks(r)

Process(o) ==
  \/ \E p \in Role : Write(o, p) \/ End(o, p) \/ Die(o, p)
  \/ Settle(o) \/ FallBack(o) \/ FallbackLost(o)

Next ==
  \/ Tick
  \/ \E r \in Req : Request(r)
  \/ \E o \in Obj : GrowIdle(o) \/ Process(o)

Spec == Init /\ [][Next]_vars

-----------------------------------------------------------------------------
TypeOK ==
  /\ sessions \in [Sid -> Obj \cup {NoSession}]
  /\ sess \in [Obj -> Session]
  /\ proc \in [Obj -> [Role -> ProcState]]
  /\ dirs \subseteq Sid /\ output \in [Sid -> SUBSET Obj]
  /\ count \in 0..MaxSessions
  /\ pc \in [Req -> Step] /\ obj \in [Req -> Obj \cup {NoSession}]
  /\ wedged \in Obj \cup {NoSession}
  /\ late \subseteq Obj /\ lost \subseteq Obj
  /\ stopped \subseteq Obj \X Role
  /\ \A r \in Req : obj[r] = NoSession <=> pc[r] = "idle"

-----------------------------------------------------------------------------
(* Safety. *)

(* A session that waiters may see as done has nothing left running: done is set
   and, for a fallback, reset under one lock (waitForProcess), so no request is
   told that ffmpeg failed while the fallback is still to come. *)
DoneIsQuiet ==
  \A o \in Obj : sess[o].done => \A p \in Role : proc[o][p] \in {"none", "reaped"}

(* The copy attempt and the fallback of a session never write its playlist
   together, however many requests start the session. *)
OneProcess == \A o \in Obj : ~(Live(o, "first") /\ Live(o, "fallback"))

(* A process stopped by a replacement or by the idle sweep is never taken for a
   failed copy: no fallback follows it (shouldFallbackFromCopy), even when it
   had failed by itself just before it was told to stop. *)
StopIsFinal ==
  \A o \in Obj : <<o, "first">> \in stopped => proc[o]["fallback"] = "none"

(* A session registered with forceTranscode never tries the copy, hence never
   has a fallback, whatever order register, start and the process take. *)
ForcedRunsOnce ==
  \A o \in Obj : sess[o].force => ~sess[o].copy /\ proc[o]["fallback"] = "none"

(* An object leaves t.sessions only with its process told to stop: what runs on
   unregistered was launched by a start that still held the pointer (start does
   not look again once it has session.mu). *)
ReplacedIsStopped ==
  \A o \in Obj, p \in Role :
    proc[o][p] = "running" /\ ~Registered(o) => o \in late

(* The directory of a registered session holds only what that session wrote,
   but for a stopped process that was not dead yet when the directory was
   emptied and for the late launches of ReplacedIsStopped. *)
OutputIsOwn ==
  \A s \in Sid : sessions[s] # NoSession =>
    \A o \in output[s] :
      o = sessions[s] \/ o \in late \/ \E p \in Role : <<o, p>> \in stopped

(* An active session, which register reuses, cleanup keeps and waiters wait on,
   has a process whose end will be noticed, unless its fallback was lost. *)
ActiveIsAttended ==
  \A o \in Obj : Active(o) =>
    o \in lost \/ \E p \in Role : proc[o][p] \notin {"none", "reaped"}

(* Once done is visible it stays, and no process is launched for the object
   again: a later start of the same id does not revive it. *)
DoneIsFinal ==
  [][\A o \in Obj : sess[o].done => sess'[o].done /\ proc'[o] = proc[o]]_vars

(* A session whose fallback could not be spawned looks active for good.  Nothing runs for
   it, it is never done, no later start revives it and no sweep removes it: it leaves its
   id only to a registration, which tells it to stop as if it still played. *)
LostStays ==
  [][\A o \in lost :
       /\ Active(o)' /\ proc'[o] = proc[o]
       /\ Registered(o) => Registered(o)' \/ sess'[o].stop = "replaced"]_vars

(* register's comment: it "creates (or refreshes) an HLS session".  It always
   comes back, with the transcoder's locks free for the next caller. *)
RegisterComesBack == wedged = NoSession

-----------------------------------------------------------------------------
(* The inductive invariant behind the properties above, in named parts. *)

(* The map is consistent with the objects. *)
MapInv ==
  \A s \in Sid : sessions[s] # NoSession =>
    sessions[s] <= count /\ sess[sessions[s]].id = s

(* An object that register has not made is in its initial state. *)
UnmadeInv ==
  /\ \A o \in Obj : o > count =>
       /\ sess[o].cmd = "nil" /\ ~sess[o].copy /\ ~sess[o].started /\ ~sess[o].done
       /\ \A p \in Role : proc[o][p] = "none" /\ <<o, p>> \notin stopped
       /\ \A s \in Sid : o \notin output[s]
  /\ \A r \in Req : obj[r] <= count

(* What the fields of an object say of its processes. *)
CmdInv ==
  \A o \in Obj :
    /\ sess[o].started <=> sess[o].cmd \in Role
    /\ sess[o].done => sess[o].started
    /\ sess[o].cmd \notin Role => \A p \in Role : proc[o][p] = "none"
    /\ sess[o].cmd = "first" => proc[o]["first"] # "none" /\ proc[o]["fallback"] = "none"
    /\ sess[o].cmd = "fallback" =>
         proc[o]["first"] = "reaped" /\ proc[o]["fallback"] # "none" /\ ~sess[o].copy
    /\ sess[o].done => proc[o][sess[o].cmd] = "reaped"
    /\ Active(o) /\ proc[o][sess[o].cmd] = "reaped" => o \in lost
    /\ sess[o].force => ~sess[o].copy /\ proc[o]["fallback"] = "none"

(* A kill leaves a stop reason, which lasts until the process is waited for. *)
StopInv ==
  \A o \in Obj :
    /\ \A p \in Role : proc[o][p] = "killed" => <<o, p>> \in stopped
    /\ <<o, "first">> \in stopped =>
         sess[o].cmd = "first" /\ (sess[o].stop # "none" \/ proc[o]["first"] = "reaped")

(* ReplacedIsStopped, for every process that is not yet waited for. *)
UnregisteredInv ==
  \A o \in Obj, p \in Role :
    ~Registered(o) /\ proc[o][p] \notin {"none", "reaped"} =>
      o \in late \/ (proc[o][p] # "running" /\ sess[o].stop # "none")

OutputInv == OutputIsOwn /\ \A s \in Sid : \A o \in output[s] : sess[o].id = s

(* session.mu is what keeps a second start out while the first validates: the
   object is still to be started, from a direct source, by one request only. *)
ValidatingInv ==
  /\ \A r \in Req : pc[r] = "validating" =>
       ~sess[obj[r]].started /\ sess[obj[r]].src \notin Proxied
  /\ \A q, r \in Req :
       pc[q] = "validating" /\ pc[r] = "validating" /\ obj[q] = obj[r] => q = r

IInv ==
  /\ TypeOK /\ MapInv /\ UnmadeInv /\ ValidatingInv
  /\ CmdInv /\ StopInv /\ UnregisteredInv /\ OutputInv

(* An object that has not been started was not told to stop, so a start makes it play:
   only a panic marks it, and leaves it locked for ever. *)
ReadyInv ==
  \A o \in Obj : ~sess[o].started /\ sess[o].stop # "none" =>
    wedged = o /\ \A r \in Req : ~(pc[r] = "validating" /\ obj[r] = o)

-----------------------------------------------------------------------------
(* The refinement: what callers of the transcoder see of each object. *)

PhaseOf(o) ==
  IF o > count THEN "unmade"
  ELSE IF ~sess[o].started THEN "ready"
  ELSE IF sess[o].done THEN "over"
  ELSE IF sess[o].stop # "none" THEN "stopping" ELSE "playing"

Phases == [o \in Obj |-> PhaseOf(o)]

Service == INSTANCE TranscoderService WITH current <- sessions, phase <- Phases, made <- count

(* A session plays once and is over for good; it loses its id only when it does not
   play or with being told to stop; the fallback of a failed copy is no new session
   to anyone.  That is the whole of what register, start and cleanup promise, through
   every interleaving of requests, sweeps and processes. *)
ImplementsService == Service!Spec

-----------------------------------------------------------------------------
(* Liveness.  Mutexes are handed to waiters in turn (strong fairness), a request
   that is not waiting for a client runs on, the runtime's timers fire, SIGKILL
   kills.  Nothing makes ffmpeg end by itself, and clients owe nothing. *)

Proceeds(r) ==
  pc[r] # "idle" /\ (StartProxied(r) \/ ValidationEnds(r) \/ Moves(r) \/ Looks(r))

Fairness ==
  /\ SF_vars(Tick)
  /\ \A r \in Req : SF_vars(Proceeds(r))
  /\ \A o \in Obj : /\ SF_vars(Settle(o) \/ FallBack(o) \/ FallbackLost(o))
                    /\ \A p \in Role : WF_vars(Die(o, p))

FairSpec == Spec /\ Fairness

(* Every request that has entered the transcoder leaves it: no start, poll or
   lookup is blocked for ever by another request's source validation.  A panic in
   register (RegisterComesBack) is the only thing that can hold it back. *)
RequestsReturn ==
  \A r \in Req : pc[r] # "idle" ~> pc[r] = "idle" \/ wedged # NoSession

(* A session nobody asks for does not stay: it is removed (its process stopped first),
   replaced or accessed again.  The code has two exceptions.  A session whose fallback
   could not be spawned stays, since no process of it ends any more and every sweep takes
   it for one that plays (LostStays); and after a panic everybody is locked out. *)
IdleSessionsEnd ==
  \A o \in Obj : Idle(o) ~> ~Idle(o) \/ o \in lost \/ wedged # NoSession

(* A session that was replaced or swept does end, even after a panic elsewhere: its
   process dies of the kill and waitForProcess gets the session's own mutex.  A lost
   session has no process left to die of it. *)
StoppedSessionsEnd ==
  \A o \in Obj : PhaseOf(o) = "stopping" ~> PhaseOf(o) = "over" \/ o \in lost
=============================================================================
