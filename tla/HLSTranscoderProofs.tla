------------------------ MODULE HLSTranscoderProofs ------------------------
(***************************************************************************)
(* Proofs about HLSTranscoder, for every set of ids, requests and sources, *)
(* any choice of faults and any number of sessions.                        *)
(***************************************************************************)
EXTENDS HLSTranscoder, TLAPS

(* The part of the invariant about the requests, which the steps that only   *)
(* move a request have to restore.                                           *)
RequestInv ==
  /\ pc \in [Req -> Step] /\ obj \in [Req -> Obj \cup {NoSession}]
  /\ \A r \in Req : (obj[r] = NoSession <=> pc[r] = "idle") /\ obj[r] <= count
  /\ \A q, r \in Req :
       pc[q] = "validating" /\ pc[r] = "validating" /\ obj[q] = obj[r] => q = r

(* What every step but StartDirect does to the requests.                     *)
RequestGoes ==
  /\ RequestInv'
  /\ \A r \in Req : pc'[r] = "validating" => pc[r] = "validating" /\ obj'[r] = obj[r]

(* What a sweep, an access and a replacement may do together: the processes  *)
(* of some objects are told to stop, some ids lose their object, and at most *)
(* one object is made, for the id s.                                         *)
TurnoverTyped ==
  /\ sess' \in [Obj -> Session] /\ proc' \in [Obj -> [Role -> ProcState]]
  /\ sessions' \in [Sid -> Obj \cup {NoSession}] /\ output' \in [Sid -> SUBSET Obj]
  /\ dirs' \subseteq Sid /\ stopped' \subseteq Obj \X Role
  /\ wedged' \in Obj \cup {NoSession}

Made == (count + 1)..count'

Kept ==
  \A o \in Obj : o \notin Made =>
    /\ sess'[o].id = sess[o].id /\ sess'[o].force = sess[o].force
    /\ sess'[o].started = sess[o].started /\ sess'[o].done = sess[o].done
    /\ sess'[o].copy = sess[o].copy /\ sess'[o].cmd = sess[o].cmd
    /\ sess'[o].src = sess[o].src
    /\ sess'[o].stop = sess[o].stop \/ sess'[o].stop # "none"

Makes(gone, s) ==
  /\ count' = count \/ (count' = count + 1 /\ count' \in Obj /\ s \in gone /\ output'[s] = {})
  /\ \A o \in Made : /\ sess'[o].id = s /\ sess'[o].cmd = "nil" /\ ~sess'[o].copy
                     /\ ~sess'[o].started /\ ~sess'[o].done

Halts(halted) ==
  /\ \A o \in halted : sess[o].cmd \in Role /\ sess'[o].stop # "none"
  /\ \A o \in Obj, p \in Role :
       /\ proc'[o][p] = IF o \in halted /\ p = sess[o].cmd /\ proc[o][p] = "running"
                        THEN "killed" ELSE proc[o][p]
       /\ <<o, p>> \in stopped' <=>
            <<o, p>> \in stopped \/ (o \in halted /\ p = sess[o].cmd)

Leaves(halted, gone, s) ==
  /\ \A i \in Sid \ gone : sessions'[i] = sessions[i] /\ output'[i] = output[i]
  /\ \A i \in gone :
       /\ sessions'[i] = NoSession \/ (i = s /\ sessions'[i] = count + 1 /\ count' = count + 1)
       /\ output'[i] \subseteq output[i]
       /\ sessions[i] # NoSession =>
            \/ sessions[i] \in halted
            \/ \A p \in Role : proc[sessions[i]][p] \in {"none", "reaped"}

Turnover(halted, gone, s) ==
  /\ TurnoverTyped /\ Kept /\ Makes(gone, s) /\ Halts(halted) /\ Leaves(halted, gone, s)
  /\ late' = late /\ lost' = lost

(* What every step is shown to do: the inductive invariant holds again, and  *)
(* what was done stays so, with its processes.                               *)
DoneStays == \A o \in Obj : sess[o].done => sess'[o].done /\ proc'[o] = proc[o]
Sound == IInv' /\ DoneStays

LEMMA InitInv == Init => IInv
<1> SUFFICES ASSUME Init PROVE IInv
  OBVIOUS
<1> USE DEF Init
<1>1. NewSession(CHOOSE s \in Sid : TRUE, CHOOSE w \in Want : TRUE) \in Session
  <2>1. (CHOOSE s \in Sid : TRUE) \in Sid
    BY TranscoderAssumption
  <2>2. (CHOOSE w \in Want : TRUE) \in Want
    <3>1. PICK u \in Source, f \in ForceArgs : TRUE
      BY TranscoderAssumption
    <3>2. [src |-> u, force |-> f] \in Want
      BY DEF Want
    <3> QED BY <3>2
  <2> QED
    BY <2>1, <2>2, TranscoderAssumption DEF NewSession, Session, Want, Stop, Role
<1>2. TypeOK
  BY <1>1, TranscoderAssumption DEF TypeOK, ProcState, Role, Step, NoSession
<1>3. MapInv /\ UnmadeInv
  BY TranscoderAssumption DEF MapInv, UnmadeInv, NewSession, NoSession, Role
<1>4. CmdInv /\ StopInv
  BY DEF CmdInv, StopInv, NewSession, Role, Active
<1>5. UnregisteredInv /\ OutputInv
  BY DEF UnregisteredInv, OutputInv, OutputIsOwn, NoSession
<1>6. ValidatingInv
  BY DEF ValidatingInv
<1> QED BY <1>2, <1>3, <1>4, <1>5, <1>6 DEF IInv

(* A step that leaves the objects, the processes and the files alone.        *)
LEMMA RequestStep ==
  ASSUME IInv, RequestInv', ValidatingInv', wedged' = wedged, count' = count,
         UNCHANGED <<sessions, sess, proc, dirs, output, late, lost, stopped>>
  PROVE  Sound
<1> USE DEF IInv
<1>1. TypeOK' BY DEF TypeOK, RequestInv
<1>2. MapInv' BY DEF MapInv
<1>3. UnmadeInv' BY DEF UnmadeInv, RequestInv
<1>4. CmdInv' /\ StopInv' BY DEF CmdInv, StopInv, Active
<1>5. UnregisteredInv' BY DEF UnregisteredInv, Registered
<1>6. OutputInv' BY DEF OutputInv, OutputIsOwn
<1> QED BY <1>1, <1>2, <1>3, <1>4, <1>5, <1>6 DEF Sound, DoneStays

(* The invariant survives a turnover.                                        *)
LEMMA TurnoverStep ==
  ASSUME IInv, NEW halted \in SUBSET Obj, NEW gone \in SUBSET Sid, NEW s \in Sid,
         Turnover(halted, gone, s), RequestGoes
  PROVE  Sound
<1> USE DEF IInv, Turnover
<1>0. /\ count \in 0..MaxSessions /\ count' \in 0..MaxSessions /\ count <= count'
      /\ \A o \in Made : o = count + 1 /\ o = count' /\ o \in Obj
      /\ \A o \in Obj : o > count' => o > count /\ o \notin Made
      /\ lost' = lost /\ late' = late
  BY TranscoderAssumption DEF Made, Makes, TypeOK, Obj
<1>a. \A o \in Obj :
        \/ o <= count /\ o \notin Made
        \/ /\ sess[o].cmd = "nil"
           /\ \A p \in Role : proc[o][p] = "none" /\ <<o, p>> \notin stopped
           /\ \A i \in Sid : o \notin output[i]
  <2>1. \A o \in Obj : o <= count \/ o > count
    BY <1>0, TranscoderAssumption DEF Obj
  <2>2. \A o \in Obj : o <= count => o \notin Made
    BY <1>0, TranscoderAssumption DEF Obj
  <2> QED BY <2>1, <2>2 DEF UnmadeInv
<1>1. \A o \in Obj : o \in halted => o <= count /\ o \notin Made
  BY <1>a DEF Halts, Role
<1>2. TypeOK'
  BY <1>0 DEF TurnoverTyped, TypeOK, RequestInv, RequestGoes
<1>3. MapInv'
  <2> SUFFICES ASSUME NEW i \in Sid, sessions'[i] # NoSession
               PROVE  sessions'[i] <= count' /\ sess'[sessions'[i]].id = i
    BY DEF MapInv
  <2>1. CASE i \notin gone
    <3>1. sessions'[i] = sessions[i] /\ sessions[i] \in Obj
      BY <2>1 DEF Leaves, TypeOK
    <3>2. sessions[i] <= count /\ sess[sessions[i]].id = i
      BY <3>1 DEF MapInv
    <3>3. sessions[i] \notin Made
      BY <1>0, <3>1, <3>2 DEF Obj
    <3> QED BY <1>0, <3>1, <3>2, <3>3 DEF Kept, Obj
  <2>2. CASE i \in gone
    <3>1. i = s /\ sessions'[i] = count + 1 /\ count' = count + 1
      BY <2>2 DEF Leaves
    <3>2. count + 1 \in Made
      BY <1>0, <3>1 DEF Made
    <3> QED BY <1>0, <3>1, <3>2 DEF Makes
  <2> QED BY <2>1, <2>2
<1>4. UnmadeInv'
  <2>1. ASSUME NEW o \in Obj, o > count'
        PROVE  /\ sess'[o].cmd = "nil" /\ ~sess'[o].copy /\ ~sess'[o].started /\ ~sess'[o].done
               /\ \A p \in Role : proc'[o][p] = "none" /\ <<o, p>> \notin stopped'
               /\ \A i \in Sid : o \notin output'[i]
    <3>1. o > count /\ o \notin Made /\ o \notin halted
      BY <1>0, <1>1, <2>1, TranscoderAssumption DEF Obj
    <3>2. \A p \in Role : proc[o][p] = "none" /\ <<o, p>> \notin stopped
      BY <3>1 DEF UnmadeInv
    <3>3. \A p \in Role : proc'[o][p] = "none" /\ <<o, p>> \notin stopped'
      BY <3>1, <3>2 DEF Halts
    <3>4. \A i \in Sid : output'[i] \subseteq output[i]
      BY DEF Leaves
    <3> QED BY <3>1, <3>3, <3>4 DEF Kept, UnmadeInv
  <2> QED BY <2>1 DEF UnmadeInv, RequestInv, RequestGoes
<1>5. CmdInv'
  <2> SUFFICES ASSUME NEW o \in Obj PROVE CmdInv!(o)'
    BY DEF CmdInv
  <2>1. \A p \in Role : /\ proc'[o][p] = "none" <=> proc[o][p] = "none"
                        /\ proc'[o][p] = "reaped" <=> proc[o][p] = "reaped"
    BY DEF Halts
  <2>2. CASE o \notin Made
    <3>1. /\ sess'[o].force = sess[o].force /\ sess'[o].started = sess[o].started
          /\ sess'[o].done = sess[o].done /\ sess'[o].copy = sess[o].copy
          /\ sess'[o].cmd = sess[o].cmd
      BY <2>2 DEF Kept
    <3> QED BY <1>0, <2>1, <3>1 DEF CmdInv, Active, Role
  <2>3. CASE o \in Made
    <3>1. \A p \in Role : proc'[o][p] = "none"
      BY <1>a, <2>1, <2>3
    <3> QED BY <2>3, <3>1 DEF Makes, Active, Role
  <2> QED BY <2>2, <2>3
<1>6. StopInv'
  <2>1. ASSUME NEW o \in Obj, NEW p \in Role, proc'[o][p] = "killed"
        PROVE  <<o, p>> \in stopped'
    <3>1. proc[o][p] = "killed" \/ (o \in halted /\ p = sess[o].cmd)
      BY <2>1 DEF Halts
    <3>2. proc[o][p] = "killed" => <<o, p>> \in stopped
      BY DEF StopInv
    <3> QED BY <3>1, <3>2 DEF Halts
  <2>2. ASSUME NEW o \in Obj, <<o, "first">> \in stopped'
        PROVE  sess'[o].cmd = "first" /\ (sess'[o].stop # "none" \/ proc'[o]["first"] = "reaped")
    <3>0. "first" \in Role
      BY DEF Role
    <3>1. o \notin Made
      <4>1. <<o, "first">> \in stopped \/ o \in halted
        BY <2>2, <3>0 DEF Halts
      <4> QED BY <1>a, <1>1, <3>0, <4>1
    <3>2. CASE <<o, "first">> \in stopped
      <4>1. sess[o].cmd = "first" /\ (sess[o].stop # "none" \/ proc[o]["first"] = "reaped")
        BY <3>2 DEF StopInv
      <4>2. proc[o]["first"] = "reaped" => proc'[o]["first"] = "reaped"
        BY <3>0 DEF Halts
      <4> QED BY <3>1, <4>1, <4>2 DEF Kept
    <3>3. CASE o \in halted /\ "first" = sess[o].cmd
      BY <3>1, <3>3 DEF Kept, Halts
    <3> QED BY <2>2, <3>0, <3>2, <3>3 DEF Halts
  <2> QED BY <2>1, <2>2 DEF StopInv
<1>7. UnregisteredInv'
  <2> SUFFICES ASSUME NEW o \in Obj, NEW p \in Role,
                      ~Registered(o)', proc'[o][p] \notin {"none", "reaped"}, o \notin late
               PROVE  proc'[o][p] # "running" /\ sess'[o].stop # "none"
    BY <1>0 DEF UnregisteredInv
  <2>1. proc[o][p] \notin {"none", "reaped"}
    BY DEF Halts
  <2>2. o \notin Made
    BY <1>a, <2>1
  <2>3. CASE ~Registered(o)
    <3>1. proc[o][p] # "running" /\ sess[o].stop # "none"
      BY <2>1, <2>3 DEF UnregisteredInv
    <3>2. proc'[o][p] = proc[o][p]
      BY <3>1 DEF Halts
    <3> QED BY <2>2, <3>1, <3>2 DEF Kept
  <2>4. CASE Registered(o)
    <3> DEFINE i == sess[o].id
    <3>1. i \in Sid /\ sess'[o].id = i /\ sessions[i] = o /\ sessions'[i] # o
      BY <2>2, <2>4 DEF Kept, TypeOK, Session, Registered
    <3>2. i \in gone /\ sessions[i] # NoSession
      BY <3>1 DEF Leaves, Obj, NoSession
    <3>3. o \in halted
      BY <2>1, <3>1, <3>2 DEF Leaves
    <3>4. p = sess[o].cmd
      <4>1. sess[o].cmd \in Role
        BY <3>3 DEF Halts
      <4>2. /\ sess[o].cmd = "first" => proc[o]["fallback"] = "none"
            /\ sess[o].cmd = "fallback" => proc[o]["first"] = "reaped"
        BY DEF CmdInv
      <4> QED BY <2>1, <4>1, <4>2 DEF Role
    <3>5. sess'[o].stop # "none"
      BY <3>3 DEF Halts
    <3>6. proc'[o][p] # "running"
      <4>1. proc'[o][p] = IF proc[o][p] = "running" THEN "killed" ELSE proc[o][p]
        BY <3>3, <3>4 DEF Halts
      <4> QED BY <4>1
    <3> QED BY <3>5, <3>6
  <2> QED BY <2>3, <2>4
<1>8. OutputInv'
  <2> SUFFICES ASSUME NEW i \in Sid, NEW o \in output'[i]
               PROVE  /\ sess'[o].id = i
                      /\ sessions'[i] # NoSession =>
                           o = sessions'[i] \/ o \in late \/ \E p \in Role : <<o, p>> \in stopped'
    BY <1>0 DEF OutputInv, OutputIsOwn
  <2>1. o \in output[i] /\ o \in Obj
    BY DEF Leaves, TypeOK
  <2>2. o \notin Made
    BY <1>a, <2>1
  <2>3. sess'[o].id = i
    BY <2>1, <2>2 DEF OutputInv, Kept
  <2>4. ASSUME sessions'[i] # NoSession PROVE sessions'[i] = sessions[i]
    <3>1. i \in gone => i = s /\ count' = count + 1
      BY <2>4 DEF Leaves
    <3>2. count' = count + 1 => count' # count
      BY <1>0
    <3>3. i \in gone => output'[i] = {}
      BY <3>1, <3>2 DEF Makes
    <3> QED BY <3>3 DEF Leaves
  <2>5. \A p \in Role : <<o, p>> \in stopped => <<o, p>> \in stopped'
    BY <2>1 DEF Halts
  <2> QED BY <2>1, <2>3, <2>4, <2>5 DEF OutputInv, OutputIsOwn
<1>9. ValidatingInv'
  <2>1. ASSUME NEW r \in Req, pc'[r] = "validating"
        PROVE  ~sess'[obj'[r]].started /\ sess'[obj'[r]].src \notin Proxied
    <3>1. pc[r] = "validating" /\ obj'[r] = obj[r] BY <2>1 DEF RequestGoes
    <3>2. obj[r] \in Obj /\ obj[r] <= count BY <3>1 DEF TypeOK, UnmadeInv
    <3>3. obj[r] \notin Made BY <1>0, <3>2, TranscoderAssumption DEF Obj
    <3> QED BY <3>1, <3>2, <3>3 DEF ValidatingInv, Kept
  <2> QED BY <2>1 DEF ValidatingInv, RequestGoes, RequestInv
<1>10. DoneStays
  <2> SUFFICES ASSUME NEW o \in Obj, sess[o].done
               PROVE  sess'[o].done /\ proc'[o] = proc[o]
    BY DEF DoneStays
  <2>1. o \notin Made /\ sess[o].cmd \in Role /\ proc[o][sess[o].cmd] = "reaped"
    BY <1>a DEF CmdInv, Role
  <2>2. \A p \in Role : proc'[o][p] = proc[o][p]
    BY <2>1 DEF Halts
  <2>3. proc[o] \in [Role -> ProcState] /\ proc'[o] \in [Role -> ProcState]
    BY DEF TypeOK, TurnoverTyped
  <2> QED BY <2>1, <2>2, <2>3 DEF Kept
<1> QED BY <1>2, <1>3, <1>4, <1>5, <1>6, <1>7, <1>8, <1>9, <1>10 DEF Sound

-----------------------------------------------------------------------------
(* Requests: what restores RequestInv.                                       *)

LEMMA RequestInvHolds == IInv => RequestInv
BY DEF IInv, TypeOK, UnmadeInv, ValidatingInv, RequestInv

LEMMA RequestKept ==
  ASSUME IInv, UNCHANGED <<pc, obj>>, count' \in Nat, count <= count'
  PROVE  RequestGoes
<1>1. RequestInv BY RequestInvHolds
<1>2. count \in Nat BY TranscoderAssumption DEF IInv, TypeOK
<1> QED BY <1>1, <1>2, TranscoderAssumption DEF RequestGoes, RequestInv, Obj, NoSession

LEMMA GotoStep ==
  ASSUME IInv, NEW r \in Req, NEW next \in Step, next # "validating",
         pc[r] # "idle", Goto(r, next),
         count' = count
  PROVE  RequestGoes
<1>1. RequestInv BY RequestInvHolds
<1>2. count \in Nat /\ NoSession <= count
  BY TranscoderAssumption DEF IInv, TypeOK, NoSession
<1> QED BY <1>1, <1>2 DEF RequestGoes, RequestInv, Goto

LEMMA GotoIdle ==
  ASSUME IInv, NEW r \in Req, Goto(r, "idle"), count' = count
  PROVE  RequestGoes
<1>1. RequestInv BY RequestInvHolds
<1>2. count \in Nat /\ NoSession <= count
  BY TranscoderAssumption DEF IInv, TypeOK, NoSession
<1> QED BY <1>1, <1>2 DEF RequestGoes, RequestInv, Goto, Step

-----------------------------------------------------------------------------
(* What the sweep computes.                                                  *)

(* An object that is not active has no process that could still run.         *)
LEMMA InactiveIsQuiet ==
  ASSUME IInv, NEW o \in Obj, ~Active(o) \/ sess[o].cmd \notin Role, NEW p \in Role
  PROVE  proc[o][p] \in {"none", "reaped"}
<1>1. CmdInv!(o) BY DEF IInv, CmdInv
<1> QED BY <1>1 DEF Active, Role

LEMMA ExpiringHasProcess ==
  ASSUME IInv, NEW o \in Expiring
  PROVE  o \in Obj /\ sess[o].cmd \in Role
<1>1. o \in Obj /\ sess[o].started BY DEF Expiring, Active
<1> QED BY <1>1 DEF IInv, CmdInv

(* An update of one field keeps an object an object.                         *)
LEMMA FieldUpdates ==
  ASSUME NEW x \in Session
  PROVE  /\ \A v \in Stop : [x EXCEPT !.stop = v] \in Session
         /\ \A v \in BOOLEAN : [x EXCEPT !.fresh = v] \in Session
BY DEF Session

LEMMA SweptValues ==
  ASSUME IInv
  PROVE  /\ SessionsSwept \in [Sid -> Obj \cup {NoSession}]
         /\ ProcSwept \in [Obj -> [Role -> ProcState]]
         /\ SessSwept \in [Obj -> Session]
         /\ DirsSwept \subseteq Sid /\ OutputSwept \in [Sid -> SUBSET Obj]
         /\ StoppedSwept \subseteq Obj \X Role
<1> USE DEF IInv, TypeOK
<1>1. SessionsSwept \in [Sid -> Obj \cup {NoSession}] BY DEF SessionsSwept
<1>2. ProcSwept \in [Obj -> [Role -> ProcState]]
  <2>1. \A o \in Obj : Kill(o) \in [Role -> ProcState] BY DEF Kill, ProcState
  <2> QED BY <2>1 DEF ProcSwept
<1>3. SessSwept \in [Obj -> Session]
  <2>1. \A o \in Obj : [sess[o] EXCEPT !.stop = "expired"] \in Session
    BY FieldUpdates DEF Stop
  <2> QED BY <2>1 DEF SessSwept
<1>4. DirsSwept \subseteq Sid /\ OutputSwept \in [Sid -> SUBSET Obj]
  BY DEF DirsSwept, OutputSwept
<1>5. StoppedSwept \subseteq Obj \X Role
  BY ExpiringHasProcess DEF StoppedSwept
<1> QED BY <1>1, <1>2, <1>3, <1>4, <1>5

LEMMA SweptProcesses ==
  ASSUME IInv, NEW o \in Obj, NEW p \in Role
  PROVE  /\ ProcSwept[o][p] = IF o \in Expiring /\ p = sess[o].cmd /\ proc[o][p] = "running"
                               THEN "killed" ELSE proc[o][p]
         /\ <<o, p>> \in StoppedSwept <=>
              <<o, p>> \in stopped \/ (o \in Expiring /\ p = sess[o].cmd)
<1>1. proc[o] \in [Role -> ProcState] BY DEF IInv, TypeOK
<1>2. ProcSwept[o] = IF o \in Expiring THEN Kill(o) ELSE proc[o] BY DEF ProcSwept
<1>3. Kill(o)[p] = IF p = sess[o].cmd /\ proc[o][p] = "running" THEN "killed" ELSE proc[o][p]
  BY DEF Kill
<1>4. <<o, p>> \in StoppedSwept <=>
        <<o, p>> \in stopped \/ (o \in Expiring /\ p = sess[o].cmd)
  BY DEF StoppedSwept
<1> QED BY <1>2, <1>3, <1>4

(* The ids whose session a sweep removes.                                    *)
Evicted == {i \in Sid : sessions[i] \in Evicting}

LEMMA SweptIds ==
  ASSUME IInv, NEW i \in Sid
  PROVE  /\ i \notin Evicted => SessionsSwept[i] = sessions[i] /\ OutputSwept[i] = output[i]
         /\ i \in Evicted => /\ SessionsSwept[i] = NoSession /\ OutputSwept[i] = {}
                             /\ sessions[i] \in Obj
                             /\ \A p \in Role : proc[sessions[i]][p] \in {"none", "reaped"}
<1>1. i \in Evicted => sessions[i] \in Obj /\ ~Active(sessions[i])
  BY DEF Evicted, Evicting
<1> QED BY <1>1, InactiveIsQuiet DEF Evicted, SessionsSwept, OutputSwept

-----------------------------------------------------------------------------
(* The operations that begin with a sweep.                                   *)

(* A sweep's objects, some of them accessed or told to stop.                 *)
Marked(objects) ==
  /\ objects \in [Obj -> Session]
  /\ \A o \in Obj :
       /\ objects[o].id = sess[o].id /\ objects[o].force = sess[o].force
       /\ objects[o].started = sess[o].started /\ objects[o].done = sess[o].done
       /\ objects[o].copy = sess[o].copy /\ objects[o].cmd = sess[o].cmd
       /\ objects[o].src = sess[o].src
       /\ objects[o].stop = sess[o].stop \/ objects[o].stop # "none"
       /\ o \in Expiring => objects[o].stop # "none"

LEMMA SweptIsMarked == ASSUME IInv PROVE Marked(SessSwept)
<1>1. SessSwept \in [Obj -> Session] BY SweptValues
<1>2. sess \in [Obj -> Session] BY DEF IInv, TypeOK
<1>3. ASSUME NEW x \in Session
      PROVE  LET y == [x EXCEPT !.stop = "expired"] IN
             /\ y.id = x.id /\ y.force = x.force /\ y.started = x.started /\ y.done = x.done
             /\ y.copy = x.copy /\ y.cmd = x.cmd /\ y.src = x.src /\ y.stop = "expired"
  BY DEF Session
<1>4. \A o \in Obj : SessSwept[o] = IF o \in Expiring THEN [sess[o] EXCEPT !.stop = "expired"]
                                    ELSE sess[o]
  BY DEF SessSwept
<1>5. ASSUME NEW o \in Obj
      PROVE  LET y == SessSwept[o]  x == sess[o] IN
             /\ y.id = x.id /\ y.force = x.force /\ y.started = x.started /\ y.done = x.done
             /\ y.copy = x.copy /\ y.cmd = x.cmd /\ y.src = x.src
             /\ y.stop = IF o \in Expiring THEN "expired" ELSE x.stop
  <2>1. sess[o] \in Session BY <1>2
  <2>2. CASE o \in Expiring BY <1>3, <1>4, <2>1, <2>2
  <2>3. CASE o \notin Expiring BY <1>4, <2>3
  <2> QED BY <2>2, <2>3
<1> QED BY <1>1, <1>5 DEF Marked

LEMMA MarkedUpdates ==
  ASSUME NEW objects, Marked(objects), NEW o \in Obj
  PROVE  /\ Marked([objects EXCEPT ![o].fresh = TRUE])
         /\ Marked([objects EXCEPT ![o].stop = "replaced"])
<1>1. objects \in [Obj -> Session] BY DEF Marked
<1>2. ASSUME NEW x \in Session
      PROVE  LET y == [x EXCEPT !.fresh = TRUE] IN
             /\ y \in Session
             /\ y.id = x.id /\ y.force = x.force /\ y.started = x.started /\ y.done = x.done
             /\ y.copy = x.copy /\ y.cmd = x.cmd /\ y.src = x.src /\ y.stop = x.stop
  BY FieldUpdates DEF Session
<1>3. ASSUME NEW x \in Session
      PROVE  LET y == [x EXCEPT !.stop = "replaced"] IN
             /\ y \in Session
             /\ y.id = x.id /\ y.force = x.force /\ y.started = x.started /\ y.done = x.done
             /\ y.copy = x.copy /\ y.cmd = x.cmd /\ y.src = x.src /\ y.stop = "replaced"
  BY FieldUpdates DEF Session, Stop
<1>4. Marked([objects EXCEPT ![o].fresh = TRUE])
  <2> DEFINE new == [objects EXCEPT ![o].fresh = TRUE]
  <2>1. new \in [Obj -> Session] BY <1>1, <1>2
  <2>2. \A q \in Obj : new[q] = IF q = o THEN [objects[o] EXCEPT !.fresh = TRUE] ELSE objects[q]
    BY <1>1
  <2> QED BY <1>1, <1>2, <2>1, <2>2 DEF Marked
<1>5. Marked([objects EXCEPT ![o].stop = "replaced"])
  <2> DEFINE new == [objects EXCEPT ![o].stop = "replaced"]
  <2>1. new \in [Obj -> Session] BY <1>1, <1>3
  <2>2. \A q \in Obj : new[q] = IF q = o THEN [objects[o] EXCEPT !.stop = "replaced"] ELSE objects[q]
    BY <1>1
  <2> QED BY <1>1, <1>3, <2>1, <2>2 DEF Marked
<1> QED BY <1>4, <1>5

LEMMA SweepStep ==
  ASSUME IInv, RequestGoes, NEW objects, Marked(objects), SweepAround(objects),
         count' = count, wedged' \in Obj \cup {NoSession}, late' = late, lost' = lost
  PROVE  Sound
<1> USE DEF SweepAround
<1>1. PICK s \in Sid : TRUE BY TranscoderAssumption
<1>2. TurnoverTyped BY SweptValues DEF TurnoverTyped, Marked
<1>3. Kept BY DEF Kept, Marked
<1>4. Made = {} BY TranscoderAssumption DEF Made, IInv, TypeOK
<1>5. Makes(Evicted, s) BY <1>4 DEF Makes
<1>6. Halts(Expiring)
  <2>1. \A o \in Expiring : sess[o].cmd \in Role /\ sess'[o].stop # "none"
    BY ExpiringHasProcess DEF Marked
  <2> QED BY <2>1, SweptProcesses DEF Halts
<1>7. Leaves(Expiring, Evicted, s)
  <2>1. \A i \in Sid \ Evicted : sessions'[i] = sessions[i] /\ output'[i] = output[i]
    BY SweptIds
  <2>2. \A i \in Evicted : i \in Sid BY DEF Evicted
  <2>3. ASSUME NEW i \in Evicted
        PROVE  /\ sessions'[i] = NoSession /\ output'[i] \subseteq output[i]
               /\ \A p \in Role : proc[sessions[i]][p] \in {"none", "reaped"}
    BY <2>2, SweptIds
  <2> QED BY <2>1, <2>3 DEF Leaves
<1>8. Turnover(Expiring, Evicted, s)
  BY <1>2, <1>3, <1>5, <1>6, <1>7 DEF Turnover
<1>9. Expiring \in SUBSET Obj /\ Evicted \in SUBSET Sid BY DEF Expiring, Evicted
<1> QED BY <1>8, <1>9, TurnoverStep

LEMMA CountIsNat == IInv => count \in Nat /\ count <= count
BY TranscoderAssumption DEF IInv, TypeOK

LEMMA TickStep == ASSUME IInv, Tick PROVE Sound
<1>1. RequestGoes BY CountIsNat, RequestKept DEF Tick
<1>2. wedged' \in Obj \cup {NoSession} BY DEF Tick, IInv, TypeOK
<1> QED BY <1>1, <1>2, SweptIsMarked, SweepStep DEF Tick

LEMMA ReuseStep ==
  ASSUME IInv, NEW r \in Req, NEW s \in Sid, NEW w \in Want, Reuse(r, s, w)
  PROVE  Sound
<1>1. RequestGoes BY CountIsNat, RequestKept DEF Reuse
<1>2. wedged' \in Obj \cup {NoSession} BY DEF Reuse, IInv, TypeOK
<1>3. SessionsSwept[s] \in Obj BY SweptValues DEF Reuse
<1>4. Marked([SessSwept EXCEPT ![SessionsSwept[s]].fresh = TRUE])
  BY <1>3, SweptIsMarked, MarkedUpdates
<1> QED BY <1>1, <1>2, <1>4, SweepStep DEF Reuse

LEMMA RegisterPanicsStep ==
  ASSUME IInv, NEW r \in Req, NEW s \in Sid, NEW w \in Want, RegisterPanics(r, s, w)
  PROVE  Sound
<1>1. RequestGoes BY CountIsNat, RequestKept DEF RegisterPanics
<1>2. SessionsSwept[s] \in Obj BY SweptValues DEF RegisterPanics
<1>3. wedged' \in Obj \cup {NoSession} BY <1>2 DEF RegisterPanics
<1>4. Marked([SessSwept EXCEPT ![SessionsSwept[s]].stop = "replaced"])
  BY <1>2, SweptIsMarked, MarkedUpdates
<1> QED BY <1>1, <1>3, <1>4, SweepStep DEF RegisterPanics

(* A successful lookup: the request goes on with the object it found.        *)
LEMMA LookupStep ==
  ASSUME IInv, NEW r \in Req, NEW s \in Sid, NEW next \in Step, next \notin {"idle", "validating"},
         Lookup(r, s, next), UNCHANGED <<count, wedged, late, lost>>
  PROVE  Sound
<1> DEFINE o == SessionsSwept[s]
<1>1. o \in Obj BY SweptValues DEF Lookup
<1>2. o <= count
  <2>1. o = sessions[s] BY SweptIds DEF Lookup
  <2> QED BY <2>1 DEF IInv, MapInv, Lookup
<1>3. RequestGoes
  <2>1. RequestInv BY RequestInvHolds
  <2>2. o # NoSession BY DEF Lookup
  <2> QED BY <1>1, <1>2, <2>1, <2>2 DEF RequestGoes, RequestInv, Lookup
<1>4. wedged' \in Obj \cup {NoSession} BY DEF IInv, TypeOK
<1>5. Marked([SessSwept EXCEPT ![o].fresh = TRUE])
  BY <1>1, SweptIsMarked, MarkedUpdates
<1> QED BY <1>3, <1>4, <1>5, SweepStep DEF Lookup

LEMMA NotFoundStep ==
  ASSUME IInv, NEW r \in Req, NEW s \in Sid, NotFound(r, s),
         UNCHANGED <<count, wedged, late, lost>>
  PROVE  Sound
<1>1. RequestGoes BY GotoIdle DEF NotFound
<1>2. wedged' \in Obj \cup {NoSession} BY DEF IInv, TypeOK
<1> QED BY <1>1, <1>2, SweptIsMarked, SweepStep DEF NotFound

LEMMA LooksStep == ASSUME IInv, NEW r \in Req, Looks(r) PROVE Sound
<1>0. wedged' \in Obj \cup {NoSession} BY DEF IInv, TypeOK, Looks
<1>1. CASE \E s \in Sid : StartLooksUp(r, s)
  <2>1. PICK s \in Sid : StartLooksUp(r, s) BY <1>1
  <2> QED BY <2>1, LookupStep, NotFoundStep DEF StartLooksUp, Looks, Step
<1>2. CASE \E s \in Sid : Fetch(r, s)
  <2>1. PICK s \in Sid : Fetch(r, s) BY <1>2
  <2> QED BY <2>1, LookupStep, NotFoundStep DEF Fetch, Looks, Step
<1>3. CASE FetchPath(r)
  <2> DEFINE o == SessionsSwept[sess[obj[r]].id]
  <2>1. obj[r] \in Obj
    <3>1. RequestInv BY RequestInvHolds
    <3> QED BY <1>3, <3>1 DEF FetchPath, RequestInv
  <2>2. o \in Obj
    <3>1. sess[obj[r]].id \in Sid BY <2>1 DEF IInv, TypeOK, Session
    <3> QED BY <1>3, <3>1, SweptValues DEF FetchPath
  <2>3. RequestGoes
    <3>1. pc[r] # "idle" /\ count' = count BY <1>3 DEF FetchPath, Looks
    <3>2. Goto(r, "idle") \/ Goto(r, "waiting") \/ Goto(r, "restarting")
      BY <1>3 DEF FetchPath
    <3> QED BY <3>1, <3>2, GotoStep DEF Step
  <2>4. Marked([SessSwept EXCEPT ![o].fresh = TRUE])
    BY <2>2, SweptIsMarked, MarkedUpdates
  <2> QED BY <1>0, <1>3, <2>3, <2>4, SweepStep DEF FetchPath, Looks
<1>4. CASE FetchLosesSession(r)
  <2>1. sess[obj[r]].id \in Sid
    <3>1. RequestInv BY RequestInvHolds
    <3>2. obj[r] \in Obj BY <1>4, <3>1 DEF FetchLosesSession, RequestInv
    <3> QED BY <3>2 DEF IInv, TypeOK, Session
  <2> QED BY <1>4, <2>1, NotFoundStep DEF FetchLosesSession, Looks
<1>5. CASE Touch(r)
  <2> DEFINE o == SessionsSwept[sess[obj[r]].id]
             X == IF o = NoSession THEN SessSwept ELSE [SessSwept EXCEPT ![o].fresh = TRUE]
  <2>1. sess[obj[r]].id \in Sid
    <3>1. RequestInv BY RequestInvHolds
    <3>2. obj[r] \in Obj BY <1>5, <3>1 DEF Touch, RequestInv
    <3> QED BY <3>2 DEF IInv, TypeOK, Session
  <2>2. Marked(X)
    <3>1. o # NoSession => o \in Obj BY <2>1, SweptValues
    <3> QED BY <3>1, SweptIsMarked, MarkedUpdates
  <2>3. RequestGoes BY <1>5, GotoIdle DEF Touch, Looks
  <2>4. SweepAround(X) BY <1>5 DEF Touch
  <2> QED BY <1>0, <2>2, <2>3, <2>4, SweepStep DEF Looks
<1> QED BY <1>1, <1>2, <1>3, <1>4, <1>5 DEF Looks

-----------------------------------------------------------------------------
(* A registration that takes an id over.                                     *)

(* The objects it tells to stop: the expiring ones and the one it replaces.  *)
Halting(s) == Expiring \cup IF Replaced(SessionsSwept[s]) THEN {SessionsSwept[s]} ELSE {}
Going(s) == Evicted \cup {s}

LEMMA TakeoverProcesses ==
  ASSUME IInv, NEW r \in Req, NEW s \in Sid, NEW w \in Want, Takeover(r, s, w)
  PROVE  /\ \A o \in Halting(s) : o \in Obj /\ sess[o].cmd \in Role
         /\ proc' \in [Obj -> [Role -> ProcState]] /\ stopped' \subseteq Obj \X Role
         /\ \A o \in Obj, p \in Role :
              /\ proc'[o][p] = IF o \in Halting(s) /\ p = sess[o].cmd /\ proc[o][p] = "running"
                               THEN "killed" ELSE proc[o][p]
              /\ <<o, p>> \in stopped' <=>
                   <<o, p>> \in stopped \/ (o \in Halting(s) /\ p = sess[o].cmd)
         /\ sessions[s] # NoSession =>
              \/ sessions[s] \in Halting(s)
              \/ \A p \in Role : proc[sessions[s]][p] \in {"none", "reaped"}
<1> DEFINE x == SessionsSwept[s]
<1>1. x \in Obj \cup {NoSession} /\ ProcSwept \in [Obj -> [Role -> ProcState]]
  /\ StoppedSwept \subseteq Obj \X Role
  BY SweptValues
<1>2. Replaced(x) => x \in Obj /\ sess[x].cmd \in Role
  <2>1. Replaced(x) => x \in Obj /\ sess[x].cmd # "nil" /\ sess[x].cmd # "unstarted"
    BY <1>1 DEF Replaced, Takeover
  <2>2. \A o \in Obj : sess[o].cmd \in {"nil", "unstarted"} \cup Role
    BY DEF IInv, TypeOK, Session
  <2> QED BY <2>1, <2>2
<1>3. \A o \in Halting(s) : o \in Obj /\ sess[o].cmd \in Role
  BY <1>2, ExpiringHasProcess DEF Halting
<1>4. \A o \in Obj, p \in Role :
        Kill(o)[p] = IF p = sess[o].cmd /\ proc[o][p] = "running" THEN "killed" ELSE proc[o][p]
  BY DEF Kill
<1>5. ASSUME NEW o \in Obj, NEW p \in Role
      PROVE  proc'[o][p] = IF o \in Halting(s) /\ p = sess[o].cmd /\ proc[o][p] = "running"
                           THEN "killed" ELSE proc[o][p]
  <2>1. CASE Replaced(x) /\ o = x
    <3>1. proc'[o][p] = Kill(o)[p] BY <1>1, <1>2, <2>1 DEF Takeover, ProcReplaced
    <3> QED BY <1>4, <2>1, <3>1 DEF Halting
  <2>2. CASE ~(Replaced(x) /\ o = x)
    <3>1. proc'[o] = ProcSwept[o] BY <1>1, <2>2 DEF Takeover, ProcReplaced
    <3>2. o \in Halting(s) <=> o \in Expiring BY <2>2 DEF Halting
    <3> QED BY <3>1, <3>2, SweptProcesses
  <2> QED BY <2>1, <2>2
<1>6. ASSUME NEW o \in Obj, NEW p \in Role
      PROVE  <<o, p>> \in stopped' <=>
               <<o, p>> \in stopped \/ (o \in Halting(s) /\ p = sess[o].cmd)
  BY SweptProcesses DEF Takeover, StoppedReplaced, Halting
<1>7. proc' \in [Obj -> [Role -> ProcState]]
  <2>1. \A o \in Obj : Kill(o) \in [Role -> ProcState] BY DEF Kill, ProcState, IInv, TypeOK
  <2> QED BY <1>1, <1>2, <2>1 DEF Takeover, ProcReplaced
<1>8. stopped' \subseteq Obj \X Role
  BY <1>1, <1>2 DEF Takeover, StoppedReplaced
<1>9. ASSUME sessions[s] # NoSession, NEW p \in Role, sessions[s] \notin Halting(s)
      PROVE  proc[sessions[s]][p] \in {"none", "reaped"}
  <2>1. CASE s \in Evicted
    BY <2>1, SweptIds
  <2>2. CASE s \notin Evicted
    <3>1. x = sessions[s] /\ x \in Obj BY <1>1, <1>9, <2>2, SweptIds
    <3>2. ~Replaced(x) BY <1>9, <3>1 DEF Halting
    <3>3. sess[x].cmd = "nil" \/ sess[x].done BY <1>9, <3>1, <3>2 DEF Replaced
    <3>4. ~Active(x) \/ sess[x].cmd \notin Role BY <3>3 DEF Active, Role
    <3> QED BY <3>1, <3>4, InactiveIsQuiet
  <2> QED BY <2>1, <2>2
<1> QED BY <1>3, <1>5, <1>6, <1>7, <1>8, <1>9

LEMMA ReplacedIsMarked ==
  ASSUME IInv, NEW s \in Sid
  PROVE  LET objects == SessReplaced(SessionsSwept[s]) IN
         Marked(objects) /\ \A o \in Halting(s) : o \in Obj => objects[o].stop # "none"
<1> DEFINE x == SessionsSwept[s]
<1>1. Marked(SessSwept) BY SweptIsMarked
<1>2. CASE Replaced(x)
  <2>1. x \in Obj BY <1>2, SweptValues DEF Replaced
  <2>2. Marked([SessSwept EXCEPT ![x].stop = "replaced"]) BY <1>1, <2>1, MarkedUpdates
  <2>3. [SessSwept EXCEPT ![x].stop = "replaced"][x].stop = "replaced"
    BY <2>1, SweptValues DEF Session
  <2> QED BY <1>2, <2>2, <2>3 DEF Halting, SessReplaced, Marked
<1>3. CASE ~Replaced(x)
  BY <1>1, <1>3 DEF Halting, SessReplaced, Marked
<1> QED BY <1>2, <1>3

LEMMA RegisterFailsStep ==
  ASSUME IInv, NEW r \in Req, NEW s \in Sid, NEW w \in Want, RegisterFails(r, s, w)
  PROVE  Sound
<1> DEFINE objects == SessReplaced(SessionsSwept[s])
<1>1. Takeover(r, s, w) /\ count' = count /\ sess' = objects BY DEF RegisterFails
<1>2. Marked(objects) /\ \A o \in Halting(s) : o \in Obj => objects[o].stop # "none"
  BY ReplacedIsMarked
<1>3. RequestGoes BY CountIsNat, RequestKept DEF RegisterFails
<1>4. Made = {} BY <1>1, TranscoderAssumption DEF Made, IInv, TypeOK
<1>5. Halting(s) \in SUBSET Obj /\ Halts(Halting(s))
  BY <1>1, <1>2, TakeoverProcesses DEF Halts
<1>6. /\ \A i \in Sid : output'[i] = OutputSwept[i] \/ (i = s /\ output'[i] = {})
      /\ output' \in [Sid -> SUBSET Obj] /\ dirs' \subseteq Sid
  BY SweptValues DEF RegisterFails, Cleared
<1>7. TurnoverTyped
  <2>1. sess' \in [Obj -> Session] BY <1>1, <1>2 DEF Marked
  <2>2. sessions' \in [Sid -> Obj \cup {NoSession}] BY SweptValues DEF RegisterFails
  <2>3. wedged' \in Obj \cup {NoSession} BY DEF RegisterFails, IInv, TypeOK
  <2> QED BY <1>1, <1>6, <2>1, <2>2, <2>3, TakeoverProcesses DEF TurnoverTyped
<1>8. Kept BY <1>1, <1>2 DEF Kept, Marked
<1>9. Makes(Going(s), s) BY <1>1, <1>4 DEF Makes
<1>10. Leaves(Halting(s), Going(s), s)
  <2>1. \A i \in Sid : sessions'[i] = IF i = s THEN NoSession ELSE SessionsSwept[i]
    BY SweptValues DEF RegisterFails
  <2>2. ASSUME NEW i \in Sid \ Going(s)
        PROVE  sessions'[i] = sessions[i] /\ output'[i] = output[i]
    <3>1. i \notin Evicted /\ i # s BY DEF Going
    <3> QED BY <1>6, <2>1, <3>1, SweptIds
  <2>3. ASSUME NEW i \in Going(s)
        PROVE  /\ sessions'[i] = NoSession /\ output'[i] \subseteq output[i]
               /\ sessions[i] # NoSession =>
                    \/ sessions[i] \in Halting(s)
                    \/ \A p \in Role : proc[sessions[i]][p] \in {"none", "reaped"}
    <3>1. i \in Sid /\ (i = s \/ i \in Evicted) BY DEF Going, Evicted
    <3>2. OutputSwept[i] \subseteq output[i] BY <3>1, SweptIds
    <3>3. output'[i] \subseteq output[i] BY <1>6, <3>1, <3>2
    <3>4. i # s => SessionsSwept[i] = NoSession BY <3>1, SweptIds
    <3> QED BY <1>1, <2>1, <3>1, <3>3, <3>4, SweptIds, TakeoverProcesses
  <2> QED BY <2>2, <2>3 DEF Leaves
<1>11. Turnover(Halting(s), Going(s), s)
  BY <1>5, <1>7, <1>8, <1>9, <1>10 DEF Turnover, RegisterFails
<1>12. Going(s) \in SUBSET Sid BY DEF Going, Evicted
<1> QED BY <1>3, <1>5, <1>11, <1>12, TurnoverStep

LEMMA RegisterStep ==
  ASSUME IInv, NEW r \in Req, NEW s \in Sid, NEW w \in Want, Register(r, s, w)
  PROVE  Sound
<1> DEFINE objects == SessReplaced(SessionsSwept[s])
           new == count + 1
           n == NewSession(s, w)
<1>1. /\ Takeover(r, s, w) /\ count' = new /\ new \in Obj
      /\ sess' = [objects EXCEPT ![new] = n]
      /\ sessions' = [SessionsSwept EXCEPT ![s] = new]
      /\ output' = Cleared(s) /\ dirs' = DirsSwept \cup {s}
      /\ UNCHANGED <<pc, obj, wedged, late, lost>>
  BY DEF Register
<1>2. Marked(objects) /\ \A o \in Halting(s) : o \in Obj => objects[o].stop # "none"
  BY ReplacedIsMarked
<1>3. RequestGoes BY <1>1, CountIsNat, RequestKept
<1>4. /\ \A o : o \in Made <=> o = new
      /\ sess[new].cmd = "nil"
  <2>1. count \in Nat /\ new > count BY CountIsNat
  <2>2. sess[new].cmd = "nil" BY <1>1, <2>1 DEF IInv, UnmadeInv
  <2> QED BY <1>1, <2>1, <2>2 DEF Made
<1>5. n \in Session /\ n.id = s /\ n.cmd = "nil" /\ ~n.copy /\ ~n.started /\ ~n.done
  <2>1. w.src \in Source /\ w.force \in BOOLEAN BY TranscoderAssumption DEF Want
  <2> QED BY <2>1 DEF NewSession, Session, Stop
<1>6. /\ sess' \in [Obj -> Session] /\ sess'[new] = n
      /\ \A o \in Obj : o # new => sess'[o] = objects[o]
  BY <1>1, <1>2, <1>5 DEF Marked
<1>7. Halting(s) \in SUBSET Obj /\ Halts(Halting(s))
  <2>1. \A o \in Halting(s) : o \in Obj /\ sess[o].cmd \in Role BY <1>1, TakeoverProcesses
  <2>2. \A o \in Halting(s) : o # new BY <1>4, <2>1 DEF Role
  <2>3. \A o \in Halting(s) : sess'[o].stop # "none" BY <1>2, <1>6, <2>1, <2>2
  <2> QED BY <1>1, <2>1, <2>3, TakeoverProcesses DEF Halts
<1>8. /\ \A i \in Sid : output'[i] = IF i = s THEN {} ELSE OutputSwept[i]
      /\ output' \in [Sid -> SUBSET Obj] /\ dirs' \subseteq Sid
  BY <1>1, SweptValues DEF Cleared
<1>9. TurnoverTyped
  <2>1. sessions' \in [Sid -> Obj \cup {NoSession}] BY <1>1, SweptValues
  <2>2. wedged' \in Obj \cup {NoSession} BY <1>1 DEF IInv, TypeOK
  <2> QED BY <1>1, <1>6, <1>8, <2>1, <2>2, TakeoverProcesses DEF TurnoverTyped
<1>10. Kept BY <1>2, <1>4, <1>6 DEF Kept, Marked
<1>11. Makes(Going(s), s)
  BY <1>1, <1>4, <1>5, <1>6, <1>8 DEF Makes, Going
<1>12. Leaves(Halting(s), Going(s), s)
  <2>1. \A i \in Sid : sessions'[i] = IF i = s THEN new ELSE SessionsSwept[i]
    BY <1>1, SweptValues
  <2>2. ASSUME NEW i \in Sid \ Going(s)
        PROVE  sessions'[i] = sessions[i] /\ output'[i] = output[i]
    <3>1. i \notin Evicted /\ i # s BY DEF Going
    <3> QED BY <1>8, <2>1, <3>1, SweptIds
  <2>3. ASSUME NEW i \in Going(s)
        PROVE  /\ \/ sessions'[i] = NoSession
                  \/ i = s /\ sessions'[i] = count + 1 /\ count' = count + 1
               /\ output'[i] \subseteq output[i]
               /\ sessions[i] # NoSession =>
                    \/ sessions[i] \in Halting(s)
                    \/ \A p \in Role : proc[sessions[i]][p] \in {"none", "reaped"}
    <3>1. i \in Sid /\ (i = s \/ i \in Evicted) BY DEF Going, Evicted
    <3>2. OutputSwept[i] \subseteq output[i] BY <3>1, SweptIds
    <3>3. output'[i] \subseteq output[i] BY <1>8, <3>1, <3>2
    <3>4. i # s => SessionsSwept[i] = NoSession BY <3>1, SweptIds
    <3> QED BY <1>1, <2>1, <3>1, <3>3, <3>4, SweptIds, TakeoverProcesses
  <2> QED BY <2>2, <2>3 DEF Leaves
<1>13. Turnover(Halting(s), Going(s), s)
  BY <1>1, <1>7, <1>9, <1>10, <1>11, <1>12 DEF Turnover
<1>14. Going(s) \in SUBSET Sid BY DEF Going, Evicted
<1> QED BY <1>3, <1>7, <1>13, <1>14, TurnoverStep

-----------------------------------------------------------------------------
(* Steps of one object: its record and its processes change, nothing else of *)
(* the transcoder does.                                                      *)

(* The parts of the invariant that speak of one object alone.                *)
OwnInv(o) ==
  /\ CmdInv!(o) /\ StopInv!(o)
  /\ \A p \in Role :
       ~Registered(o) /\ proc[o][p] \notin {"none", "reaped"} =>
         o \in late \/ (proc[o][p] # "running" /\ sess[o].stop # "none")

LEMMA OwnInvs ==
  (\A o \in Obj : OwnInv(o)) <=> CmdInv /\ StopInv /\ UnregisteredInv
BY DEF OwnInv, CmdInv, StopInv, UnregisteredInv

LEMMA OwnStep ==
  ASSUME IInv, RequestGoes, NEW o \in Obj, o <= count, NEW x \in Session,
         NEW y \in [Role -> ProcState], x.id = sess[o].id,
         sess' = [sess EXCEPT ![o] = x], proc' = [proc EXCEPT ![o] = y],
         UNCHANGED <<sessions, dirs, output, count, wedged, stopped>>,
         late \subseteq late', late' \subseteq Obj, lost \subseteq lost', lost' \subseteq Obj,
         OwnInv(o)',
         \A r \in Req : pc'[r] = "validating" /\ obj'[r] = o =>
                          x.started = sess[o].started /\ x.src = sess[o].src,
         sess[o].done => x.done /\ y = proc[o]
  PROVE  Sound
<1> USE DEF IInv
<1>1. /\ \A q \in Obj : q # o => sess'[q] = sess[q] /\ proc'[q] = proc[q]
      /\ sess'[o] = x /\ sess' \in [Obj -> Session] /\ proc' \in [Obj -> [Role -> ProcState]]
  BY DEF TypeOK
<1>2. \A q \in Obj : sess'[q].id = sess[q].id BY <1>1
<1>3. TypeOK' BY <1>1 DEF TypeOK, RequestInv, RequestGoes
<1>4. MapInv'
  <2>1. \A s \in Sid : sessions[s] # NoSession => sessions[s] \in Obj BY DEF TypeOK
  <2> QED BY <1>2, <2>1 DEF MapInv
<1>5. UnmadeInv'
  <2>1. \A q \in Obj : q > count => q # o BY CountIsNat DEF Obj
  <2> QED BY <1>1, <2>1 DEF UnmadeInv, RequestInv, RequestGoes
<1>6. \A q \in Obj : OwnInv(q)'
  <2>1. ASSUME NEW q \in Obj, q # o PROVE OwnInv(q)'
    <3>1. OwnInv(q) BY OwnInvs
    <3> QED BY <1>1, <2>1, <3>1 DEF OwnInv, Registered, Active
  <2> QED BY <2>1
<1>7. (CmdInv /\ StopInv /\ UnregisteredInv)'
  <2>1. CmdInv' BY <1>6 DEF OwnInv, CmdInv
  <2>2. StopInv' BY <1>6 DEF OwnInv, StopInv
  <2>3. UnregisteredInv' BY <1>6 DEF OwnInv, UnregisteredInv
  <2> QED BY <2>1, <2>2, <2>3
<1>8. OutputInv'
  <2>1. \A s \in Sid : output[s] \subseteq Obj BY DEF TypeOK
  <2> QED BY <1>2, <2>1 DEF OutputInv, OutputIsOwn
<1>9. ValidatingInv'
  <2>1. ASSUME NEW r \in Req, pc'[r] = "validating"
        PROVE  ~sess'[obj'[r]].started /\ sess'[obj'[r]].src \notin Proxied
    <3>1. pc[r] = "validating" /\ obj'[r] = obj[r] BY <2>1 DEF RequestGoes
    <3>2. obj[r] \in Obj BY <3>1 DEF TypeOK
    <3> QED BY <1>1, <2>1, <3>1, <3>2 DEF ValidatingInv
  <2> QED BY <2>1 DEF ValidatingInv, RequestGoes, RequestInv
<1>10. DoneStays BY <1>1 DEF DoneStays
<1> QED BY <1>3, <1>4, <1>5, <1>7, <1>8, <1>9, <1>10 DEF Sound

LEMMA MadeObjects ==
  ASSUME IInv, NEW o \in Obj,
         Registered(o) \/ sess[o].cmd # "nil" \/ \E p \in Role : proc[o][p] # "none"
  PROVE  o <= count
<1>1. o <= count \/ o > count BY CountIsNat, TranscoderAssumption DEF Obj
<1>2. o > count => ~Registered(o)
  <2>1. sess[o].id \in Sid BY DEF IInv, TypeOK, Session
  <2>2. Registered(o) => o <= count BY <2>1 DEF IInv, MapInv, Registered, Obj, NoSession
  <2> QED BY <2>2, CountIsNat, TranscoderAssumption DEF Obj
<1> QED BY <1>1, <1>2 DEF IInv, UnmadeInv

(* The object of a request that is under way.                                *)
LEMMA HeldObject ==
  ASSUME IInv, NEW r \in Req, pc[r] # "idle"
  PROVE  obj[r] \in Obj /\ obj[r] <= count /\ sess[obj[r]] \in Session
BY DEF IInv, TypeOK, UnmadeInv

LEMMA GrowIdleStep == ASSUME IInv, NEW o \in Obj, GrowIdle(o) PROVE Sound
<1> DEFINE x == [sess[o] EXCEPT !.fresh = FALSE]
<1>1. sess[o] \in Session /\ proc[o] \in [Role -> ProcState] BY DEF IInv, TypeOK
<1>2. /\ x \in Session /\ x.id = sess[o].id /\ x.force = sess[o].force
      /\ x.started = sess[o].started /\ x.done = sess[o].done /\ x.copy = sess[o].copy
      /\ x.cmd = sess[o].cmd /\ x.stop = sess[o].stop /\ x.src = sess[o].src
  BY <1>1, FieldUpdates DEF Session
<1>3. RequestGoes BY CountIsNat, RequestKept DEF GrowIdle
<1>4. o <= count BY MadeObjects DEF GrowIdle
<1>5. sess' = [sess EXCEPT ![o] = x] /\ proc' = [proc EXCEPT ![o] = proc[o]]
  BY DEF GrowIdle, IInv, TypeOK
<1>6. sess'[o] = x /\ proc' = proc BY <1>5 DEF GrowIdle, IInv, TypeOK
<1>7. OwnInv(o)'
  <2>1. OwnInv(o) BY OwnInvs DEF IInv
  <2> QED BY <1>2, <1>6, <2>1 DEF OwnInv, GrowIdle, Registered, Active, history
<1> QED BY <1>1, <1>2, <1>3, <1>4, <1>5, <1>7, OwnStep DEF GrowIdle, history, files, IInv, TypeOK

(* exec.Cmd.Start, for an object that no other request is validating.        *)
LEMMA LaunchStep ==
  ASSUME IInv, NEW r \in Req, pc[r] # "idle", NEW rec \in Session,
         LET o == obj[r] IN
           /\ ~sess[o].started
           /\ rec.id = sess[o].id /\ rec.force = sess[o].force /\ rec.started = sess[o].started
           /\ rec.done = sess[o].done
           /\ \A q \in Req : pc[q] = "validating" /\ obj[q] = o => q = r,
         Launch(r, rec), UNCHANGED <<sessions, files, count, wedged, lost, stopped>>
  PROVE  Sound
<1>0. obj[r] \in Obj BY HeldObject
<1> SUFFICES ASSUME NEW o \in Obj, o = obj[r] PROVE Sound
  BY <1>0
<1> DEFINE a == Attempt(rec)
           x == [a EXCEPT !.cmd = "first", !.started = TRUE]
           z == [a EXCEPT !.cmd = "unstarted"]
           y == [proc[o] EXCEPT !["first"] = "running"]
<1>1. o \in Obj /\ o <= count /\ sess[o] \in Session BY HeldObject
<1>2. /\ a \in Session /\ a.id = rec.id /\ a.force = rec.force /\ a.started = rec.started
      /\ a.done = rec.done /\ (a.force => ~a.copy)
  BY TranscoderAssumption DEF Attempt, Session
<1>3. /\ x \in Session /\ x.id = a.id /\ x.force = a.force /\ x.copy = a.copy
      /\ x.done = a.done /\ x.cmd = "first" /\ x.started
      /\ z \in Session /\ z.id = a.id /\ z.force = a.force /\ z.copy = a.copy
      /\ z.done = a.done /\ z.cmd = "unstarted" /\ z.started = a.started
  <2>1. ASSUME NEW u \in Session
        PROVE  /\ [u EXCEPT !.cmd = "first", !.started = TRUE] \in Session
               /\ [u EXCEPT !.cmd = "unstarted"] \in Session
    BY DEF Session, Role
  <2> QED BY <1>2, <2>1 DEF Session
<1>4. /\ sess[o].cmd \notin Role /\ ~sess[o].done
      /\ proc[o] = [p \in Role |-> "none"]
      /\ <<o, "first">> \notin stopped /\ OwnInv(o)
  <2>1. OwnInv(o) BY <1>1, OwnInvs DEF IInv
  <2>2. sess[o].cmd \notin Role /\ ~sess[o].done /\ \A p \in Role : proc[o][p] = "none"
    BY <1>1, <2>1 DEF OwnInv
  <2>3. proc[o] \in [Role -> ProcState] BY <1>1 DEF IInv, TypeOK
  <2>4. <<o, "first">> \notin stopped BY <2>1, <2>2 DEF OwnInv, Role
  <2> QED BY <2>1, <2>2, <2>3, <2>4
<1>5. pc'[r] # "validating" /\ RequestGoes
  <2>1. PICK next \in Step : Goto(r, next) /\ next # "validating"
    BY DEF Launch, ManifestStep, Step
  <2>2. pc'[r] = next BY <2>1 DEF Goto, IInv, TypeOK
  <2> QED BY <2>1, <2>2, GotoStep
<1>6. \A q \in Req : ~(pc'[q] = "validating" /\ obj'[q] = o)
  BY <1>5 DEF RequestGoes
<1>7. UNCHANGED <<sessions, dirs, output, count, wedged, lost, stopped>> BY DEF files
<1>8. lost \subseteq Obj /\ late \subseteq Obj /\ proc \in [Obj -> [Role -> ProcState]]
  BY DEF IInv, TypeOK
<1> HIDE DEF a, x, z
<1>9. CASE /\ sess' = [sess EXCEPT ![o] = x] /\ proc' = [proc EXCEPT ![o]["first"] = "running"]
           /\ late' = IF Registered(o) THEN late ELSE late \cup {o}
  <2>1. proc' = [proc EXCEPT ![o] = y] /\ y \in [Role -> ProcState]
    BY <1>1, <1>8, <1>9 DEF Role, ProcState
  <2>2. sess'[o] = x /\ proc'[o] = y BY <1>1, <1>9, <2>1 DEF IInv, TypeOK
  <2>3. y["first"] = "running" /\ y["fallback"] = "none" BY <1>4 DEF Role
  <2>4. Registered(o)' <=> Registered(o) BY <1>2, <1>3, <1>7, <2>2 DEF Registered
  <2>5. OwnInv(o)'
    BY <1>2, <1>3, <1>4, <1>7, <1>9, <2>2, <2>3, <2>4 DEF OwnInv, Active, Role
  <2> QED BY <1>1, <1>2, <1>3, <1>4, <1>5, <1>6, <1>7, <1>8, <1>9, <2>1, <2>5, OwnStep
<1>10. CASE sess' = [sess EXCEPT ![o] = z] /\ UNCHANGED <<proc, late>>
  <2>1. proc' = [proc EXCEPT ![o] = proc[o]] /\ proc[o] \in [Role -> ProcState]
    BY <1>1, <1>8, <1>10
  <2>2. sess'[o] = z /\ proc'[o] = proc[o] BY <1>1, <1>10 DEF IInv, TypeOK
  <2>3. OwnInv(o)'
    BY <1>2, <1>3, <1>4, <1>7, <1>10, <2>2 DEF OwnInv, Active, Role
  <2> QED BY <1>1, <1>2, <1>3, <1>4, <1>5, <1>6, <1>7, <1>8, <1>10, <2>1, <2>3, OwnStep
<1> QED BY <1>9, <1>10 DEF Launch, a, x, z

LEMMA StartProxiedStep == ASSUME IInv, NEW r \in Req, StartProxied(r) PROVE Sound
<1>1. obj[r] \in Obj /\ sess[obj[r]] \in Session /\ pc[r] # "idle"
  BY HeldObject DEF StartProxied
<1>2. ~sess[obj[r]].started BY DEF StartProxied, MayStart
<1>3. \A q \in Req : ~(pc[q] = "validating" /\ obj[q] = obj[r]) BY DEF StartProxied, Locked
<1> QED BY <1>1, <1>2, <1>3, LaunchStep DEF StartProxied

LEMMA ValidationEndsStep == ASSUME IInv, NEW r \in Req, ValidationEnds(r) PROVE Sound
<1>0. pc[r] = "validating" /\ obj[r] \in Obj BY HeldObject DEF ValidationEnds
<1> SUFFICES ASSUME NEW o \in Obj, o = obj[r] PROVE Sound
  BY <1>0
<1>1. o <= count /\ sess[o] \in Session BY <1>0, HeldObject
<1>2. /\ ~sess[o].started /\ sess[o].src \in Source \ Proxied
      /\ \A q \in Req : pc[q] = "validating" /\ obj[q] = o => q = r
  BY <1>0, <1>1 DEF IInv, ValidatingInv, Session
<1>3. PICK known \in BOOLEAN :
        \/ Launch(r, ValidRecord(o, known))
        \/ /\ sess' = [sess EXCEPT ![o] = ValidRecord(o, TRUE)]
           /\ Goto(r, "idle") /\ UNCHANGED <<proc, late>>
  BY DEF ValidationEnds
<1>4. \A k \in BOOLEAN :
        LET x == ValidRecord(o, k) IN
        /\ x \in Session /\ x.id = sess[o].id /\ x.force = sess[o].force
        /\ x.started = sess[o].started /\ x.done = sess[o].done /\ x.copy = sess[o].copy
        /\ x.cmd = sess[o].cmd /\ x.stop = sess[o].stop
  <2>1. Validated[sess[o].src] \in Source BY <1>2, TranscoderAssumption
  <2>2. ASSUME NEW u \in Session, NEW v \in Source, NEW k \in BOOLEAN
        PROVE  LET x == [u EXCEPT !.src = v, !.vod = @ \/ k] IN
               /\ x \in Session /\ x.id = u.id /\ x.force = u.force
               /\ x.started = u.started /\ x.done = u.done /\ x.copy = u.copy
               /\ x.cmd = u.cmd /\ x.stop = u.stop
    <3>1. (u.vod \/ k) \in BOOLEAN BY DEF Session
    <3> QED BY <3>1 DEF Session
  <2> QED BY <1>1, <2>1, <2>2 DEF ValidRecord
<1>5. CASE Launch(r, ValidRecord(o, known))
  BY <1>0, <1>2, <1>4, <1>5, LaunchStep DEF ValidationEnds
<1>6. CASE /\ sess' = [sess EXCEPT ![o] = ValidRecord(o, TRUE)]
           /\ Goto(r, "idle") /\ UNCHANGED <<proc, late>>
  <2> DEFINE x == ValidRecord(o, TRUE)
  <2>1. x \in Session /\ x.id = sess[o].id BY <1>4
  <2>2. proc' = [proc EXCEPT ![o] = proc[o]] /\ proc[o] \in [Role -> ProcState]
    BY <1>6 DEF IInv, TypeOK
  <2>3. sess'[o] = x /\ proc'[o] = proc[o] BY <1>6 DEF IInv, TypeOK
  <2>4. OwnInv(o)'
    <3>1. OwnInv(o) BY OwnInvs DEF IInv
    <3> HIDE DEF x
    <3>2. /\ x.force = sess[o].force /\ x.started = sess[o].started /\ x.done = sess[o].done
          /\ x.copy = sess[o].copy /\ x.cmd = sess[o].cmd /\ x.stop = sess[o].stop
      BY <1>4 DEF x
    <3>3. UNCHANGED <<sessions, stopped, late, lost>> BY <1>6 DEF ValidationEnds
    <3>4. Registered(o)' <=> Registered(o) BY <2>1, <2>3, <3>3 DEF Registered
    <3>5. CmdInv!(o)' /\ StopInv!(o)' BY <2>3, <3>1, <3>2, <3>3 DEF OwnInv, Active
    <3> QED BY <2>3, <3>1, <3>2, <3>3, <3>4, <3>5 DEF OwnInv
  <2>5. pc'[r] = "idle" /\ RequestGoes
    BY <1>6, GotoIdle DEF ValidationEnds, Goto, IInv, TypeOK
  <2>6. \A q \in Req : ~(pc'[q] = "validating" /\ obj'[q] = o)
    BY <1>2, <2>5 DEF RequestGoes
  <2>7. ~sess[o].done
    <3>1. OwnInv(o) BY OwnInvs DEF IInv
    <3> QED BY <1>2, <3>1 DEF OwnInv
  <2> QED BY <1>1, <1>6, <2>1, <2>2, <2>4, <2>5, <2>6, <2>7, OwnStep
          DEF ValidationEnds, files, IInv, TypeOK
<1> QED BY <1>3, <1>5, <1>6

LEMMA MovesStep == ASSUME IInv, NEW r \in Req, Moves(r) PROVE Sound
<1>1. CASE StartDirect(r)
  <2>1. /\ obj[r] \in Obj /\ obj'[r] = obj[r] /\ pc'[r] = "validating"
        /\ \A q \in Req : q # r => pc'[q] = pc[q] /\ obj'[q] = obj[q]
    BY <1>1, HeldObject DEF StartDirect, Goto, IInv, TypeOK
  <2>2. ~sess[obj[r]].started /\ sess[obj[r]].src \notin Proxied
    BY <1>1 DEF StartDirect, MayStart
  <2>3. \A q \in Req : ~(pc[q] = "validating" /\ obj[q] = obj[r])
    BY <1>1 DEF StartDirect, Locked
  <2>4. ValidatingInv'
    BY <2>1, <2>2, <2>3 DEF Moves, IInv, ValidatingInv
  <2>5. RequestInv'
    <3>1. RequestInv BY RequestInvHolds
    <3>2. obj[r] # NoSession /\ count' = count BY <1>1, <3>1 DEF RequestInv, StartDirect, Moves
    <3>3. pc' \in [Req -> Step] /\ obj' \in [Req -> Obj \cup {NoSession}]
      BY <1>1, <3>1 DEF StartDirect, Goto, RequestInv, Step
    <3> QED BY <2>1, <2>3, <3>1, <3>2, <3>3 DEF RequestInv
  <2> QED BY <2>4, <2>5, RequestStep DEF Moves, files, history
<1>2. CASE ~StartDirect(r)
  <2>1. pc[r] # "idle" /\ \E next \in Step : next # "validating" /\ Goto(r, next)
    BY <1>2 DEF Moves, StartJoins, ValidationFails, WaitServed, WaitFails, WaitGivesUp, OpenVOD,
                Waiting, Served, ManifestStep, Step
  <2>2. RequestGoes BY <2>1, GotoStep DEF Moves
  <2>3. ValidatingInv'
    BY <2>2 DEF Moves, IInv, ValidatingInv, RequestGoes, RequestInv
  <2> QED BY <2>2, <2>3, RequestStep DEF Moves, files, history, RequestGoes
<1> QED BY <1>1, <1>2

LEMMA WriteStep == ASSUME IInv, NEW o \in Obj, NEW p \in Role, Write(o, p) PROVE Sound
<1> USE DEF IInv
<1>1. /\ o <= count /\ sess[o].id \in Sid
      /\ output' = [output EXCEPT ![sess[o].id] = @ \cup {o}]
      /\ UNCHANGED <<sessions, sess, proc, dirs, count, pc, obj, wedged, late, lost, stopped>>
  BY MadeObjects DEF Write, Live, TypeOK, Session, history
<1>2. \A i \in Sid : output'[i] = IF i = sess[o].id THEN output[i] \cup {o} ELSE output[i]
  BY <1>1 DEF TypeOK
<1>3. TypeOK' BY <1>1 DEF TypeOK
<1>4. MapInv' /\ CmdInv' /\ StopInv' BY <1>1 DEF MapInv, CmdInv, StopInv, Active
<1>5. UnregisteredInv' /\ ValidatingInv' BY <1>1 DEF UnregisteredInv, Registered, ValidatingInv
<1>6. UnmadeInv'
  <2>1. \A q \in Obj : q > count => q # o
    BY <1>1, CountIsNat, TranscoderAssumption DEF Obj
  <2> QED BY <1>1, <1>2, <2>1 DEF UnmadeInv
<1>7. sessions[sess[o].id] # o => o \in late \/ <<o, p>> \in stopped
  BY DEF Write, Live, UnregisteredInv, Registered, StopInv
<1>8. OutputInv'
  <2> SUFFICES ASSUME NEW i \in Sid, NEW q \in output'[i]
               PROVE  /\ sess[q].id = i
                      /\ sessions[i] # NoSession =>
                           q = sessions[i] \/ q \in late \/ \E k \in Role : <<q, k>> \in stopped
    BY <1>1 DEF OutputInv, OutputIsOwn
  <2>1. CASE q \in output[i] BY <2>1 DEF OutputInv, OutputIsOwn
  <2>2. CASE q = o /\ i = sess[o].id BY <1>7, <2>2
  <2> QED BY <1>2, <2>1, <2>2
<1> QED BY <1>1, <1>3, <1>4, <1>5, <1>6, <1>8 DEF Sound, DoneStays

(* A process that ends, by itself or of the kill.                            *)
LEMMA EndStep ==
  ASSUME IInv, NEW o \in Obj, NEW p \in Role, NEW how \in {"failed", "finished"},
         proc[o][p] \in {"running", "killed"}, proc' = [proc EXCEPT ![o][p] = how],
         UNCHANGED <<sessions, sess, files, count, pc, obj, wedged, history>>
  PROVE  Sound
<1> DEFINE y == [proc[o] EXCEPT ![p] = how]
<1>1. /\ sess[o] \in Session /\ proc[o] \in [Role -> ProcState]
      /\ o <= count /\ RequestGoes
  BY MadeObjects, CountIsNat, RequestKept DEF IInv, TypeOK
<1>2. /\ sess' = [sess EXCEPT ![o] = sess[o]] /\ proc' = [proc EXCEPT ![o] = y]
      /\ y \in [Role -> ProcState]
      /\ proc'[o] = y /\ y[p] = how /\ \A q \in Role : q # p => y[q] = proc[o][q]
  BY <1>1 DEF IInv, TypeOK, ProcState
<1>3. OwnInv(o)'
  <2>1. OwnInv(o) BY OwnInvs DEF IInv
  <2>2. p = sess[o].cmd
    BY <2>1 DEF OwnInv, Role
  <2> HIDE DEF y
  <2>3. UNCHANGED <<sess, sessions, stopped, late, lost>> BY DEF history
  <2> QED BY <1>2, <2>1, <2>2, <2>3 DEF OwnInv, Active, Registered, Role
<1>4. ~sess[o].done
  <2>1. OwnInv(o) BY OwnInvs DEF IInv
  <2> QED BY <2>1 DEF OwnInv, Role
<1> QED BY <1>1, <1>2, <1>3, <1>4, OwnStep DEF files, history, IInv, TypeOK

(* waitForProcess: the process has ended, its record becomes x and its       *)
(* processes y.                                                              *)
LEMMA WaitedStep ==
  ASSUME IInv, NEW o \in Obj, Ended(o), NEW x \in Session, NEW y \in [Role -> ProcState],
         x.id = sess[o].id, sess' = [sess EXCEPT ![o] = x], proc' = [proc EXCEPT ![o] = y],
         ~Locked(o), UNCHANGED <<sessions, files, count, pc, obj, wedged, late, stopped>>,
         lost \subseteq lost', lost' \subseteq Obj, OwnInv(o)'
  PROVE  Sound
<1>1. o <= count BY MadeObjects DEF Ended, Role
<1>2. RequestGoes BY CountIsNat, RequestKept
<1>3. \A r \in Req : ~(pc'[r] = "validating" /\ obj'[r] = o) BY DEF Locked
<1>4. ~sess[o].done
  <2>1. OwnInv(o) BY OwnInvs DEF IInv
  <2> QED BY <2>1 DEF OwnInv, Ended
<1> QED BY <1>1, <1>2, <1>3, <1>4, OwnStep DEF files, IInv, TypeOK

LEMMA ReapedProcesses ==
  ASSUME IInv, NEW o \in Obj, Ended(o)
  PROVE  /\ Reaped(o) \in [Role -> ProcState] /\ sess[o] \in Session /\ OwnInv(o)
         /\ Reaped(o)[sess[o].cmd] = "reaped"
         /\ \A p \in Role : p # sess[o].cmd => Reaped(o)[p] = proc[o][p]
BY OwnInvs DEF Reaped, Ended, IInv, TypeOK, ProcState

LEMMA SettleStep == ASSUME IInv, NEW o \in Obj, Settle(o) PROVE Sound
<1> DEFINE x == SettledRecord(o)
           y == Reaped(o)
<1>1. /\ x \in Session /\ x.id = sess[o].id /\ x.force = sess[o].force /\ x.copy = sess[o].copy
      /\ x.started = sess[o].started /\ x.cmd = sess[o].cmd /\ x.done /\ x.stop = "none"
  <2>1. sess[o] \in Session BY DEF IInv, TypeOK
  <2> QED BY <2>1 DEF SettledRecord, Session, Stop
<1>2. sess'[o] = x /\ proc'[o] = y BY DEF Settle, IInv, TypeOK
<1>3. OwnInv(o)'
  <2>1. /\ sess[o].cmd \in Role /\ y[sess[o].cmd] = "reaped" /\ OwnInv(o)
        /\ \A p \in Role : p # sess[o].cmd => y[p] = proc[o][p]
    BY ReapedProcesses DEF Settle, Ended
  <2>2. UNCHANGED <<sessions, stopped, late, lost>> BY DEF Settle, history
  <2> HIDE DEF x, y
  <2>3. CmdInv!(o)' /\ StopInv!(o)' BY <1>1, <1>2, <2>1, <2>2 DEF OwnInv, Active, Role
  <2>4. \A p \in Role : y[p] \in {"none", "reaped"} BY <2>1 DEF OwnInv, Role
  <2> QED BY <1>2, <2>3, <2>4 DEF OwnInv
<1> QED BY <1>1, <1>3, ReapedProcesses, WaitedStep DEF Settle, history, IInv, TypeOK

LEMMA FallBackStep == ASSUME IInv, NEW o \in Obj, FallBack(o) PROVE Sound
<1> DEFINE x == [FallbackRecord(o) EXCEPT !.cmd = "fallback"]
           y == [Reaped(o) EXCEPT !["fallback"] = "running"]
<1>0. sess[o] \in Session /\ Ended(o) /\ sess[o].copy /\ sess[o].stop = "none"
  BY DEF IInv, TypeOK, FallBack, CopyMayFallBack
<1>1. /\ x \in Session /\ x.id = sess[o].id /\ x.force = sess[o].force /\ ~x.copy
      /\ x.started = sess[o].started /\ x.cmd = "fallback" /\ ~x.done /\ x.stop = "none"
  BY <1>0 DEF FallbackRecord, Session, Stop, Role
<1>2. sess'[o] = x /\ proc'[o] = y BY DEF FallBack, IInv, TypeOK
<1>3. OwnInv(o) /\ Reaped(o) \in [Role -> ProcState] BY <1>0, ReapedProcesses
<1>4. sess[o].cmd = "first" /\ sess[o].started /\ ~sess[o].force
  BY <1>0, <1>3 DEF OwnInv, Ended, Role
<1>5. y \in [Role -> ProcState] /\ y["first"] = "reaped" /\ y["fallback"] = "running"
  BY <1>0, <1>3, <1>4, ReapedProcesses DEF Role, ProcState
<1>6. ~Registered(o) => o \in late
  BY <1>0, <1>3, <1>4 DEF OwnInv, Ended, Role
<1>7. <<o, "first">> \notin stopped
  BY <1>0, <1>3, <1>4 DEF OwnInv, Ended
<1>8. OwnInv(o)'
  <2>1. UNCHANGED <<sessions, stopped, late, lost>> BY DEF FallBack, history
  <2> HIDE DEF x, y
  <2>2. Registered(o)' <=> Registered(o) BY <1>1, <1>2, <2>1 DEF Registered
  <2> QED BY <1>1, <1>2, <1>4, <1>5, <1>6, <1>7, <2>1, <2>2 DEF OwnInv, Active, Role
<1> QED BY <1>0, <1>1, <1>5, <1>8, WaitedStep DEF FallBack, history, IInv, TypeOK

LEMMA FallbackLostStep == ASSUME IInv, NEW o \in Obj, FallbackLost(o) PROVE Sound
<1> DEFINE x == FallbackRecord(o)
           y == Reaped(o)
<1>0. sess[o] \in Session /\ Ended(o) /\ sess[o].copy /\ sess[o].stop = "none"
  BY DEF IInv, TypeOK, FallbackLost, CopyMayFallBack
<1>1. /\ x \in Session /\ x.id = sess[o].id /\ x.force = sess[o].force /\ ~x.copy
      /\ x.started = sess[o].started /\ x.cmd = sess[o].cmd /\ ~x.done
  BY <1>0 DEF FallbackRecord, Session, Stop, Role
<1>2. sess'[o] = x /\ proc'[o] = y BY DEF FallbackLost, IInv, TypeOK
<1>3. OwnInv(o) /\ y \in [Role -> ProcState] BY <1>0, ReapedProcesses
<1>4. sess[o].cmd = "first" /\ sess[o].started /\ ~sess[o].force
  BY <1>0, <1>3 DEF OwnInv, Ended, Role
<1>5. y["first"] = "reaped" /\ y["fallback"] = "none"
  BY <1>0, <1>3, <1>4, ReapedProcesses DEF OwnInv, Role
<1>6. OwnInv(o)'
  <2>1. UNCHANGED <<sessions, stopped, late>> /\ lost' = lost \cup {o} BY DEF FallbackLost
  <2> HIDE DEF x, y
  <2> QED BY <1>1, <1>2, <1>4, <1>5, <2>1 DEF OwnInv, Active, Role
<1> QED BY <1>0, <1>1, <1>3, <1>6, WaitedStep DEF FallbackLost, IInv, TypeOK

-----------------------------------------------------------------------------
(* Every step keeps the inductive invariant.                                 *)
LEMMA NextSound == IInv /\ [Next]_vars => Sound
<1> SUFFICES ASSUME IInv, [Next]_vars PROVE Sound
  OBVIOUS
<1>1. CASE Tick BY <1>1, TickStep
<1>2. ASSUME NEW r \in Req, Request(r) PROVE Sound
  <2>1. ASSUME NEW s \in Sid, NEW w \in Want,
               \/ Reuse(r, s, w) \/ Register(r, s, w)
               \/ RegisterFails(r, s, w) \/ RegisterPanics(r, s, w)
        PROVE  Sound
    BY <2>1, ReuseStep, RegisterStep, RegisterFailsStep, RegisterPanicsStep
  <2>2. CASE StartProxied(r) BY <2>2, StartProxiedStep
  <2>3. CASE ValidationEnds(r) BY <2>3, ValidationEndsStep
  <2>4. CASE Moves(r) BY <2>4, MovesStep
  <2>5. CASE Looks(r) BY <2>5, LooksStep
  <2> QED BY <1>2, <2>1, <2>2, <2>3, <2>4, <2>5 DEF Request
<1>3. ASSUME NEW o \in Obj, GrowIdle(o) PROVE Sound BY <1>3, GrowIdleStep
<1>4. ASSUME NEW o \in Obj, Process(o) PROVE Sound
  <2>1. ASSUME NEW p \in Role, Write(o, p) PROVE Sound BY <2>1, WriteStep
  <2>2. ASSUME NEW p \in Role, End(o, p) PROVE Sound BY <2>2, EndStep DEF End
  <2>3. ASSUME NEW p \in Role, Die(o, p) PROVE Sound BY <2>3, EndStep DEF Die
  <2>4. CASE Settle(o) BY <2>4, SettleStep
  <2>5. CASE FallBack(o) BY <2>5, FallBackStep
  <2>6. CASE FallbackLost(o) BY <2>6, FallbackLostStep
  <2> QED BY <1>4, <2>1, <2>2, <2>3, <2>4, <2>5, <2>6 DEF Process
<1>5. CASE UNCHANGED vars
  <2>1. RequestGoes BY <1>5, CountIsNat, RequestKept DEF vars
  <2>2. ValidatingInv' BY <1>5 DEF vars, IInv, ValidatingInv
  <2> QED BY <1>5, <2>1, <2>2, RequestStep DEF vars, files, history, RequestGoes
<1> QED BY <1>1, <1>2, <1>3, <1>4, <1>5 DEF Next

-----------------------------------------------------------------------------
(* The inductive invariant holds in every reachable state: one step of any   *)
(* handler, sweep or process keeps all its parts together, although none of  *)
(* them is kept by the steps alone.                                          *)
THEOREM Invariance == Spec => []IInv
<1>1. IInv /\ [Next]_vars => IInv' BY NextSound DEF Sound
<1> QED BY InitInv, <1>1, PTL DEF Spec

(* Types: in particular a request holds a session exactly while it is under  *)
(* way, so no step dereferences a nil hlsSession.                            *)
THEOREM TypeCorrect == Spec => []TypeOK
<1>1. IInv => TypeOK BY DEF IInv
<1> QED BY <1>1, Invariance, PTL

(* Where waitForProcess says a session is done, nothing of it runs.          *)
THEOREM DoneQuiet == Spec => []DoneIsQuiet
<1>1. IInv => DoneIsQuiet BY InactiveIsQuiet DEF DoneIsQuiet, Active
<1> QED BY <1>1, Invariance, PTL

(* The copy attempt and its fallback never run together.                     *)
THEOREM NeverTwoProcesses == Spec => []OneProcess
<1>1. ASSUME IInv PROVE OneProcess
  <2>1. ASSUME NEW o \in Obj PROVE ~(Live(o, "first") /\ Live(o, "fallback"))
    <3>1. CmdInv!(o) BY <1>1 DEF IInv, CmdInv
    <3> QED BY <3>1 DEF Live, Role
  <2> QED BY <2>1 DEF OneProcess
<1> QED BY <1>1, Invariance, PTL

(* No fallback follows a process that a replacement or a sweep has stopped.  *)
THEOREM StopsAreFinal == Spec => []StopIsFinal
<1>1. ASSUME IInv PROVE StopIsFinal
  <2>1. ASSUME NEW o \in Obj, <<o, "first">> \in stopped PROVE proc[o]["fallback"] = "none"
    <3>1. sess[o].cmd = "first" BY <1>1, <2>1 DEF IInv, StopInv
    <3> QED BY <1>1, <3>1 DEF IInv, CmdInv
  <2> QED BY <2>1 DEF StopIsFinal
<1> QED BY <1>1, Invariance, PTL

(* A forced session runs one process, without the copy.                      *)
THEOREM ForcedNeverFallsBack == Spec => []ForcedRunsOnce
<1>1. IInv => ForcedRunsOnce BY DEF IInv, CmdInv, ForcedRunsOnce
<1> QED BY <1>1, Invariance, PTL

(* What runs for an object that left t.sessions was launched afterwards.     *)
THEOREM UnregisteredAreStopped == Spec => []ReplacedIsStopped
<1>1. IInv => ReplacedIsStopped BY DEF IInv, UnregisteredInv, ReplacedIsStopped
<1> QED BY <1>1, Invariance, PTL

(* What a session serves from its directory is its own, or was written by a  *)
(* process already told to stop or launched too late.                        *)
THEOREM OutputIsOwned == Spec => []OutputIsOwn
<1>1. IInv => OutputIsOwn BY DEF IInv, OutputInv
<1> QED BY <1>1, Invariance, PTL

(* An active session has a process still to be waited for, or lost its       *)
(* fallback.                                                                 *)
THEOREM ActiveAttended == Spec => []ActiveIsAttended
<1>1. ASSUME IInv PROVE ActiveIsAttended
  <2>1. ASSUME NEW o \in Obj, Active(o), o \notin lost
        PROVE  \E p \in Role : proc[o][p] \notin {"none", "reaped"}
    <3>1. CmdInv!(o) BY <1>1 DEF IInv, CmdInv
    <3>2. sess[o].cmd \in Role BY <2>1, <3>1 DEF Active
    <3>3. proc[o][sess[o].cmd] \notin {"none", "reaped"}
      BY <2>1, <3>1, <3>2 DEF Role
    <3> QED BY <3>2, <3>3
  <2> QED BY <2>1 DEF ActiveIsAttended
<1> QED BY <1>1, Invariance, PTL

(* Once done, a session stays done and nothing is launched for it again.     *)
THEOREM DoneForEver == Spec => DoneIsFinal
<1>1. IInv /\ [Next]_vars => [DoneStays]_vars BY NextSound DEF Sound
<1>2. [DoneStays]_vars => [\A o \in Obj : sess[o].done => sess'[o].done /\ proc'[o] = proc[o]]_vars
  BY DEF DoneStays
<1> QED BY <1>1, <1>2, Invariance, PTL DEF Spec, DoneIsFinal

-----------------------------------------------------------------------------
(* Sessions whose fallback could not be spawned.                             *)

(* The copy attempt was waited for, there is no fallback, and done was reset. *)
LostSession(o) ==
  /\ sess[o].started /\ ~sess[o].done /\ sess[o].cmd = "first"
  /\ \A p \in Role : proc[o][p] = IF p = "first" THEN "reaped" ELSE "none"

LostInv == \A o \in lost : LostSession(o)

(* What a step leaves of such a session.                                     *)
Unrevived(o) ==
  /\ sess'[o].started = sess[o].started /\ sess'[o].done = sess[o].done
  /\ sess'[o].cmd = sess[o].cmd /\ proc'[o] = proc[o]
  /\ Registered(o) => Registered(o)' \/ sess'[o].stop = "replaced"

LostKept == lost \subseteq lost' /\ (\A o \in lost : Unrevived(o)) /\ LostInv'

LEMMA LostAgain ==
  ASSUME LostInv, lost' = lost, \A o \in lost : Unrevived(o)
  PROVE  LostKept
<1>1. ASSUME NEW o \in lost PROVE LostSession(o)'
  BY <1>1 DEF LostInv, LostSession, Unrevived
<1> QED BY <1>1 DEF LostKept, LostInv

(* A step of one object that is not lost.                                    *)
LEMMA LostElsewhere ==
  ASSUME LostInv, lost' = lost, sessions' = sessions,
         \A o \in lost : sess'[o] = sess[o] /\ proc'[o] = proc[o]
  PROVE  LostKept
BY LostAgain DEF Unrevived, Registered

(* Nothing is left to kill of a lost session, and as it is active no sweep takes its id. *)
LEMMA SweptLost ==
  ASSUME IInv, LostInv, lost' = lost, NEW objects, Marked(objects), SweepAround(objects)
  PROVE  LostKept
<1>1. ASSUME NEW o \in lost PROVE Unrevived(o)
  <2>1. LostSession(o) /\ o \in Obj BY <1>1 DEF LostInv, IInv, TypeOK
  <2>2. /\ sess'[o].id = sess[o].id /\ sess'[o].started = sess[o].started
        /\ sess'[o].done = sess[o].done /\ sess'[o].cmd = sess[o].cmd
    BY <2>1 DEF SweepAround, Marked
  <2>3. proc'[o] = proc[o]
    <3>1. \A p \in Role : proc'[o][p] = proc[o][p]
      BY <2>1, SweptProcesses DEF LostSession, SweepAround
    <3>2. proc' \in [Obj -> [Role -> ProcState]] BY SweptValues DEF SweepAround
    <3> QED BY <2>1, <3>1, <3>2 DEF IInv, TypeOK
  <2>4. Registered(o) => Registered(o)'
    <3>1. sess[o].id \in Sid BY <2>1 DEF IInv, TypeOK, Session
    <3>2. o \notin Evicting BY <2>1 DEF Evicting, Active, LostSession
    <3>3. Registered(o) => SessionsSwept[sess[o].id] = o
      BY <3>1, <3>2 DEF Registered, SessionsSwept
    <3> QED BY <2>2, <3>3 DEF Registered, SweepAround
  <2> QED BY <2>2, <2>3, <2>4 DEF Unrevived
<1> QED BY <1>1, LostAgain

(* A registration replaces a lost session like one that plays.               *)
LEMMA TakenOverLost ==
  ASSUME IInv, LostInv, lost' = lost, NEW r \in Req, NEW s \in Sid, NEW w \in Want,
         Takeover(r, s, w),
         \A o \in Obj : o <= count => sess'[o] = SessReplaced(SessionsSwept[s])[o],
         \A i \in Sid \ {s} : sessions'[i] = SessionsSwept[i]
  PROVE  LostKept
<1> DEFINE objects == SessReplaced(SessionsSwept[s])
<1>1. ASSUME NEW o \in lost PROVE Unrevived(o)
  <2>1. LostSession(o) /\ o \in Obj BY <1>1 DEF LostInv, IInv, TypeOK
  <2>2. o <= count
    <3>1. o > count => sess[o].cmd = "nil" BY <2>1 DEF IInv, UnmadeInv
    <3>2. o \in Nat /\ count \in Nat BY <2>1, CountIsNat, TranscoderAssumption DEF Obj
    <3> QED BY <2>1, <3>1, <3>2 DEF LostSession
  <2>3. sess'[o] = objects[o] BY <2>1, <2>2
  <2>4. Marked(objects) BY ReplacedIsMarked
  <2>5. /\ sess'[o].id = sess[o].id /\ sess'[o].started = sess[o].started
        /\ sess'[o].done = sess[o].done /\ sess'[o].cmd = sess[o].cmd
    BY <2>1, <2>3, <2>4 DEF Marked
  <2>6. proc'[o] = proc[o]
    <3>1. ASSUME NEW p \in Role PROVE proc'[o][p] = proc[o][p]
      <4>1. proc'[o][p] = IF o \in Halting(s) /\ p = sess[o].cmd /\ proc[o][p] = "running"
                          THEN "killed" ELSE proc[o][p]
        BY <2>1, TakeoverProcesses
      <4>2. proc[o][p] # "running" BY <2>1 DEF LostSession
      <4> QED BY <4>1, <4>2
    <3>2. proc' \in [Obj -> [Role -> ProcState]] BY TakeoverProcesses
    <3> QED BY <2>1, <3>1, <3>2 DEF IInv, TypeOK
  <2>7. ASSUME Registered(o) PROVE Registered(o)' \/ sess'[o].stop = "replaced"
    <3>1. sess[o].id \in Sid BY <2>1 DEF IInv, TypeOK, Session
    <3>2. o \notin Evicting BY <2>1 DEF Evicting, Active, LostSession
    <3>3. SessionsSwept[sess[o].id] = o BY <2>7, <3>1, <3>2 DEF Registered, SessionsSwept
    <3>4. CASE sess[o].id = s
      <4>1. SessionsSwept[s] = o /\ Replaced(o)
        BY <2>1, <3>3, <3>4, TranscoderAssumption DEF Replaced, LostSession, NoSession, Obj
      <4>2. objects = [SessSwept EXCEPT ![o].stop = "replaced"] BY <4>1 DEF SessReplaced
      <4>3. SessSwept \in [Obj -> Session] BY SweptValues
      <4>4. objects[o].stop = "replaced" BY <2>1, <4>2, <4>3 DEF Session
      <4> QED BY <2>3, <4>4
    <3>5. CASE sess[o].id # s
      <4> HIDE DEF objects
      <4>1. sessions'[sess[o].id] = o BY <3>1, <3>3, <3>5
      <4> QED BY <2>5, <4>1 DEF Registered
    <3> QED BY <3>4, <3>5
  <2> HIDE DEF objects
  <2> QED BY <2>5, <2>6, <2>7 DEF Unrevived
<1> QED BY <1>1, LostAgain

LEMMA LooksLost == ASSUME IInv, LostInv, NEW r \in Req, Looks(r) PROVE LostKept
<1>1. lost' = lost /\ Marked(SessSwept) BY SweptIsMarked DEF Looks
<1>2. \A i \in Sid : SessionsSwept[i] # NoSession =>
        Marked([SessSwept EXCEPT ![SessionsSwept[i]].fresh = TRUE])
  BY <1>1, SweptValues, MarkedUpdates
<1>3. pc[r] # "idle" => sess[obj[r]].id \in Sid BY HeldObject DEF Session
<1>4. ASSUME NEW i \in Sid, NEW next, Lookup(r, i, next) \/ NotFound(r, i)
      PROVE  LostKept
  BY <1>1, <1>2, <1>4, SweptLost DEF Lookup, NotFound
<1>5. CASE FetchPath(r)
  BY <1>1, <1>2, <1>3, <1>5, SweptLost DEF FetchPath
<1>6. CASE Touch(r)
  <2>1. CASE SessionsSwept[sess[obj[r]].id] = NoSession
    BY <1>1, <1>6, <2>1, SweptLost DEF Touch
  <2>2. CASE SessionsSwept[sess[obj[r]].id] # NoSession
    BY <1>1, <1>2, <1>3, <1>6, <2>2, SweptLost DEF Touch
  <2> QED BY <2>1, <2>2
<1>7. CASE FetchLosesSession(r)
  BY <1>3, <1>4, <1>7 DEF FetchLosesSession
<1>8. ASSUME NEW i \in Sid, StartLooksUp(r, i) \/ Fetch(r, i) PROVE LostKept
  BY <1>4, <1>8 DEF StartLooksUp, Fetch
<1> QED BY <1>5, <1>6, <1>7, <1>8 DEF Looks

LEMMA RegistersLost ==
  ASSUME IInv, LostInv, NEW r \in Req, NEW s \in Sid, NEW w \in Want,
         \/ Reuse(r, s, w) \/ Register(r, s, w)
         \/ RegisterFails(r, s, w) \/ RegisterPanics(r, s, w)
  PROVE  LostKept
<1>1. Marked(SessSwept) BY SweptIsMarked
<1>2. SessionsSwept \in [Sid -> Obj \cup {NoSession}] BY SweptValues
<1>3. CASE Reuse(r, s, w)
  <2>1. SessionsSwept[s] \in Obj BY <1>2, <1>3 DEF Reuse
  <2> QED BY <1>1, <1>3, <2>1, MarkedUpdates, SweptLost DEF Reuse
<1>4. CASE RegisterPanics(r, s, w)
  <2>1. SessionsSwept[s] \in Obj BY <1>2, <1>4 DEF RegisterPanics
  <2> QED BY <1>1, <1>4, <2>1, MarkedUpdates, SweptLost DEF RegisterPanics
<1>5. CASE RegisterFails(r, s, w)
  <2>1. \A i \in Sid \ {s} : sessions'[i] = SessionsSwept[i] BY <1>2, <1>5 DEF RegisterFails
  <2>2. /\ Takeover(r, s, w) /\ lost' = lost
        /\ sess' = SessReplaced(SessionsSwept[s])
    BY <1>5 DEF RegisterFails
  <2> QED BY <2>1, <2>2, TakenOverLost
<1>6. CASE Register(r, s, w)
  <2> DEFINE objects == SessReplaced(SessionsSwept[s])
  <2>1. \A i \in Sid \ {s} : sessions'[i] = SessionsSwept[i] BY <1>2, <1>6 DEF Register
  <2>2. Takeover(r, s, w) /\ lost' = lost BY <1>6 DEF Register
  <2>3. sess' = [objects EXCEPT ![count + 1] = NewSession(s, w)] BY <1>6 DEF Register
  <2>4. objects \in [Obj -> Session] BY ReplacedIsMarked DEF Marked
  <2> HIDE DEF objects
  <2>5. ASSUME NEW o \in Obj, o <= count PROVE sess'[o] = objects[o]
    <3>1. o # count + 1 BY <2>5, CountIsNat, TranscoderAssumption DEF Obj
    <3> QED BY <2>3, <2>4, <3>1
  <2> QED BY <2>1, <2>2, <2>5, TakenOverLost DEF objects
<1> QED BY <1>3, <1>4, <1>5, <1>6

(* A start does not find a lost session unstarted.                           *)
LEMMA LaunchLost ==
  ASSUME IInv, LostInv, NEW r \in Req, StartProxied(r) \/ ValidationEnds(r)
  PROVE  LostKept
<1>1. obj[r] \in Obj /\ ~sess[obj[r]].started
  BY HeldObject DEF StartProxied, MayStart, ValidationEnds, IInv, ValidatingInv
<1>2. obj[r] \notin lost BY <1>1 DEF LostInv, LostSession
<1>3. lost' = lost /\ sessions' = sessions BY DEF StartProxied, ValidationEnds
<1>4. sess \in [Obj -> Session] /\ proc \in [Obj -> [Role -> ProcState]] /\ lost \subseteq Obj
  BY DEF IInv, TypeOK
<1>5. ASSUME NEW o \in Obj, o # obj[r] PROVE sess'[o] = sess[o] /\ proc'[o] = proc[o]
  <2>1. ASSUME NEW rec, Launch(r, rec) PROVE sess'[o] = sess[o] /\ proc'[o] = proc[o]
    <3> DEFINE a == Attempt(rec)
    <3>1. \/ /\ sess' = [sess EXCEPT ![obj[r]] = [a EXCEPT !.cmd = "first", !.started = TRUE]]
             /\ proc' = [proc EXCEPT ![obj[r]]["first"] = "running"]
          \/ sess' = [sess EXCEPT ![obj[r]] = [a EXCEPT !.cmd = "unstarted"]] /\ proc' = proc
      BY <2>1 DEF Launch
    <3> HIDE DEF a
    <3> QED BY <1>4, <1>5, <3>1
  <2>2. CASE StartProxied(r) BY <2>1, <2>2 DEF StartProxied
  <2>3. CASE ValidationEnds(r)
    <3>1. CASE \E known \in BOOLEAN : Launch(r, ValidRecord(obj[r], known)) BY <2>1, <3>1
    <3>2. CASE sess' = [sess EXCEPT ![obj[r]] = ValidRecord(obj[r], TRUE)] /\ proc' = proc
      <4> DEFINE x == ValidRecord(obj[r], TRUE)
      <4> HIDE DEF x
      <4>1. sess' = [sess EXCEPT ![obj[r]] = x] BY <3>2 DEF x
      <4> QED BY <1>4, <1>5, <3>2, <4>1
    <3> QED BY <2>3, <3>1, <3>2 DEF ValidationEnds
  <2> QED BY <2>2, <2>3
<1> QED BY <1>2, <1>3, <1>4, <1>5, LostElsewhere

LEMMA GrowIdleLost == ASSUME IInv, LostInv, NEW o \in Obj, GrowIdle(o) PROVE LostKept
<1>1. lost' = lost /\ sessions' = sessions /\ proc' = proc BY DEF GrowIdle, history
<1>2. \A x \in Session : LET y == [x EXCEPT !.fresh = FALSE] IN
        y.id = x.id /\ y.started = x.started /\ y.done = x.done /\ y.cmd = x.cmd
  BY DEF Session
<1>3. sess \in [Obj -> Session] /\ lost \subseteq Obj BY DEF IInv, TypeOK
<1>4. \A q \in Obj : sess'[q] = IF q = o THEN [sess[o] EXCEPT !.fresh = FALSE] ELSE sess[q]
  BY <1>3 DEF GrowIdle
<1>5. ASSUME NEW q \in lost PROVE Unrevived(q)
  <2>1. /\ sess'[q].id = sess[q].id /\ sess'[q].started = sess[q].started
        /\ sess'[q].done = sess[q].done /\ sess'[q].cmd = sess[q].cmd
    <3>1. q \in Obj /\ sess[o] \in Session BY <1>3
    <3>2. CASE q = o
      <4>1. sess'[q] = [sess[o] EXCEPT !.fresh = FALSE] BY <1>4, <3>1, <3>2
      <4> QED BY <1>2, <3>1, <3>2, <4>1
    <3>3. CASE q # o BY <1>4, <3>1, <3>3
    <3> QED BY <3>2, <3>3
  <2> QED BY <1>1, <2>1 DEF Unrevived, Registered
<1> QED BY <1>1, <1>5, LostAgain

(* waitForProcess and the processes: there is none of a lost session.        *)
LEMMA ProcessLost == ASSUME IInv, LostInv, NEW o \in Obj, Process(o) PROVE LostKept
<1>1. /\ sess \in [Obj -> Session] /\ proc \in [Obj -> [Role -> ProcState]]
      /\ lost \subseteq Obj
  BY DEF IInv, TypeOK
<1>2. sessions' = sessions
  BY DEF Process, Write, End, Die, Settle, FallBack, FallbackLost
<1>3. \A q \in Obj : q # o => sess'[q] = sess[q] /\ proc'[q] = proc[q]
  BY <1>1 DEF Process, Write, End, Die, Settle, FallBack, FallbackLost
<1>4. o \in lost => ~Ended(o) /\ \A p \in Role : proc[o][p] \in {"none", "reaped"}
  BY DEF LostInv, LostSession, Ended
<1>5. CASE o \in lost
  <2>1. PICK p \in Role : Write(o, p)
    BY <1>4, <1>5 DEF Process, End, Die, Settle, FallBack, FallbackLost
  <2> QED BY <1>1, <2>1, LostElsewhere DEF Write, history
<1>6. CASE o \notin lost /\ ~FallbackLost(o)
  <2>1. lost' = lost BY <1>6 DEF Process, Write, End, Die, Settle, FallBack, history
  <2> QED BY <1>1, <1>2, <1>3, <1>6, <2>1, LostElsewhere
<1>7. CASE o \notin lost /\ FallbackLost(o)
  <2>1. lost' = lost \cup {o} BY <1>7 DEF FallbackLost
  <2>2. ASSUME NEW q \in lost PROVE Unrevived(q) /\ LostSession(q)'
    <3>1. q # o /\ q \in Obj /\ LostSession(q) BY <1>1, <1>7, <2>2 DEF LostInv
    <3>2. sess'[q] = sess[q] /\ proc'[q] = proc[q] BY <1>3, <3>1
    <3> QED BY <1>2, <3>1, <3>2 DEF Unrevived, Registered, LostSession
  <2>3. LostSession(o)'
    <3> DEFINE x == FallbackRecord(o)
               y == Reaped(o)
    <3>0. sess[o] \in Session /\ Ended(o) /\ sess[o].copy
      BY <1>1, <1>7 DEF FallbackLost, CopyMayFallBack
    <3>1. x.started = sess[o].started /\ x.cmd = sess[o].cmd /\ ~x.done
      BY <3>0 DEF FallbackRecord, Session
    <3>2. sess'[o] = x /\ proc'[o] = y BY <1>1, <1>7 DEF FallbackLost
    <3>3. OwnInv(o) BY <3>0, ReapedProcesses
    <3>4. sess[o].cmd = "first" /\ sess[o].started BY <3>0, <3>3 DEF OwnInv, Ended, Role
    <3>5. y["first"] = "reaped" /\ y["fallback"] = "none"
      BY <3>0, <3>3, <3>4, ReapedProcesses DEF OwnInv, Role
    <3> HIDE DEF x, y
    <3> QED BY <3>1, <3>2, <3>4, <3>5 DEF LostSession, Role
  <2> QED BY <2>1, <2>2, <2>3 DEF LostKept, LostInv
<1> QED BY <1>5, <1>6, <1>7

LEMMA NextLost == IInv /\ LostInv /\ [Next]_vars => LostKept
<1> SUFFICES ASSUME IInv, LostInv, [Next]_vars PROVE LostKept
  OBVIOUS
<1>1. CASE Tick BY <1>1, SweptIsMarked, SweptLost DEF Tick
<1>2. ASSUME NEW r \in Req, Request(r) PROVE LostKept
  <2>1. CASE Moves(r) BY <2>1, LostElsewhere DEF Moves, history
  <2> QED BY <1>2, <2>1, LooksLost, RegistersLost, LaunchLost DEF Request
<1>3. CASE UNCHANGED vars BY <1>3, LostElsewhere DEF vars, history
<1> QED BY <1>1, <1>2, <1>3, GrowIdleLost, ProcessLost DEF Next

(* A session whose fallback could not be spawned plays to the transcoder for *)
(* good: only a registration takes its id, whatever sweeps, starts and other *)
(* requests come.                                                            *)
THEOREM LostForEver == Spec => LostStays
<1>1. Init => LostInv BY DEF Init, LostInv
<1>2. IInv /\ LostInv /\ [Next]_vars => LostInv' BY NextLost DEF LostKept
<1>3. ASSUME IInv, LostInv, [Next]_vars, NEW o \in lost
      PROVE  /\ Active(o)' /\ proc'[o] = proc[o]
             /\ Registered(o) => Registered(o)' \/ sess'[o].stop = "replaced"
  <2>1. Unrevived(o) /\ LostSession(o)' BY <1>3, NextLost DEF LostKept, LostInv
  <2> QED BY <2>1 DEF Unrevived, LostSession, Active
<1>4. IInv /\ LostInv /\ [Next]_vars =>
        [\A o \in lost :
           /\ Active(o)' /\ proc'[o] = proc[o]
           /\ Registered(o) => Registered(o)' \/ sess'[o].stop = "replaced"]_vars
  BY <1>3
<1> QED BY <1>1, <1>2, <1>4, Invariance, PTL DEF Spec, LostStays

-----------------------------------------------------------------------------
(* The refinement: every step is a step of TranscoderService or a stutter.   *)

ServiceStep == [Service!Next]_(Service!vars)

(* What a step has to be shown to do for the refinement.                     *)
Serves == ReadyInv' /\ ServiceStep

LEMMA PhaseValues ==
  /\ \A o \in Obj : Phases[o] = PhaseOf(o)
  /\ DOMAIN Phases = Obj /\ Service!SessionNumber = Obj /\ Service!NoSession = NoSession
BY DEF Phases, Service!SessionNumber, Service!NoSession, Obj, NoSession

(* The same of the next state.                                               *)
LEMMA NextPhaseValues ==
  /\ DOMAIN Phases' = Obj /\ Phases' = [o \in Obj |-> Phases'[o]]
  /\ \A o \in Obj :
       Phases'[o] = IF o > count' THEN "unmade"
                    ELSE IF ~sess'[o].started THEN "ready"
                    ELSE IF sess'[o].done THEN "over"
                    ELSE IF sess'[o].stop # "none" THEN "stopping" ELSE "playing"
BY DEF Phases, PhaseOf

LEMMA SamePhases ==
  ASSUME sessions' = sessions, count' = count, \A o \in Obj : Phases'[o] = Phases[o]
  PROVE  ServiceStep
<1>1. Phases = [o \in Obj |-> Phases[o]] BY DEF Phases
<1>2. Phases' = Phases BY <1>1, NextPhaseValues
<1> QED BY <1>2 DEF ServiceStep, Service!vars

(* Steps that start or stop nobody validating, so far as ReadyInv goes.      *)
LEMMA ReadyKept ==
  ASSUME ReadyInv, wedged' = wedged \/ TranscoderFree,
         \A o \in Obj : ~sess'[o].started /\ sess'[o].stop # "none" =>
                          ~sess[o].started /\ sess[o].stop # "none",
         \A r \in Req : pc'[r] = "validating" =>
           (pc[r] = "validating" /\ obj'[r] = obj[r]) \/ ~Locked(obj'[r])
  PROVE  ReadyInv'
<1> SUFFICES ASSUME NEW o \in Obj, ~sess'[o].started, sess'[o].stop # "none"
             PROVE  wedged' = o /\ \A r \in Req : ~(pc'[r] = "validating" /\ obj'[r] = o)
  BY DEF ReadyInv
<1>1. wedged = o /\ \A r \in Req : ~(pc[r] = "validating" /\ obj[r] = o)
  BY DEF ReadyInv
<1>2. Locked(o) BY <1>1 DEF Locked
<1>3. wedged' = wedged BY <1>1 DEF TranscoderFree, NoSession, Obj
<1> QED BY <1>1, <1>2, <1>3

-----------------------------------------------------------------------------
(* Sweeps, as TranscoderService sees them.                                   *)

(* The objects of a sweep, some of them told to stop.                        *)
Told(objects, halted) ==
  \A o \in Obj :
    /\ objects[o].started = sess[o].started /\ objects[o].done = sess[o].done
    /\ objects[o].stop # "none" <=> sess[o].stop # "none" \/ o \in halted

(* The ids named by objects that are told to stop.                           *)
Tells(halted, ids) ==
  \A o \in Obj : Phases[o] = "playing" => (o \in halted <=> \E i \in ids : sessions[i] = o)

LEMMA ToldPhases ==
  ASSUME IInv, NEW objects, NEW halted, Told(objects, halted), NEW ids, Tells(halted, ids),
         NEW o \in Obj, o <= count, count <= count', count' \in Nat, sess'[o] = objects[o]
  PROVE  Phases'[o] = Service!Stopping(ids)[o]
<1>0. o > count <=> FALSE BY CountIsNat, TranscoderAssumption DEF Obj
<1>00. o > count' <=> FALSE BY CountIsNat, TranscoderAssumption DEF Obj
<1>1. Service!Stopping(ids)[o] = IF \E i \in ids : o = sessions[i] /\ Phases[o] = "playing"
                                 THEN "stopping" ELSE Phases[o]
  BY PhaseValues DEF Service!Stopping
<1>2. Phases[o] = IF ~sess[o].started THEN "ready"
                  ELSE IF sess[o].done THEN "over"
                  ELSE IF sess[o].stop # "none" THEN "stopping" ELSE "playing"
  BY <1>0, PhaseValues DEF PhaseOf
<1>3. Phases'[o] = IF ~sess'[o].started THEN "ready"
                   ELSE IF sess'[o].done THEN "over"
                   ELSE IF sess'[o].stop # "none" THEN "stopping" ELSE "playing"
  BY <1>00, NextPhaseValues
<1>4. CASE Phases[o] = "playing"
  <2>1. sess[o].started /\ ~sess[o].done /\ ~(sess[o].stop # "none") BY <1>2, <1>4
  <2>2. sess'[o].stop # "none" <=> \E i \in ids : sessions[i] = o
    BY <1>4, <2>1 DEF Told, Tells
  <2> QED BY <1>1, <1>3, <1>4, <2>1, <2>2 DEF Told
<1>5. CASE Phases[o] # "playing"
  <2>1. ~sess[o].started \/ sess[o].done \/ sess[o].stop # "none" BY <1>2, <1>5
  <2> QED BY <1>1, <1>2, <1>3, <1>5, <2>1 DEF Told
<1> QED BY <1>4, <1>5

LEMMA UnmadePhases ==
  ASSUME NEW ids, NEW o \in Obj, o > count
  PROVE  Phases[o] = "unmade" /\ Service!Stopping(ids)[o] = "unmade"
BY PhaseValues DEF Service!Stopping, PhaseOf

(* The ids whose session a sweep tells to stop for the first time.           *)
Idles == {i \in Sid : sessions[i] \in Expiring /\ Phases[sessions[i]] = "playing"}

LEMMA SweepIsSwept ==
  ASSUME IInv
  PROVE  /\ Service!Swept(Evicted, Idles) /\ Service!Without(Evicted) = SessionsSwept
         /\ Tells(Expiring, Idles) /\ Evicted \in SUBSET Sid /\ Idles \in SUBSET Sid
<1>1. ASSUME NEW i \in Evicted PROVE Service!MayGo(i)
  <2>1. i \in Sid /\ sessions[i] \in Obj /\ ~Active(sessions[i])
    BY <1>1 DEF Evicted, Evicting
  <2>2. sessions[i] <= count BY <2>1 DEF IInv, MapInv, Obj, NoSession
  <2>3. ~(sessions[i] > count) BY <2>1, <2>2, CountIsNat, TranscoderAssumption DEF Obj
  <2>4. Phases[sessions[i]] \in {"ready", "over"}
    BY <2>1, <2>3, PhaseValues DEF PhaseOf, Active
  <2> QED BY <2>1, <2>4, PhaseValues DEF Service!MayGo, NoSession, Obj
<1>2. ASSUME NEW i \in Idles PROVE Service!Plays(i)
  <2>1. i \in Sid /\ sessions[i] \in Obj /\ Phases[sessions[i]] = "playing"
    BY <1>2 DEF Idles, Expiring
  <2> QED BY <2>1, PhaseValues DEF Service!Plays, NoSession, Obj
<1>3. Service!Without(Evicted) = SessionsSwept
  BY PhaseValues DEF Service!Without, SessionsSwept, Evicted
<1>4. Tells(Expiring, Idles)
  <2> SUFFICES ASSUME NEW o \in Obj, Phases[o] = "playing"
               PROVE  o \in Expiring <=> \E i \in Idles : sessions[i] = o
    BY DEF Tells
  <2>1. ASSUME o \in Expiring PROVE \E i \in Idles : sessions[i] = o
    <3>1. sess[o].id \in Sid /\ sessions[sess[o].id] = o
      BY <2>1 DEF Expiring, Idle, Registered, IInv, TypeOK, Session
    <3> QED BY <2>1, <3>1 DEF Idles
  <2> QED BY <2>1 DEF Idles
<1>5. Service!Swept(Evicted, Idles) BY <1>1, <1>2 DEF Service!Swept
<1> QED BY <1>3, <1>4, <1>5 DEF Evicted, Idles

(* The objects of each operation that begins with a sweep.                   *)
LEMMA SweptIsTold == ASSUME IInv PROVE Told(SessSwept, Expiring)
<1>1. sess \in [Obj -> Session] BY DEF IInv, TypeOK
<1>2. ASSUME NEW x \in Session
      PROVE  LET y == [x EXCEPT !.stop = "expired"] IN
             y.started = x.started /\ y.done = x.done /\ y.stop = "expired"
  BY DEF Session
<1>3. ASSUME NEW o \in Obj
      PROVE  LET y == SessSwept[o]  x == sess[o] IN
             /\ y.started = x.started /\ y.done = x.done
             /\ y.stop = IF o \in Expiring THEN "expired" ELSE x.stop
  <2>1. SessSwept[o] = IF o \in Expiring THEN [sess[o] EXCEPT !.stop = "expired"] ELSE sess[o]
    BY DEF SessSwept
  <2>2. CASE o \in Expiring BY <1>1, <1>2, <2>1, <2>2
  <2>3. CASE o \notin Expiring BY <2>1, <2>3
  <2> QED BY <2>2, <2>3
<1> QED BY <1>3 DEF Told

LEMMA ToldUpdates ==
  ASSUME NEW objects \in [Obj -> Session], NEW halted, Told(objects, halted), NEW o \in Obj
  PROVE  /\ Told([objects EXCEPT ![o].fresh = TRUE], halted)
         /\ Told([objects EXCEPT ![o].stop = "replaced"], halted \cup {o})
<1>1. ASSUME NEW x \in Session
      PROVE  LET y == [x EXCEPT !.fresh = TRUE] IN
             y.started = x.started /\ y.done = x.done /\ y.stop = x.stop
  BY DEF Session
<1>2. ASSUME NEW x \in Session
      PROVE  LET y == [x EXCEPT !.stop = "replaced"] IN
             y.started = x.started /\ y.done = x.done /\ y.stop = "replaced"
  BY DEF Session
<1>3. Told([objects EXCEPT ![o].fresh = TRUE], halted)
  <2> DEFINE new == [objects EXCEPT ![o].fresh = TRUE]
  <2>1. \A q \in Obj : new[q] = IF q = o THEN [objects[o] EXCEPT !.fresh = TRUE] ELSE objects[q]
    OBVIOUS
  <2> QED BY <1>1, <2>1 DEF Told
<1>4. Told([objects EXCEPT ![o].stop = "replaced"], halted \cup {o})
  <2> DEFINE new == [objects EXCEPT ![o].stop = "replaced"]
  <2>1. \A q \in Obj : new[q] = IF q = o THEN [objects[o] EXCEPT !.stop = "replaced"] ELSE objects[q]
    OBVIOUS
  <2> QED BY <1>2, <2>1 DEF Told
<1> QED BY <1>3, <1>4

LEMMA ReplacedIsTold ==
  ASSUME IInv, NEW s \in Sid PROVE Told(SessReplaced(SessionsSwept[s]), Halting(s))
<1> DEFINE x == SessionsSwept[s]
<1>1. Told(SessSwept, Expiring) /\ SessSwept \in [Obj -> Session] BY SweptIsTold, SweptValues
<1>2. CASE Replaced(x)
  <2>1. x \in Obj BY <1>2, SweptValues DEF Replaced
  <2>2. Halting(s) = Expiring \cup {x} BY <1>2 DEF Halting
  <2>3. SessReplaced(x) = [SessSwept EXCEPT ![x].stop = "replaced"] BY <1>2 DEF SessReplaced
  <2>4. Told([SessSwept EXCEPT ![x].stop = "replaced"], Expiring \cup {x})
    BY <1>1, <2>1, ToldUpdates
  <2> QED BY <2>2, <2>3, <2>4
<1>3. CASE ~Replaced(x)
  <2>1. Halting(s) = Expiring /\ SessReplaced(x) = SessSwept BY <1>3 DEF Halting, SessReplaced
  <2> QED BY <1>1, <2>1
<1> QED BY <1>2, <1>3

-----------------------------------------------------------------------------
(* The operations that begin with a sweep are steps of TranscoderService.    *)

LEMMA NextPhases ==
  ASSUME IInv, NEW objects, NEW halted, Told(objects, halted), NEW ids, Tells(halted, ids),
         \A o \in Obj : o <= count => sess'[o] = objects[o], count' = count
  PROVE  Phases' = Service!Stopping(ids)
<1>1. ASSUME NEW o \in Obj PROVE Phases'[o] = Service!Stopping(ids)[o]
  <2>1. CASE o <= count BY <2>1, CountIsNat, ToldPhases
  <2>2. CASE o > count BY <2>2, UnmadePhases, NextPhaseValues
  <2> QED BY <2>1, <2>2, CountIsNat, TranscoderAssumption DEF Obj
<1>2. Service!Stopping(ids) = [o \in Obj |-> Service!Stopping(ids)[o]]
  BY PhaseValues DEF Service!Stopping
<1> QED BY <1>1, <1>2, NextPhaseValues

LEMMA CollectServes ==
  ASSUME IInv, NEW objects, NEW halted, Told(objects, halted), Tells(halted, Idles),
         SweepAround(objects), count' = count
  PROVE  ServiceStep
<1>1. Phases' = Service!Stopping(Idles) BY NextPhases DEF SweepAround
<1>2. sessions' = Service!Without(Evicted) /\ Service!Swept(Evicted, Idles)
      /\ Evicted \in SUBSET Sid /\ Idles \in SUBSET Sid
  BY SweepIsSwept DEF SweepAround
<1>3. Service!Collect(Evicted, Idles) BY <1>1, <1>2 DEF Service!Collect
<1> QED BY <1>2, <1>3 DEF ServiceStep, Service!Next

(* A bare sweep, or one with an access.                                      *)
LEMMA SweepServes ==
  ASSUME IInv, ReadyInv, NEW objects, Told(objects, Expiring), SweepAround(objects),
         count' = count, wedged' = wedged,
         \A r \in Req : pc'[r] = "validating" => pc[r] = "validating" /\ obj'[r] = obj[r]
  PROVE  Serves
<1>1. \A o \in Obj : ~sess'[o].started /\ sess'[o].stop # "none" =>
                       ~sess[o].started /\ sess[o].stop # "none"
  BY DEF SweepAround, Told, Expiring, Active
<1>2. ReadyInv' BY <1>1, ReadyKept
<1>3. ServiceStep BY SweepIsSwept, CollectServes
<1> QED BY <1>2, <1>3 DEF Serves

LEMMA AccessIsTold ==
  ASSUME IInv, NEW o \in Obj PROVE Told([SessSwept EXCEPT ![o].fresh = TRUE], Expiring)
BY SweptIsTold, SweptValues, ToldUpdates

(* A request that goes elsewhere does not begin to validate.                 *)
LEMMA GoesElsewhere ==
  ASSUME IInv, NEW q \in Req, NEW next, next # "validating", pc' = [pc EXCEPT ![q] = next],
         NEW o, obj' = [obj EXCEPT ![q] = o]
  PROVE  \A r \in Req : pc'[r] = "validating" => pc[r] = "validating" /\ obj'[r] = obj[r]
BY DEF IInv, TypeOK

LEMMA GotoElsewhere ==
  ASSUME IInv, NEW q \in Req, NEW next, next # "validating", Goto(q, next)
  PROVE  \A r \in Req : pc'[r] = "validating" => pc[r] = "validating" /\ obj'[r] = obj[r]
BY DEF IInv, TypeOK, Goto

LEMMA TickServes == ASSUME IInv, ReadyInv, Tick PROVE Serves
BY SweptIsTold, SweepServes DEF Tick

LEMMA ReuseServes ==
  ASSUME IInv, ReadyInv, NEW r \in Req, NEW s \in Sid, NEW w \in Want, Reuse(r, s, w)
  PROVE  Serves
<1>1. SessionsSwept[s] \in Obj BY SweptValues DEF Reuse
<1>2. Told([SessSwept EXCEPT ![SessionsSwept[s]].fresh = TRUE], Expiring) BY <1>1, AccessIsTold
<1> QED BY <1>2, SweepServes DEF Reuse

LEMMA LookupServes ==
  ASSUME IInv, ReadyInv, NEW r \in Req, NEW s \in Sid, NEW next, next # "validating",
         Lookup(r, s, next), UNCHANGED <<count, wedged>>
  PROVE  Serves
<1>1. SessionsSwept[s] \in Obj BY SweptValues DEF Lookup
<1>2. Told([SessSwept EXCEPT ![SessionsSwept[s]].fresh = TRUE], Expiring) BY <1>1, AccessIsTold
<1>3. \A q \in Req : pc'[q] = "validating" => pc[q] = "validating" /\ obj'[q] = obj[q]
  BY <1>1, GoesElsewhere DEF Lookup
<1> QED BY <1>2, <1>3, SweepServes DEF Lookup

LEMMA NotFoundServes ==
  ASSUME IInv, ReadyInv, NEW r \in Req, NEW s, NotFound(r, s), UNCHANGED <<count, wedged>>
  PROVE  Serves
<1>1. \A q \in Req : pc'[q] = "validating" => pc[q] = "validating" /\ obj'[q] = obj[q]
  BY GotoElsewhere DEF NotFound
<1> QED BY <1>1, SweptIsTold, SweepServes DEF NotFound

LEMMA LooksServes == ASSUME IInv, ReadyInv, NEW r \in Req, Looks(r) PROVE Serves
<1>0. UNCHANGED <<count, wedged>> BY DEF Looks
<1>1. CASE \E s \in Sid : StartLooksUp(r, s)
  BY <1>0, <1>1, LookupServes, NotFoundServes DEF StartLooksUp
<1>2. CASE \E s \in Sid : Fetch(r, s)
  BY <1>0, <1>2, LookupServes, NotFoundServes DEF Fetch
<1>3. CASE FetchPath(r)
  <2> DEFINE o == SessionsSwept[sess[obj[r]].id]
  <2>1. sess[obj[r]].id \in Sid BY <1>3, HeldObject DEF FetchPath, Session
  <2>2. o \in Obj BY <1>3, <2>1, SweptValues DEF FetchPath
  <2>3. Told([SessSwept EXCEPT ![o].fresh = TRUE], Expiring) BY <2>2, AccessIsTold
  <2>4. \A q \in Req : pc'[q] = "validating" => pc[q] = "validating" /\ obj'[q] = obj[q]
    BY <1>3, GotoElsewhere DEF FetchPath
  <2> QED BY <1>0, <1>3, <2>3, <2>4, SweepServes DEF FetchPath
<1>4. CASE FetchLosesSession(r)
  BY <1>0, <1>4, NotFoundServes DEF FetchLosesSession
<1>5. CASE Touch(r)
  <2> DEFINE o == SessionsSwept[sess[obj[r]].id]
             objects == IF o = NoSession THEN SessSwept ELSE [SessSwept EXCEPT ![o].fresh = TRUE]
  <2>1. sess[obj[r]].id \in Sid BY <1>5, HeldObject DEF Touch, Session
  <2>2. o # NoSession => o \in Obj BY <2>1, SweptValues
  <2>3. Told(objects, Expiring) BY <2>2, SweptIsTold, AccessIsTold
  <2>4. \A q \in Req : pc'[q] = "validating" => pc[q] = "validating" /\ obj'[q] = obj[q]
    BY <1>5, GotoElsewhere DEF Touch
  <2>5. SweepAround(objects) BY <1>5 DEF Touch
  <2> QED BY <1>0, <2>3, <2>4, <2>5, SweepServes
<1> QED BY <1>1, <1>2, <1>3, <1>4, <1>5 DEF Looks

(* A panic marks an object that was never started: nobody sees it.           *)
LEMMA RegisterPanicsServes ==
  ASSUME IInv, ReadyInv, NEW r \in Req, NEW s \in Sid, NEW w \in Want, RegisterPanics(r, s, w)
  PROVE  Serves
<1>0. SessionsSwept[s] \in Obj BY SweptValues DEF RegisterPanics
<1> SUFFICES ASSUME NEW x \in Obj, x = SessionsSwept[s] PROVE Serves
  BY <1>0
<1>1. sess[x].cmd = "unstarted" /\ ~sess[x].started
  <2>1. sess[x].cmd = "unstarted" BY DEF RegisterPanics
  <2> QED BY <2>1 DEF IInv, CmdInv, Role
<1>2. Told([SessSwept EXCEPT ![x].stop = "replaced"], Expiring \cup {x})
  BY SweptIsTold, SweptValues, ToldUpdates
<1>3. Phases[x] # "playing" BY <1>1, PhaseValues DEF PhaseOf
<1>4. Tells(Expiring \cup {x}, Idles)
  <2>1. Tells(Expiring, Idles) BY SweepIsSwept
  <2> QED BY <1>3, <2>1 DEF Tells
<1>5. /\ SweepAround([SessSwept EXCEPT ![x].stop = "replaced"])
      /\ wedged' = x /\ UNCHANGED <<count, pc, obj>>
  BY DEF RegisterPanics
<1>6. ServiceStep BY <1>2, <1>4, <1>5, CollectServes
<1>7. ReadyInv'
  <2> SUFFICES ASSUME NEW o \in Obj, ~sess'[o].started, sess'[o].stop # "none"
               PROVE  wedged' = o /\ \A q \in Req : ~(pc'[q] = "validating" /\ obj'[q] = o)
    BY DEF ReadyInv
  <2>1. ~sess[o].started /\ (sess[o].stop # "none" \/ o \in Expiring \cup {x})
    BY <1>2, <1>5 DEF SweepAround, Told
  <2>2. wedged = NoSession BY <1>5 DEF SweepAround, TranscoderFree
  <2>3. o = x
    <3>1. sess[o].stop # "none" => wedged = o BY <2>1 DEF ReadyInv
    <3>2. o # wedged BY <2>2 DEF NoSession, Obj
    <3> QED BY <2>1, <3>1, <3>2 DEF Expiring, Active
  <2>4. Registered(x)
    <3>1. x = sessions[s] BY SweptIds DEF NoSession, Obj
    <3>2. x # NoSession BY DEF NoSession, Obj
    <3> QED BY <3>1, <3>2 DEF Registered, IInv, MapInv
  <2>5. ~Locked(x) BY <1>5, <2>4 DEF SweepAround, TranscoderFree
  <2> QED BY <1>5, <2>3, <2>5 DEF Locked
<1> QED BY <1>6, <1>7 DEF Serves

LEMMA TakeoverTells ==
  ASSUME IInv, NEW r \in Req, NEW s \in Sid, NEW w \in Want, Takeover(r, s, w)
  PROVE  Tells(Halting(s), Idles \cup {s}) /\ \A o \in Halting(s) : sess[o].started
<1> DEFINE x == SessionsSwept[s]
<1>1. ASSUME NEW o \in Obj, Phases[o] = "playing", o \in Halting(s)
      PROVE  \E i \in Idles \cup {s} : sessions[i] = o
  <2>1. CASE o \in Expiring BY <1>1, <2>1, SweepIsSwept DEF Tells
  <2>2. CASE o = x
    <3>1. sessions[s] = o BY <2>2, SweptIds DEF NoSession, Obj
    <3> QED BY <3>1
  <2> QED BY <1>1, <2>1, <2>2 DEF Halting
<1>2. ASSUME NEW o \in Obj, Phases[o] = "playing", NEW i \in Idles \cup {s}, sessions[i] = o
      PROVE  o \in Halting(s)
  <2>1. CASE i \in Idles BY <1>2, <2>1, SweepIsSwept DEF Tells, Halting
  <2>2. CASE i = s
    <3>1. Active(o) BY <1>2, PhaseValues DEF PhaseOf, Active
    <3>2. x = o BY <1>2, <2>2, <3>1 DEF SessionsSwept, Evicting
    <3>3. Replaced(x) BY <3>1, <3>2 DEF Replaced, Active, IInv, CmdInv, Role, NoSession, Obj
    <3> QED BY <3>2, <3>3 DEF Halting
  <2> QED BY <2>1, <2>2
<1>3. \A o \in Halting(s) : sess[o].started
  BY TakeoverProcesses DEF IInv, CmdInv
<1> QED BY <1>1, <1>2, <1>3 DEF Tells

LEMMA RegisterFailsServes ==
  ASSUME IInv, ReadyInv, NEW r \in Req, NEW s \in Sid, NEW w \in Want, RegisterFails(r, s, w)
  PROVE  Serves
<1> DEFINE objects == SessReplaced(SessionsSwept[s])
<1>1. /\ Takeover(r, s, w) /\ sess' = objects /\ UNCHANGED <<count, pc, obj, wedged>>
      /\ sessions' = [SessionsSwept EXCEPT ![s] = NoSession]
  BY DEF RegisterFails
<1>2. Told(objects, Halting(s)) BY ReplacedIsTold
<1>3. Tells(Halting(s), Idles \cup {s}) /\ \A o \in Halting(s) : sess[o].started
  BY <1>1, TakeoverTells
<1>4. ReadyInv'
  <2>1. \A o \in Obj : ~sess'[o].started /\ sess'[o].stop # "none" =>
                         ~sess[o].started /\ sess[o].stop # "none"
    BY <1>1, <1>2, <1>3 DEF Told
  <2> QED BY <1>1, <2>1, ReadyKept
<1>5. Phases' = Service!Stopping(Idles \cup {s}) BY <1>1, <1>2, <1>3, NextPhases
<1>6. sessions' = Service!Without(Evicted \cup {s})
  <2>1. sessions' = [i \in Sid |-> IF i = s THEN NoSession ELSE SessionsSwept[i]]
    BY <1>1 DEF SessionsSwept
  <2> QED BY <2>1, PhaseValues DEF Service!Without, SessionsSwept, Evicted
<1>7. Service!Refuse(s, Evicted, Idles)
  BY <1>1, <1>5, <1>6, SweepIsSwept DEF Service!Refuse
<1> QED BY <1>4, <1>7, SweepIsSwept DEF Serves, ServiceStep, Service!Next

LEMMA RegisterServes ==
  ASSUME IInv, ReadyInv, NEW r \in Req, NEW s \in Sid, NEW w \in Want, Register(r, s, w)
  PROVE  Serves
<1> DEFINE objects == SessReplaced(SessionsSwept[s])
           new == count + 1
           told == Service!Stopping(Idles \cup {s})
<1>1. /\ Takeover(r, s, w) /\ count' = new /\ new \in Obj
      /\ sess' = [objects EXCEPT ![new] = NewSession(s, w)]
      /\ sessions' = [SessionsSwept EXCEPT ![s] = new]
      /\ UNCHANGED <<pc, obj, wedged>>
  BY DEF Register
<1>2. Told(objects, Halting(s)) /\ objects \in [Obj -> Session]
  BY ReplacedIsTold, ReplacedIsMarked DEF Marked
<1>3. Tells(Halting(s), Idles \cup {s}) /\ \A o \in Halting(s) : sess[o].started
  BY <1>1, TakeoverTells
<1>4. /\ \A o \in Obj : o # new => sess'[o] = objects[o]
      /\ ~sess'[new].started /\ sess'[new].stop = "none"
  BY <1>1, <1>2 DEF NewSession
<1>5. ReadyInv'
  <2>1. \A o \in Obj : ~sess'[o].started /\ sess'[o].stop # "none" =>
                         ~sess[o].started /\ sess[o].stop # "none"
    BY <1>2, <1>3, <1>4 DEF Told
  <2> QED BY <1>1, <2>1, ReadyKept
<1>6. Phases' = [told EXCEPT ![new] = "ready"]
  <2>1. told = [o \in Obj |-> told[o]] BY PhaseValues DEF Service!Stopping
  <2>2. count \in Nat /\ count' = count + 1 /\ count <= count' /\ count' \in Nat /\ new \in Nat
    BY <1>1, CountIsNat
  <2>3. \A o \in Obj : o \in Nat /\ (o <= count \/ o = new \/ o > count')
    BY <2>2, TranscoderAssumption DEF Obj
  <2> HIDE DEF told
  <2>4. ASSUME NEW o \in Obj PROVE Phases'[o] = IF o = new THEN "ready" ELSE told[o]
    <3>1. CASE o = new
      <4>1. ~(o > count') BY <2>2, <3>1
      <4> QED BY <1>4, <3>1, <4>1, NextPhaseValues
    <3>2. CASE o <= count
      <4>1. o # new BY <2>2, <2>3, <3>2
      <4> QED BY <1>2, <1>3, <1>4, <2>2, <3>2, <4>1, ToldPhases DEF told
    <3>3. CASE o > count'
      <4>1. o # new /\ o > count BY <2>2, <2>3, <3>3
      <4> QED BY <3>3, <4>1, UnmadePhases, NextPhaseValues DEF told
    <3> QED BY <2>3, <3>1, <3>2, <3>3
  <2> HIDE DEF new
  <2> QED BY <2>1, <2>4, NextPhaseValues
<1>7. sessions' = [Service!Without(Evicted) EXCEPT ![s] = new] BY <1>1, SweepIsSwept
<1>8. count < MaxSessions BY <1>1, CountIsNat, TranscoderAssumption DEF Obj
<1>9. Service!Open(s, Evicted, Idles)
  BY <1>1, <1>6, <1>7, <1>8, SweepIsSwept DEF Service!Open
<1> QED BY <1>5, <1>9, SweepIsSwept DEF Serves, ServiceStep, Service!Next

-----------------------------------------------------------------------------
(* Steps of one object, whose record becomes x.                              *)
LEMMA ObjectServes ==
  ASSUME IInv, NEW o \in Obj, o <= count, NEW x, sess' = [sess EXCEPT ![o] = x],
         sessions' = sessions, count' = count,
         \/ /\ x.started = sess[o].started /\ x.done = sess[o].done
            /\ sess[o].started => (x.stop = "none" <=> sess[o].stop = "none")
         \/ ~sess[o].started /\ x.started /\ ~x.done /\ x.stop = "none"
         \/ sess[o].started /\ ~sess[o].done /\ x.started /\ x.done
  PROVE  ServiceStep
<1>0. ~(o > count) BY CountIsNat, TranscoderAssumption DEF Obj
<1>1. sess'[o] = x /\ \A q \in Obj : q # o => sess'[q] = sess[q]
  BY DEF IInv, TypeOK
<1>2. \A q \in Obj : q # o => Phases'[q] = Phases[q]
  BY <1>1, PhaseValues, NextPhaseValues DEF PhaseOf
<1>3. Phases[o] = IF ~sess[o].started THEN "ready"
                  ELSE IF sess[o].done THEN "over"
                  ELSE IF sess[o].stop # "none" THEN "stopping" ELSE "playing"
  BY <1>0, PhaseValues DEF PhaseOf
<1>4. Phases'[o] = IF ~x.started THEN "ready"
                   ELSE IF x.done THEN "over"
                   ELSE IF x.stop # "none" THEN "stopping" ELSE "playing"
  BY <1>0, <1>1, NextPhaseValues
<1>5. \A v : Phases'[o] = v => Phases' = [Phases EXCEPT ![o] = v]
  <2>1. Phases = [q \in Obj |-> Phases[q]] BY DEF Phases
  <2> QED BY <1>2, <2>1, NextPhaseValues
<1>6. CASE /\ x.started = sess[o].started /\ x.done = sess[o].done
           /\ sess[o].started => (x.stop = "none" <=> sess[o].stop = "none")
  <2>1. Phases'[o] = Phases[o] BY <1>3, <1>4, <1>6
  <2> QED BY <1>2, <2>1, SamePhases
<1>7. CASE ~sess[o].started /\ x.started /\ ~x.done /\ x.stop = "none"
  <2>1. Phases[o] = "ready" /\ Phases'[o] = "playing" BY <1>3, <1>4, <1>7
  <2>2. Service!Play(o) BY <1>5, <2>1 DEF Service!Play
  <2> QED BY <2>2, PhaseValues DEF ServiceStep, Service!Next
<1>8. CASE sess[o].started /\ ~sess[o].done /\ x.started /\ x.done
  <2>1. Phases[o] \in {"playing", "stopping"} /\ Phases'[o] = "over" BY <1>3, <1>4, <1>8
  <2>2. Service!Finish(o) BY <1>5, <2>1 DEF Service!Finish
  <2> QED BY <2>2, PhaseValues DEF ServiceStep, Service!Next
<1> QED BY <1>6, <1>7, <1>8

LEMMA UnchangedServes ==
  ASSUME IInv, ReadyInv, UNCHANGED <<sessions, sess, count>>, wedged' = wedged,
         \A r \in Req : pc'[r] = "validating" =>
           (pc[r] = "validating" /\ obj'[r] = obj[r]) \/ ~Locked(obj'[r])
  PROVE  Serves
<1>1. ReadyInv' BY ReadyKept
<1>2. ServiceStep BY SamePhases, PhaseValues, NextPhaseValues DEF PhaseOf
<1> QED BY <1>1, <1>2 DEF Serves

LEMMA MovesServes == ASSUME IInv, ReadyInv, NEW r \in Req, Moves(r) PROVE Serves
<1>1. \A q \in Req : pc'[q] = "validating" =>
        (pc[q] = "validating" /\ obj'[q] = obj[q]) \/ ~Locked(obj'[q])
  <2>1. CASE StartDirect(r)
    BY <2>1 DEF StartDirect, Goto, IInv, TypeOK
  <2>2. CASE ~StartDirect(r)
    <3>1. PICK next \in Step : next # "validating" /\ Goto(r, next)
      BY <2>2 DEF Moves, StartJoins, ValidationFails, WaitServed, WaitFails, WaitGivesUp, OpenVOD,
                  Served, ManifestStep, Step
    <3> QED BY <3>1, GotoElsewhere
  <2> QED BY <2>1, <2>2
<1> QED BY <1>1, UnchangedServes DEF Moves

(* exec.Cmd.Start, of an object that nobody has marked.                      *)
LEMMA LaunchServes ==
  ASSUME IInv, ReadyInv, NEW r \in Req, pc[r] # "idle", NEW rec \in Session,
         LET o == obj[r] IN
           /\ ~sess[o].started /\ sess[o].stop = "none"
           /\ rec.started = sess[o].started /\ rec.done = sess[o].done /\ rec.stop = sess[o].stop,
         Launch(r, rec), UNCHANGED <<sessions, count, wedged>>
  PROVE  Serves
<1>0. obj[r] \in Obj BY HeldObject
<1> SUFFICES ASSUME NEW o \in Obj, o = obj[r] PROVE Serves
  BY <1>0
<1> DEFINE a == Attempt(rec)
           y == [a EXCEPT !.cmd = "first", !.started = TRUE]
           z == [a EXCEPT !.cmd = "unstarted"]
<1>1. o <= count BY HeldObject
<1>2. ~rec.started /\ ~rec.done /\ rec.stop = "none"
  <2>1. OwnInv(o) BY OwnInvs DEF IInv
  <2> QED BY <2>1 DEF OwnInv
<1>3. /\ a \in Session /\ a.started = rec.started /\ a.done = rec.done /\ a.stop = rec.stop
  BY TranscoderAssumption DEF Attempt, Session
<1>4. /\ y.started /\ ~y.done /\ y.stop = "none"
      /\ ~z.started /\ ~z.done /\ z.stop = "none"
  BY <1>2, <1>3 DEF Session
<1>5. \A q \in Req : pc'[q] = "validating" => pc[q] = "validating" /\ obj'[q] = obj[q]
  <2>1. PICK next \in Step : Goto(r, next) /\ next # "validating"
    BY DEF Launch, ManifestStep, Step
  <2> QED BY <2>1, GotoElsewhere
<1> HIDE DEF y, z
<1>6. CASE sess' = [sess EXCEPT ![o] = y]
  <2>1. sess'[o] = y /\ \A q \in Obj : q # o => sess'[q] = sess[q] BY <1>6 DEF IInv, TypeOK
  <2>2. ReadyInv' BY <1>4, <1>5, <2>1, ReadyKept
  <2>3. ServiceStep BY <1>1, <1>4, <1>6, ObjectServes
  <2> QED BY <2>2, <2>3 DEF Serves
<1>7. CASE sess' = [sess EXCEPT ![o] = z]
  <2>1. sess'[o] = z /\ \A q \in Obj : q # o => sess'[q] = sess[q] BY <1>7 DEF IInv, TypeOK
  <2>2. ReadyInv' BY <1>4, <1>5, <2>1, ReadyKept
  <2>3. z.started = sess[o].started /\ z.done = sess[o].done
    BY <1>2, <1>3 DEF Session, z, a
  <2>4. ServiceStep BY <1>1, <1>7, <2>3, ObjectServes
  <2> QED BY <2>2, <2>4 DEF Serves
<1> QED BY <1>6, <1>7 DEF Launch, y, z, a

(* A source that validates belongs to an object that no panic has marked, and *)
(* so does one that is not locked.                                           *)
LEMMA StartedUnmarked ==
  ASSUME ReadyInv, NEW o \in Obj, ~sess[o].started,
         ~Locked(o) \/ \E r \in Req : pc[r] = "validating" /\ obj[r] = o
  PROVE  sess[o].stop = "none"
BY DEF ReadyInv, Locked

LEMMA StartProxiedServes == ASSUME IInv, ReadyInv, NEW r \in Req, StartProxied(r) PROVE Serves
<1>1. obj[r] \in Obj /\ sess[obj[r]] \in Session /\ pc[r] # "idle"
  BY HeldObject DEF StartProxied
<1>2. ~sess[obj[r]].started /\ ~Locked(obj[r]) BY DEF StartProxied, MayStart
<1>3. sess[obj[r]].stop = "none" BY <1>1, <1>2, StartedUnmarked
<1> QED BY <1>1, <1>2, <1>3, LaunchServes DEF StartProxied

LEMMA ValidationEndsServes ==
  ASSUME IInv, ReadyInv, NEW r \in Req, ValidationEnds(r) PROVE Serves
<1>0. pc[r] = "validating" /\ obj[r] \in Obj BY HeldObject DEF ValidationEnds
<1> SUFFICES ASSUME NEW o \in Obj, o = obj[r] PROVE Serves
  BY <1>0
<1>1. o <= count /\ sess[o] \in Session BY <1>0, HeldObject
<1>2. ~sess[o].started /\ sess[o].src \in Source \ Proxied
  BY <1>0, <1>1 DEF IInv, ValidatingInv, Session
<1>3. sess[o].stop = "none" BY <1>0, <1>2, StartedUnmarked
<1>4. PICK known \in BOOLEAN :
        \/ Launch(r, ValidRecord(o, known))
        \/ sess' = [sess EXCEPT ![o] = ValidRecord(o, TRUE)] /\ Goto(r, "idle")
  BY DEF ValidationEnds
<1>5. \A k \in BOOLEAN :
        LET x == ValidRecord(o, k) IN
        /\ x \in Session /\ x.started = sess[o].started /\ x.done = sess[o].done
        /\ x.stop = sess[o].stop
  <2>1. Validated[sess[o].src] \in Source BY <1>2, TranscoderAssumption
  <2>2. ASSUME NEW u \in Session, NEW v \in Source, NEW k \in BOOLEAN
        PROVE  LET x == [u EXCEPT !.src = v, !.vod = @ \/ k] IN
               x \in Session /\ x.started = u.started /\ x.done = u.done /\ x.stop = u.stop
    <3>1. (u.vod \/ k) \in BOOLEAN BY DEF Session
    <3> QED BY <3>1 DEF Session
  <2> QED BY <1>1, <2>1, <2>2 DEF ValidRecord
<1>6. CASE Launch(r, ValidRecord(o, known))
  BY <1>0, <1>2, <1>3, <1>5, <1>6, LaunchServes DEF ValidationEnds
<1>7. CASE sess' = [sess EXCEPT ![o] = ValidRecord(o, TRUE)] /\ Goto(r, "idle")
  <2> DEFINE x == ValidRecord(o, TRUE)
  <2>1. x.started = sess[o].started /\ x.done = sess[o].done /\ x.stop = sess[o].stop BY <1>5
  <2>2. sess' = [sess EXCEPT ![o] = x] BY <1>7
  <2> HIDE DEF x
  <2>3. sess'[o] = x /\ \A q \in Obj : q # o => sess'[q] = sess[q] BY <2>2 DEF IInv, TypeOK
  <2>4. UNCHANGED <<sessions, count, wedged>> BY DEF ValidationEnds
  <2>5. \A q \in Req : pc'[q] = "validating" => pc[q] = "validating" /\ obj'[q] = obj[q]
    BY <1>7, GotoElsewhere
  <2>6. ReadyInv' BY <2>1, <2>3, <2>4, <2>5, ReadyKept
  <2>7. ServiceStep BY <1>1, <2>1, <2>2, <2>4, ObjectServes
  <2> QED BY <2>6, <2>7 DEF Serves
<1> QED BY <1>4, <1>6, <1>7

LEMMA GrowIdleServes == ASSUME IInv, ReadyInv, NEW o \in Obj, GrowIdle(o) PROVE Serves
<1> DEFINE x == [sess[o] EXCEPT !.fresh = FALSE]
<1>1. x.started = sess[o].started /\ x.done = sess[o].done /\ x.stop = sess[o].stop
  <2>1. sess[o] \in Session BY DEF IInv, TypeOK
  <2> QED BY <2>1 DEF Session
<1>2. sess' = [sess EXCEPT ![o] = x] /\ UNCHANGED <<sessions, count, wedged, pc, obj>>
  BY DEF GrowIdle, IInv, TypeOK
<1> HIDE DEF x
<1>3. sess'[o] = x /\ \A q \in Obj : q # o => sess'[q] = sess[q] BY <1>2 DEF IInv, TypeOK
<1>4. ReadyInv' BY <1>1, <1>2, <1>3, ReadyKept
<1>5. o <= count BY MadeObjects DEF GrowIdle
<1>6. ServiceStep BY <1>1, <1>2, <1>5, ObjectServes
<1> QED BY <1>4, <1>6 DEF Serves

(* waitForProcess: the end of the last process ends the session, that of a   *)
(* copy which falls back shows to nobody.                                    *)
LEMMA WaitedServes ==
  ASSUME IInv, ReadyInv, NEW o \in Obj, Ended(o), NEW x, sess' = [sess EXCEPT ![o] = x],
         UNCHANGED <<sessions, count, wedged, pc, obj>>, x.started = sess[o].started,
         x.done \/ (sess[o].stop = "none" /\ x.done = FALSE /\ x.stop = "none")
  PROVE  Serves
<1>1. o <= count BY MadeObjects DEF Ended, Role
<1>2. sess[o].started /\ ~sess[o].done /\ sess[o].done \in BOOLEAN
  <2>1. OwnInv(o) BY OwnInvs DEF IInv
  <2>2. sess[o] \in Session BY DEF IInv, TypeOK
  <2> QED BY <2>1, <2>2 DEF OwnInv, Ended, Session
<1>3. sess'[o] = x /\ \A q \in Obj : q # o => sess'[q] = sess[q] BY DEF IInv, TypeOK
<1>4. ReadyInv' BY <1>2, <1>3, ReadyKept
<1>5. ServiceStep BY <1>1, <1>2, ObjectServes
<1> QED BY <1>4, <1>5 DEF Serves

LEMMA ProcessServes == ASSUME IInv, ReadyInv, NEW o \in Obj, Process(o) PROVE Serves
<1>0. sess[o] \in Session BY DEF IInv, TypeOK
<1>1. ASSUME NEW p \in Role, Write(o, p) \/ End(o, p) \/ Die(o, p) PROVE Serves
  BY <1>1, UnchangedServes DEF Write, End, Die
<1>2. CASE Settle(o)
  <2>1. LET x == SettledRecord(o) IN x.started = sess[o].started /\ x.done
    BY <1>0 DEF SettledRecord, Session
  <2> QED BY <1>2, <2>1, WaitedServes DEF Settle
<1>3. CASE FallBack(o)
  <2>1. LET x == [FallbackRecord(o) EXCEPT !.cmd = "fallback"] IN
        x.started = sess[o].started /\ x.done = FALSE /\ x.stop = "none"
    BY <1>0 DEF FallbackRecord, Session
  <2> QED BY <1>3, <2>1, WaitedServes DEF FallBack, CopyMayFallBack
<1>4. CASE FallbackLost(o)
  <2>1. LET x == FallbackRecord(o) IN
        x.started = sess[o].started /\ x.done = FALSE /\ x.stop = "none"
    BY <1>0 DEF FallbackRecord, Session
  <2> QED BY <1>4, <2>1, WaitedServes DEF FallbackLost, CopyMayFallBack
<1> QED BY <1>1, <1>2, <1>3, <1>4 DEF Process

LEMMA NextServes == IInv /\ ReadyInv /\ [Next]_vars => Serves
<1> SUFFICES ASSUME IInv, ReadyInv, [Next]_vars PROVE Serves
  OBVIOUS
<1>1. CASE Tick BY <1>1, TickServes
<1>2. ASSUME NEW r \in Req, Request(r) PROVE Serves
  <2>1. ASSUME NEW s \in Sid, NEW w \in Want,
               \/ Reuse(r, s, w) \/ Register(r, s, w)
               \/ RegisterFails(r, s, w) \/ RegisterPanics(r, s, w)
        PROVE  Serves
    BY <2>1, ReuseServes, RegisterServes, RegisterFailsServes, RegisterPanicsServes
  <2>2. CASE StartProxied(r) BY <2>2, StartProxiedServes
  <2>3. CASE ValidationEnds(r) BY <2>3, ValidationEndsServes
  <2>4. CASE Moves(r) BY <2>4, MovesServes
  <2>5. CASE Looks(r) BY <2>5, LooksServes
  <2> QED BY <1>2, <2>1, <2>2, <2>3, <2>4, <2>5 DEF Request
<1>3. ASSUME NEW o \in Obj, GrowIdle(o) PROVE Serves BY <1>3, GrowIdleServes
<1>4. ASSUME NEW o \in Obj, Process(o) PROVE Serves BY <1>4, ProcessServes
<1>5. CASE UNCHANGED vars BY <1>5, UnchangedServes DEF vars
<1> QED BY <1>1, <1>2, <1>3, <1>4, <1>5 DEF Next

LEMMA InitServes == Init => ReadyInv /\ Service!Init
<1> SUFFICES ASSUME Init PROVE ReadyInv /\ Service!Init
  OBVIOUS
<1>1. \A o \in Obj : sess[o].stop = "none" BY DEF Init, NewSession
<1>2. ReadyInv BY <1>1 DEF ReadyInv
<1>3. sessions = [s \in Sid |-> Service!NoSession] /\ count = 0 BY PhaseValues DEF Init
<1>4. \A o \in Obj : Phases[o] = "unmade"
  <2>1. \A o \in Obj : o > 0 BY TranscoderAssumption DEF Obj
  <2> QED BY <1>3, <2>1, PhaseValues DEF PhaseOf
<1>5. Phases = [o \in Service!SessionNumber |-> "unmade"] BY <1>4, PhaseValues DEF Phases
<1> QED BY <1>2, <1>3, <1>5 DEF Service!Init

(* The transcoder is a TranscoderService to its callers, for any number of   *)
(* ids, requests and sources and whatever fails: also with direct sources    *)
(* and processes that do not spawn, which the run leaves out.                *)
THEOREM Refinement == Spec => ImplementsService
<1>1. Init => IInv /\ ReadyInv /\ Service!Init BY InitInv, InitServes
<1>2. IInv /\ ReadyInv /\ [Next]_vars => IInv' /\ ReadyInv' /\ [Service!Next]_(Service!vars)
  BY NextSound, NextServes DEF Sound, Serves, ServiceStep
<1> QED BY <1>1, <1>2, PTL DEF Spec, ImplementsService, Service!Spec
-----------------------------------------------------------------------------
(* The panic of register.                                                    *)

(* Every first process that was started exists. *)
AllSpawned == wedged = NoSession /\ \A o \in Obj : sess[o].cmd # "unstarted"

LEMMA SpawnedStep ==
  ASSUME "spawn" \notin Faults, IInv, AllSpawned, [Next]_vars
  PROVE  AllSpawned'
<1>0. \A o \in Obj : sess[o] \in Session /\ sess[o].cmd # "unstarted"
  BY DEF IInv, TypeOK, AllSpawned
<1>1. ASSUME NEW o \in Obj, NEW rec \in Session, rec.cmd # "unstarted", sess' = [sess EXCEPT ![o] = rec],
             wedged' = wedged
      PROVE  AllSpawned'
  BY <1>0, <1>1 DEF AllSpawned, IInv, TypeOK
<1>2. ASSUME NEW objects, Marked(objects), sess' = objects, wedged' = wedged PROVE AllSpawned'
  BY <1>0, <1>2 DEF AllSpawned, Marked
<1>3. Marked(SessSwept) /\ \A o \in Obj : Marked([SessSwept EXCEPT ![o].fresh = TRUE])
  BY SweptIsMarked, MarkedUpdates
<1>4. CASE Tick BY <1>2, <1>3, <1>4 DEF Tick, SweepAround
<1>5. ASSUME NEW r \in Req, NEW s \in Sid, NEW w \in Want, Reuse(r, s, w) PROVE AllSpawned'
  <2>1. SessionsSwept[s] \in Obj BY <1>5, SweptValues DEF Reuse
  <2> QED BY <1>2, <1>3, <1>5, <2>1 DEF Reuse, SweepAround
<1>6. ASSUME NEW r \in Req, NEW s \in Sid, NEW w \in Want,
             Register(r, s, w) \/ RegisterFails(r, s, w)
      PROVE  AllSpawned'
  <2> DEFINE kept == SessReplaced(SessionsSwept[s])
  <2>1. Marked(kept) BY ReplacedIsMarked
  <2>2. sess' = kept \/ sess' = [kept EXCEPT ![count + 1] = NewSession(s, w)]
    BY <1>6 DEF Register, RegisterFails
  <2>3. wedged' = wedged BY <1>6 DEF Register, RegisterFails
  <2> HIDE DEF kept
  <2>4. \A o \in Obj : sess'[o] = kept[o] \/ sess'[o] = NewSession(s, w)
    BY <2>1, <2>2 DEF Marked
  <2> QED BY <1>0, <2>1, <2>3, <2>4 DEF AllSpawned, NewSession, Marked
<1>7. ASSUME NEW r \in Req, NEW s \in Sid, NEW w \in Want, RegisterPanics(r, s, w) PROVE FALSE
  <2>1. SessionsSwept[s] \in Obj BY <1>7, SweptValues DEF RegisterPanics
  <2> QED BY <1>7, <2>1, <1>0 DEF RegisterPanics
<1>8. ASSUME NEW r \in Req, NEW rec \in Session, obj[r] \in Obj, rec.cmd # "unstarted",
             Launch(r, rec), wedged' = wedged
      PROVE  AllSpawned'
  <2> DEFINE launched == [Attempt(rec) EXCEPT !.cmd = "first", !.started = TRUE]
  <2>1. launched \in Session /\ launched.cmd = "first" BY TranscoderAssumption DEF Attempt, Session, Role
  <2>2. sess' = [sess EXCEPT ![obj[r]] = launched] BY <1>8 DEF Launch
  <2> HIDE DEF launched
  <2> QED BY <1>1, <1>8, <2>1, <2>2
<1>9. ASSUME NEW r \in Req, StartProxied(r) \/ ValidationEnds(r) PROVE AllSpawned'
  <2>1. obj[r] \in Obj /\ sess[obj[r]] \in Session /\ sess[obj[r]].cmd # "unstarted" /\ wedged' = wedged
    BY <1>0, <1>9 DEF StartProxied, ValidationEnds, IInv, TypeOK
  <2>2. CASE StartProxied(r) BY <1>8, <2>1, <2>2 DEF StartProxied
  <2>3. CASE ValidationEnds(r)
    <3> PICK known \in BOOLEAN :
          \/ Launch(r, ValidRecord(obj[r], known))
          \/ sess' = [sess EXCEPT ![obj[r]] = ValidRecord(obj[r], TRUE)]
      BY <2>3 DEF ValidationEnds
    <3>1. \A k \in BOOLEAN : ValidRecord(obj[r], k) \in Session /\ ValidRecord(obj[r], k).cmd # "unstarted"
      <4>1. sess[obj[r]].src \in Source \ Proxied
        BY <2>1, <2>3 DEF ValidationEnds, IInv, ValidatingInv, Session
      <4>2. Validated[sess[obj[r]].src] \in Source BY <4>1, TranscoderAssumption
      <4> QED BY <2>1, <4>2 DEF ValidRecord, Session
    <3> QED BY <1>1, <1>8, <2>1, <3>1
  <2> QED BY <1>9, <2>2, <2>3
<1>10. ASSUME NEW r \in Req, Moves(r) PROVE AllSpawned'
  BY <1>10 DEF Moves, AllSpawned
<1>11. ASSUME NEW r \in Req, Looks(r) PROVE AllSpawned'
  <2>1. ASSUME NEW s \in Sid, NEW next, Lookup(r, s, next) PROVE AllSpawned'
    <3>1. SessionsSwept[s] \in Obj BY <2>1, SweptValues DEF Lookup
    <3> QED BY <1>2, <1>3, <1>11, <2>1, <3>1 DEF Lookup, SweepAround, Looks
  <2>2. ASSUME NEW s, NotFound(r, s) PROVE AllSpawned'
    BY <1>2, <1>3, <1>11, <2>2 DEF NotFound, SweepAround, Looks
  <2>3. CASE FetchPath(r) \/ Touch(r)
    <3> DEFINE o == SessionsSwept[sess[obj[r]].id]
    <3>1. o # NoSession => o \in Obj
      <4>1. obj[r] \in Obj BY <2>3 DEF FetchPath, Touch, IInv, TypeOK
      <4>2. sess[obj[r]].id \in Sid BY <1>0, <4>1 DEF Session
      <4> QED BY <4>2, SweptValues
    <3>2. sess' = SessSwept \/ (o # NoSession /\ sess' = [SessSwept EXCEPT ![o].fresh = TRUE])
      BY <2>3 DEF FetchPath, Touch, SweepAround
    <3> QED BY <1>2, <1>3, <1>11, <3>1, <3>2 DEF Looks
  <2> QED BY <1>11, <2>1, <2>2, <2>3 DEF Looks, StartLooksUp, Fetch, FetchLosesSession
<1>12. ASSUME NEW o \in Obj, GrowIdle(o) PROVE AllSpawned'
  <2>1. [sess[o] EXCEPT !.fresh = FALSE] \in Session /\ [sess[o] EXCEPT !.fresh = FALSE].cmd = sess[o].cmd
    BY <1>0 DEF Session
  <2> QED BY <1>0, <1>1, <1>12, <2>1 DEF GrowIdle
<1>13. ASSUME NEW o \in Obj, Process(o) PROVE AllSpawned'
  <2>1. CASE \E p \in Role : Write(o, p) \/ End(o, p) \/ Die(o, p)
    BY <2>1 DEF Write, End, Die, AllSpawned
  <2>2. CASE Settle(o)
    <3>1. SettledRecord(o) \in Session /\ SettledRecord(o).cmd = sess[o].cmd
      BY <1>0 DEF SettledRecord, Session, Stop
    <3> QED BY <1>0, <1>1, <2>2, <3>1 DEF Settle
  <2>3. CASE FallBack(o)
    <3> DEFINE x == [FallbackRecord(o) EXCEPT !.cmd = "fallback"]
    <3>1. x \in Session /\ x.cmd = "fallback"
      BY <1>0 DEF FallbackRecord, Session, Stop, Role
    <3>2. sess' = [sess EXCEPT ![o] = x] /\ wedged' = wedged BY <2>3 DEF FallBack
    <3> HIDE DEF x
    <3> QED BY <1>1, <3>1, <3>2
  <2>4. CASE FallbackLost(o)
    <3>1. FallbackRecord(o) \in Session /\ FallbackRecord(o).cmd = sess[o].cmd
      BY <1>0 DEF FallbackRecord, Session, Stop
    <3> QED BY <1>0, <1>1, <2>4, <3>1 DEF FallbackLost
  <2> QED BY <1>13, <2>1, <2>2, <2>3, <2>4 DEF Process
<1>14. CASE UNCHANGED vars BY <1>14 DEF vars, AllSpawned
<1> QED
  BY <1>4, <1>5, <1>6, <1>7, <1>9, <1>10, <1>11, <1>12, <1>13, <1>14 DEF Next, Request

(* A first process that cannot be spawned is the only thing that keeps       *)
(* register from coming back: without one, no order of requests, sweeps and  *)
(* processes makes it panic with the transcoder's locks held.                *)
THEOREM PanicNeedsFailedSpawn ==
  ASSUME "spawn" \notin Faults PROVE Spec => []RegisterComesBack
<1>1. Init => AllSpawned BY DEF Init, AllSpawned, NewSession
<1>2. IInv /\ AllSpawned /\ [Next]_vars => AllSpawned' BY SpawnedStep
<1>3. AllSpawned => RegisterComesBack BY DEF AllSpawned, RegisterComesBack
<1> QED BY <1>1, <1>2, <1>3, Invariance, PTL DEF Spec

(* And once it has panicked, the transcoder never serves again: no session   *)
(* is registered, replaced, swept or removed, of whatever id.                *)
PanicIsForEver ==
  [][wedged # NoSession => UNCHANGED <<sessions, dirs, count, wedged>>]_vars

THEOREM PanicLocksForEver == Spec => PanicIsForEver
<1> DEFINE Frozen == UNCHANGED <<sessions, dirs, count, wedged>>
<1>1. ASSUME [Next]_vars, wedged # NoSession PROVE Frozen
  <2>0. ~TranscoderFree BY <1>1 DEF TranscoderFree
  <2>1. ASSUME NEW r \in Req, NEW s \in Sid, NEW w \in Want,
               Reuse(r, s, w) \/ Register(r, s, w) \/ RegisterFails(r, s, w) \/ RegisterPanics(r, s, w)
        PROVE  FALSE
    BY <2>0, <2>1 DEF Reuse, Register, RegisterFails, RegisterPanics, Takeover, SweepAround
  <2>2. ASSUME NEW r \in Req, StartProxied(r) \/ ValidationEnds(r) \/ Moves(r) PROVE Frozen
    BY <2>2 DEF StartProxied, ValidationEnds, Moves, files
  <2>3. ASSUME NEW r \in Req, Looks(r) PROVE FALSE
    BY <2>0, <2>3 DEF Looks, StartLooksUp, Fetch, FetchPath, FetchLosesSession, Touch, Lookup, NotFound, SweepAround
  <2>4. ASSUME NEW o \in Obj, GrowIdle(o) \/ Process(o) PROVE Frozen
    BY <2>4 DEF GrowIdle, Process, Write, End, Die, Settle, FallBack, FallbackLost, files
  <2>5. CASE Tick BY <2>0, <2>5 DEF Tick, SweepAround
  <2>6. CASE UNCHANGED vars BY <2>6 DEF vars, files
  <2> QED BY <1>1, <2>1, <2>2, <2>3, <2>4, <2>5, <2>6 DEF Next, Request
<1>2. [Next]_vars => [wedged # NoSession => Frozen]_vars BY <1>1
<1> QED BY <1>2, PTL DEF Spec, PanicIsForEver
=============================================================================
