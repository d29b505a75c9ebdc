------------------------- MODULE MediaTargetProofs -------------------------
(***************************************************************************)
(* Proofs about MediaTarget, for every set of URLs and hosts, every policy *)
(* and every limit of redirects.                                           *)
(***************************************************************************)
EXTENDS MediaTarget, TLAPS

LEMMA LimitIsPositive == Limit \in Nat /\ 1 <= Limit
BY TargetAssumption DEF Limit

LEMMA InitInv == Init => IInv
<1> SUFFICES ASSUME Init PROVE IInv
  OBVIOUS
<1>1. PICK u \in URL : call = [NewCall("resolve", "HEAD", u, FALSE) EXCEPT !.at = "done"]
  BY DEF Init
<1>2. TypeOK
  BY <1>1 DEF Init, TypeOK, NewCall, Call, Place, Kind, Method, Answer, Result
<1>3. StaysPermitted /\ ConnectsPublicly /\ ResolvedHasAnswered
  BY <1>1 DEF Init, StaysPermitted, ConnectsPublicly, ResolvedHasAnswered, NewCall
<1>4. CheckedInv /\ AnsweredInv
  BY <1>1 DEF Init, CheckedInv, AnsweredInv, NewCall, At
<1>5. BudgetInv
  BY <1>1, LimitIsPositive DEF Init, BudgetInv, Before, NewCall
<1> QED BY <1>2, <1>3, <1>4, <1>5 DEF IInv

(* A new call.                                                               *)
LEMMA BeginStep ==
  ASSUME IInv, NEW kind \in Kind, NEW method \in Method, NEW u \in URL,
         NEW proxied \in BOOLEAN, Begin(kind, method, u, proxied)
  PROVE  IInv'
<1> USE DEF IInv, Begin, NewCall
<1>1. call' \in Call
  BY DEF Kind, Call, Place, Kind, Method, Answer, Result
<1>2. TypeOK'
  BY <1>1 DEF TypeOK
<1>3. StaysPermitted' /\ ConnectsPublicly' /\ ResolvedHasAnswered'
  BY DEF StaysPermitted, ConnectsPublicly, ResolvedHasAnswered
<1>4. CheckedInv' /\ AnsweredInv'
  BY DEF CheckedInv, AnsweredInv, At, MayBeSent, Kind
<1>5. BudgetInv'
  BY LimitIsPositive DEF BudgetInv, Before, Limit
<1> QED BY <1>2, <1>3, <1>4, <1>5

(* The step that makes a request.                                            *)
LEMMA SendStep == ASSUME IInv, Send PROVE IInv'
<1> USE DEF IInv, Send, Goto, At
<1>1. PICK address \in Dialed(call.url) :
        sent' = sent \cup {<<call.method, call.url, address>>}
  OBVIOUS
<1>2. address \in Address /\ (~AllowPrivate => address = "public")
  BY TargetAssumption DEF TypeOK, Dialed, Address, Call
<1>3. call' = [call EXCEPT !.at = "waiting"] /\ call \in Call
  BY DEF TypeOK
<1>4. TypeOK'
  BY <1>1, <1>2, <1>3 DEF TypeOK, Call, Place
<1>5. /\ call'.at = "waiting" /\ call'.url = call.url /\ call'.kind = call.kind
      /\ call'.source = call.source /\ call'.method = call.method
      /\ call'.via = call.via /\ call'.result = call.result /\ call'.answer = call.answer
  BY <1>3 DEF Call
<1>6. StaysPermitted'
  BY <1>1, <1>5 DEF StaysPermitted, CheckedInv, MayBeSent
<1>7. ConnectsPublicly'
  BY <1>1, <1>2 DEF ConnectsPublicly
<1>8. ResolvedHasAnswered' /\ CheckedInv' /\ AnsweredInv'
  BY <1>1, <1>2, <1>5 DEF ResolvedHasAnswered, CheckedInv, AnsweredInv, WasSent, MayBeSent
<1>9. BudgetInv'
  <2>1. count \in Nat /\ count' = count + 1 /\ Before' = Before
    BY <1>5 DEF TypeOK, Before, Limit
  <2>2. call.via \in Nat /\ Before \in Nat
    BY <1>3, LimitIsPositive DEF Call, Before
  <2> QED BY <1>5, <2>1, <2>2, LimitIsPositive DEF BudgetInv, Limit
<1> QED BY <1>4, <1>6, <1>7, <1>8, <1>9

(* The steps that make no request: they keep the histories.                  *)
LEMMA QuietStep ==
  ASSUME IInv, UNCHANGED <<sent, count>>, call' \in Call, dns' \in [Host -> SUBSET Address],
         call'.kind = call.kind, call'.source = call.source,
         ResolvedHasAnswered', CheckedInv', AnsweredInv', BudgetInv'
  PROVE  IInv'
BY DEF IInv, TypeOK, StaysPermitted, ConnectsPublicly

(* ... and those that only move the call on.                                 *)
LEMMA MoveStep ==
  ASSUME IInv, UNCHANGED <<dns, sent, count>>, NEW place \in Place,
         call' = [call EXCEPT !.at = place],
         place = "handing" => call.at = "checking" /\ call.kind # "resolve",
         place \in {"handing", "sending"} => MayBeSent(call.url),
         call.at = "checking" /\ call.kind = "resolve" => call.source \in Permitted,
         place \notin {"waiting", "answered", "done", "routing", "checking"},
         place \in {"handing", "sending", "following"} =>
           call.at \in {"routing", "checking", "handing", "following"},
         ~At("done"),
         place = "confirming" => WasSent /\ call.answer \notin {"none", "error", "redirect", "login"}
  PROVE  IInv'
<1>1. call \in Call /\ count \in Nat BY DEF IInv, TypeOK
<1>2. /\ call'.at = place /\ call'.url = call.url /\ call'.kind = call.kind
      /\ call'.source = call.source /\ call'.method = call.method
      /\ call'.via = call.via /\ call'.result = call.result /\ call'.answer = call.answer
      /\ call' \in Call
  BY <1>1 DEF Call
<1>3. ResolvedHasAnswered' BY <1>2 DEF IInv, ResolvedHasAnswered
<1>4. CheckedInv' BY <1>2 DEF IInv, CheckedInv, MayBeSent, At
<1>5. AnsweredInv' BY <1>2 DEF IInv, AnsweredInv, WasSent, At
<1>6. BudgetInv' BY <1>2 DEF IInv, BudgetInv, Before, Limit
<1> QED BY <1>2, <1>3, <1>4, <1>5, <1>6, QuietStep DEF IInv, TypeOK

(* ... or end it.                                                            *)
LEMMA FinishStep ==
  ASSUME IInv, UNCHANGED <<dns, sent, count>>, NEW result \in Result, Finish(result),
         result = "resolved" => call.url \in Permitted /\ WasSent
                                /\ call.answer \notin {"error", "redirect", "login"}
  PROVE  IInv'
<1>1. call \in Call BY DEF IInv, TypeOK
<1>2. /\ call'.at = "done" /\ call'.url = call.url /\ call'.kind = call.kind
      /\ call'.source = call.source /\ call'.method = call.method
      /\ call'.via = call.via /\ call'.result = result /\ call'.answer = call.answer
      /\ call' \in Call
  BY <1>1 DEF Call, Finish, Place
<1>3. ResolvedHasAnswered' BY <1>2 DEF ResolvedHasAnswered, WasSent
<1>4. CheckedInv' BY <1>2 DEF CheckedInv, At
<1>5. AnsweredInv' BY <1>2 DEF AnsweredInv, At
<1>6. BudgetInv' BY <1>2 DEF IInv, BudgetInv, Before, Limit
<1> QED BY <1>2, <1>3, <1>4, <1>5, <1>6, QuietStep DEF IInv, TypeOK

(* An answer, or the lack of one.                                            *)
LEMMA OutcomeStep ==
  ASSUME IInv, UNCHANGED <<dns, sent, count>>, NEW answer \in Answer \cup {"error"},
         call.at \in {"sending", "waiting", "following"},
         answer # "error" => At("waiting"),
         call' = [call EXCEPT !.at = "answered", !.answer = answer]
  PROVE  IInv'
<1>1. call \in Call BY DEF IInv, TypeOK
<1>2. /\ call'.at = "answered" /\ call'.url = call.url /\ call'.kind = call.kind
      /\ call'.source = call.source /\ call'.method = call.method
      /\ call'.via = call.via /\ call'.result = call.result /\ call'.answer = answer
      /\ call' \in Call
  BY <1>1 DEF Call, Place
<1>3. ResolvedHasAnswered' BY <1>2 DEF IInv, AnsweredInv, At, ResolvedHasAnswered
<1>4. CheckedInv' BY <1>2 DEF IInv, CheckedInv, At
<1>5. AnsweredInv' BY <1>2 DEF IInv, AnsweredInv, At, WasSent
<1>6. BudgetInv' BY <1>2 DEF IInv, BudgetInv, Before, Limit
<1> QED BY <1>2, <1>3, <1>4, <1>5, <1>6, QuietStep DEF IInv, TypeOK

-----------------------------------------------------------------------------
(* The steps, one by one.                                                    *)

LEMMA RouteStep == ASSUME IInv, NEW mapping \in MappingKind, Route(mapping) PROVE IInv'
<1>1. CASE mapping = "strm" /\ Goto("checking")
  <2>1. call' = [call EXCEPT !.at = "checking"] /\ call \in Call /\ At("routing")
    BY <1>1 DEF Route, Goto, IInv, TypeOK
  <2>2. /\ call'.at = "checking" /\ call'.url = call.url /\ call'.kind = call.kind
        /\ call'.source = call.source /\ call'.method = call.method
        /\ call'.via = call.via /\ call'.result = call.result /\ call' \in Call
    BY <2>1 DEF Call, Place
  <2>3. ResolvedHasAnswered' /\ CheckedInv' /\ AnsweredInv'
    BY <2>1, <2>2 DEF IInv, ResolvedHasAnswered, CheckedInv, AnsweredInv, At
  <2>4. BudgetInv'
    BY <1>1, <2>1, <2>2 DEF Route, IInv, BudgetInv, Before, Limit, At
  <2> QED BY <1>1, <2>2, <2>3, <2>4, QuietStep DEF Route, IInv, TypeOK
<1>2. CASE ~(mapping = "strm" /\ Goto("checking"))
  <2>1. PICK result \in {"plex", "failed", "preflight"} : Finish(result)
    BY <1>2 DEF Route, MappingKind
  <2> QED BY <2>1, FinishStep DEF Route, Result
<1> QED BY <1>1, <1>2

LEMMA CheckStep == ASSUME IInv, Check PROVE IInv'
<1>1. CASE Finish("failed")
  BY <1>1, FinishStep DEF Check, Result
<1>2. CASE Valid(call.url) /\ Goto(IF call.kind = "part" THEN "handing" ELSE "sending")
  <2>1. MayBeSent(call.url) BY <1>2 DEF Valid, MayBeSent
  <2>2. call.kind = "resolve" => call.source = call.url
    BY DEF Check, IInv, CheckedInv, At
  <2> QED BY <1>2, <2>1, <2>2, MoveStep DEF Check, Goto, At, Place, Valid
<1> QED BY <1>1, <1>2 DEF Check

LEMMA HandOutStep == ASSUME IInv, HandOut PROVE IInv'
<1>1. CASE Goto("sending")
  BY <1>1, MoveStep DEF HandOut, Goto, At, Place, IInv, CheckedInv
<1>2. CASE ~Goto("sending")
  <2>1. PICK result \in {"failed", "redirected"} : Finish(result) BY <1>2 DEF HandOut
  <2> QED BY <2>1, FinishStep DEF HandOut, Result
<1> QED BY <1>1, <1>2

LEMMA FollowStep == ASSUME IInv, Follow PROVE IInv'
<1>1. CASE CheckRedirect(call.url) /\ Goto("sending")
  BY <1>1, MoveStep DEF Follow, Goto, At, Place, CheckRedirect, Valid, MayBeSent
<1>2. CASE call' = [call EXCEPT !.at = "answered", !.answer = "error"]
  BY <1>2, OutcomeStep DEF Follow, At
<1> QED BY <1>1, <1>2 DEF Follow

LEMMA FailsStep == ASSUME IInv, Fails PROVE IInv'
BY OutcomeStep DEF Fails

LEMMA AnsweredStep ==
  ASSUME IInv, NEW answer \in Answer, NEW u \in URL, Answered(answer, u) PROVE IInv'
<1>1. CASE answer = "redirect" /\ Followable(call.via + 1)
  <2>1. call \in Call /\ call' = [call EXCEPT !.at = "following", !.url = u, !.via = @ + 1]
    BY <1>1 DEF Answered, IInv, TypeOK
  <2>2. /\ call'.at = "following" /\ call'.url = u /\ call'.kind = call.kind
        /\ call'.source = call.source /\ call'.method = call.method
        /\ call'.via = call.via + 1 /\ call'.result = call.result
    BY <2>1 DEF Call
  <2>5. call' \in Call
    <3>1. call.via + 1 \in Nat /\ "following" \in Place
      BY <2>1 DEF Call, Place
    <3> QED BY <2>1, <3>1 DEF Call
  <2>3. ResolvedHasAnswered' /\ CheckedInv' /\ AnsweredInv'
    BY <2>2 DEF IInv, ResolvedHasAnswered, CheckedInv, AnsweredInv, At, Answered
  <2>4. BudgetInv'
    <3>1. call.via + 1 < Limit /\ call.via \in Nat /\ Limit \in Nat
      BY <1>1, <2>1, LimitIsPositive, TargetAssumption DEF Followable, Limit, Call
    <3>2. count' = count /\ Before' = Before /\ Limit' = Limit
      BY <2>2 DEF Answered, Before, Limit
    <3>3. count <= Before + call.via + 1 /\ count \in Nat /\ Before \in Nat
      BY LimitIsPositive DEF IInv, BudgetInv, TypeOK, Before
    <3> QED BY <2>2, <3>1, <3>2, <3>3 DEF BudgetInv
  <2> QED BY <2>2, <2>3, <2>4, <2>5, QuietStep DEF Answered, IInv, TypeOK
<1>2. CASE call' = [call EXCEPT !.at = "answered", !.answer = answer]
  BY <1>2, OutcomeStep DEF Answered, At
<1> QED BY <1>1, <1>2 DEF Answered

LEMMA RedirectsNowhereStep == ASSUME IInv, RedirectsNowhere PROVE IInv'
BY OutcomeStep DEF RedirectsNowhere, At, Answer

LEMMA RetryStep == ASSUME IInv, RetryWithGET PROVE IInv'
<1>1. /\ call \in Call
      /\ call' = [call EXCEPT !.at = "sending", !.method = "GET", !.url = call.source, !.via = 0]
  BY DEF RetryWithGET, IInv, TypeOK
<1>2. /\ call'.at = "sending" /\ call'.url = call.source /\ call'.kind = call.kind
      /\ call'.source = call.source /\ call'.method = "GET"
      /\ call'.via = 0 /\ call'.result = call.result /\ call' \in Call
  BY <1>1 DEF Call, Place, Method
<1>3. ResolvedHasAnswered' /\ CheckedInv' /\ AnsweredInv'
  BY <1>2 DEF IInv, ResolvedHasAnswered, CheckedInv, AnsweredInv, At, RetryWithGET, MayBeSent
<1>4. BudgetInv'
  <2>1. count' = count /\ Before' = Limit /\ Before = 0 /\ Limit' = Limit
    BY <1>2 DEF RetryWithGET, Before, Limit
  <2>2. call.via + 1 <= Limit /\ count <= Before + call.via + 1 /\ count \in Nat /\ call.via \in Nat
    BY <1>1 DEF IInv, BudgetInv, TypeOK, Call
  <2> QED BY <1>2, <2>1, <2>2, LimitIsPositive DEF BudgetInv
<1> QED BY <1>2, <1>3, <1>4, QuietStep DEF RetryWithGET, IInv, TypeOK

LEMMA JudgeStep == ASSUME IInv, Judge PROVE IInv'
<1>1. CASE Ended(call.answer)
  BY <1>1, MoveStep DEF Judge, Goto, At, Place, Ended, IInv, AnsweredInv
<1>2. CASE ~Ended(call.answer)
  BY <1>2, FinishStep DEF Judge, Result
<1> QED BY <1>1, <1>2

LEMMA ConfirmStep == ASSUME IInv, Confirm PROVE IInv'
<1>1. CASE Valid(call.url) /\ Finish("resolved")
  BY <1>1, FinishStep DEF Confirm, Result, Valid, IInv, AnsweredInv
<1>2. CASE Finish("failed")
  BY <1>2, FinishStep DEF Confirm, Result
<1> QED BY <1>1, <1>2 DEF Confirm

LEMMA StreamStep == ASSUME IInv, Stream \/ StreamEnds PROVE IInv'
<1>1. CASE Stream /\ Goto("streaming")
  BY <1>1, MoveStep DEF Stream, Goto, At, Place
<1>2. CASE (Finish("failed") \/ Finish("streamed")) /\ Stream
  BY <1>2, FinishStep DEF Stream, Result
<1>3. CASE StreamEnds
  BY <1>3, FinishStep DEF StreamEnds, Result
<1> QED BY <1>1, <1>2, <1>3 DEF Stream

LEMMA LeaveStep == ASSUME IInv, Leave PROVE IInv'
<1>1. call \in Call /\ call' = [call EXCEPT !.gone = TRUE]
  BY DEF Leave, IInv, TypeOK
<1>2. /\ call'.at = call.at /\ call'.url = call.url /\ call'.kind = call.kind
      /\ call'.source = call.source /\ call'.method = call.method
      /\ call'.via = call.via /\ call'.result = call.result /\ call'.answer = call.answer
      /\ call' \in Call
  BY <1>1 DEF Call
<1>3. ResolvedHasAnswered' /\ CheckedInv' /\ AnsweredInv' /\ BudgetInv'
  BY <1>2 DEF Leave, IInv, ResolvedHasAnswered, CheckedInv, AnsweredInv, BudgetInv,
     At, MayBeSent, WasSent, Before, Limit
<1> QED BY <1>2, <1>3, QuietStep DEF Leave, IInv, TypeOK

LEMMA RenameStep == ASSUME IInv, NEW h \in Host, Rename(h) PROVE IInv'
<1>1. dns' \in [Host -> SUBSET Address]
  BY DEF Rename, IInv, TypeOK
<1>2. ResolvedHasAnswered' /\ CheckedInv' /\ AnsweredInv' /\ BudgetInv'
  BY DEF Rename, IInv, ResolvedHasAnswered, CheckedInv, AnsweredInv, BudgetInv,
     At, MayBeSent, WasSent, Before, Limit
<1> QED BY <1>1, <1>2, QuietStep DEF Rename, IInv, TypeOK

LEMMA NextInv == IInv /\ [Next]_vars => IInv'
<1> SUFFICES ASSUME IInv, [Next]_vars PROVE IInv'
  OBVIOUS
<1>1. CASE Proceed
  BY <1>1, CheckStep, HandOutStep, SendStep, FailsStep, FollowStep, RetryStep, JudgeStep,
     ConfirmStep, StreamStep DEF Proceed
<1>2. CASE Leave \/ RedirectsNowhere \/ StreamEnds
  BY <1>2, LeaveStep, RedirectsNowhereStep, StreamStep
<1>3. ASSUME NEW answer \in Answer, NEW u \in URL, Answered(answer, u) PROVE IInv'
  BY <1>3, AnsweredStep
<1>4. ASSUME NEW h \in Host, Rename(h) PROVE IInv' BY <1>4, RenameStep
<1>5. ASSUME NEW mapping \in MappingKind, Route(mapping) PROVE IInv' BY <1>5, RouteStep
<1>6. ASSUME NEW kind \in Kind, NEW method \in Method, NEW u \in URL, NEW proxied \in BOOLEAN,
             Begin(kind, method, u, proxied)
      PROVE  IInv'
  BY <1>6, BeginStep
<1>7. CASE UNCHANGED vars
  BY <1>7 DEF vars, IInv, TypeOK, StaysPermitted, ConnectsPublicly, ResolvedHasAnswered,
     CheckedInv, AnsweredInv, BudgetInv, At, MayBeSent, WasSent, Before, Limit
<1> QED BY <1>1, <1>2, <1>3, <1>4, <1>5, <1>6, <1>7 DEF Next

-----------------------------------------------------------------------------
(* The inductive invariant: every URL about to be requested has been checked *)
(* since it was named, and every attempt has spent what its hops account for.*)
THEOREM Invariance == Spec => []IInv
BY InitInv, NextInv, PTL DEF Spec

(* No request leaves for a scheme or port that is not allowed, but for the   *)
(* first request of a direct decision.                                       *)
THEOREM RequestsStayPermitted == Spec => []StaysPermitted
<1>1. IInv => StaysPermitted BY DEF IInv
<1> QED BY <1>1, Invariance, PTL

(* No connection is made to an address that is blocked, however names change.*)
THEOREM ConnectionsArePublic == Spec => []ConnectsPublicly
<1>1. IInv => ConnectsPublicly BY DEF IInv
<1> QED BY <1>1, Invariance, PTL

(* What ResolveMediaTarget returns was requested under the policy and has    *)
(* answered with neither a redirect nor a login page.                        *)
THEOREM ResolvedAnswered == Spec => []ResolvedHasAnswered
<1>1. IInv => ResolvedHasAnswered BY DEF IInv
<1> QED BY <1>1, Invariance, PTL

(* Redirects end: the requests of a call are bounded by the policy alone.    *)
THEOREM RequestsBounded == Spec => []RequestsAreFew
<1>1. ASSUME IInv PROVE RequestsAreFew
  <2>1. count <= Before + call.via + 1 /\ call.via + 1 <= Limit
        /\ count \in Nat /\ call.via \in Nat
    BY <1>1 DEF IInv, BudgetInv, TypeOK, Call
  <2> QED BY <2>1, LimitIsPositive DEF RequestsAreFew, Before
<1> QED BY <1>1, Invariance, PTL
=============================================================================
