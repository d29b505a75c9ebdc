---------------------------- MODULE MediaTarget ----------------------------
(***************************************************************************)
(* How the URL of an STRM Part is checked, followed and handed out: the    *)
(* TargetPolicy and ResolveMediaTarget of target.go, and the Part route    *)
(* (handlePartFile, serveResolvedMedia, proxyMedia) of server.go.          *)
(*                                                                         *)
(* Calls share nothing but the network, so the module follows one call at  *)
(* a time.  A call is cut at every lookup of a name, every connection and  *)
(* every answer; names may change their addresses in between, servers      *)
(* answer anything or nothing, and the client may leave at any time.       *)
(* Connections are direct: a proxy named by the environment, which the     *)
(* transport would use, is taken not to be set.                            *)
(*                                                                         *)
(* CheckRedirectLate, DialedAny, EndedAnyhow, FollowableAny and FailsNever *)
(* are mistakes the code could have had; the specification uses none.      *)
(***************************************************************************)
EXTENDS Naturals

CONSTANTS
  URL, Host,
  HostOf,        \* the host of each URL
  Permitted,     \* URLs whose scheme and port the policy allows
  AllowPrivate, MaxRedirects,   \* TargetPolicy
  StrictMap      \* StrictPartMap

ASSUME TargetAssumption ==
  /\ HostOf \in [URL -> Host] /\ Permitted \subseteq URL /\ URL # {}
  /\ AllowPrivate \in BOOLEAN /\ MaxRedirects \in Nat
  /\ StrictMap \in BOOLEAN

VARIABLES
  dns,   \* the kinds of addresses each name has
  call,  \* the call under way, or the last one
  sent,  \* history: <<method, url>> of its requests, with the kind of address
         \* each went to
  count  \* history: how many requests those were

vars == <<dns, call, sent, count>>

Address == {"public", "blocked"}
Kind == {"resolve", "part", "direct"}
MappingKind == {"strm", "unresolved", "local", "missing"}
Method == {"HEAD", "GET", "other"}
Answer == {"media", "failure", "refusal", "login", "redirect"}
Place == {"routing", "checking", "handing", "sending", "waiting", "following", "answered",
          "confirming", "streaming", "done"}
Result == {"none", "preflight", "plex", "failed", "resolved", "redirected", "streamed"}
Call == [at : Place, kind : Kind, method : Method, url : URL, source : URL, via : Nat,
         answer : Answer \cup {"none", "error"}, proxied : BOOLEAN, gone : BOOLEAN,
         result : Result]

NewCall(kind, method, u, proxied) ==
  [at |-> CASE kind = "resolve" -> "checking" [] kind = "part" -> "routing"
            [] kind = "direct" -> "handing",
   kind |-> kind, method |-> method, url |-> u, source |-> u, via |-> 0, answer |-> "none",
   proxied |-> proxied, gone |-> FALSE, result |-> "none"]

Init ==
  /\ dns \in [Host -> SUBSET Address]
  /\ \E u \in URL : call = [NewCall("resolve", "HEAD", u, FALSE) EXCEPT !.at = "done"]
  /\ sent = {} /\ count = 0

At(place) == call.at = place
Goto(place) == call' = [call EXCEPT !.at = place]
Finish(result) == call' = [call EXCEPT !.at = "done", !.result = result]

-----------------------------------------------------------------------------
(* The world *)

(* ResolveMediaTarget for ffmpeg and ffprobe, the Part route, or a start that a
   direct decision answers (serveResolvedMedia without the Part route's check).  The
   media of the last two flow through the proxy when PLAYBACK_MODE is proxy, with
   PROXY_FALLBACK, and for plexTranscode=1. *)
Begin(kind, method, u, proxied) ==
  /\ At("done")
  /\ kind = "resolve" => method = "HEAD"
  /\ kind = "resolve" => ~proxied
  /\ call' = NewCall(kind, method, u, proxied)
  /\ sent' = {} /\ count' = 0 /\ UNCHANGED dns

Rename(h) ==
  /\ \E addresses \in SUBSET Address : dns' = [dns EXCEPT ![h] = addresses]
  /\ UNCHANGED <<call, sent, count>>

Leave ==
  /\ ~At("done") /\ ~call.gone
  /\ call' = [call EXCEPT !.gone = TRUE]
  /\ UNCHANGED <<dns, sent, count>>

-----------------------------------------------------------------------------
(* handlePartFile goes by what is known of the Part, unless OPTIONS asks for nothing
   of it; without STRICT_PART_MAPPING Plex answers for the Parts that are not known. *)
Route(mapping) ==
  /\ At("routing")
  /\ \/ CASE mapping = "strm"       -> Goto("checking")
          [] mapping = "unresolved" -> Finish("failed")
          [] mapping = "local"      -> Finish("plex")
          [] mapping = "missing"    -> Finish(IF StrictMap THEN "failed" ELSE "plex")
     \/ call.method = "other" /\ Finish("preflight")
  /\ UNCHANGED <<dns, sent, count>>

-----------------------------------------------------------------------------
(* ValidateURL.  Every address of the name has to be one that is allowed; a name
   without addresses has none.  A lookup fails when the client has left. *)

Valid(u) == u \in Permitted /\ (AllowPrivate \/ dns[HostOf[u]] = {"public"})
Refused(u) == ~Valid(u) \/ (call.gone /\ ~AllowPrivate)

Check ==
  /\ At("checking")
  /\ \/ Valid(call.url) /\ Goto(IF call.kind = "part" THEN "handing" ELSE "sending")
     \/ Refused(call.url) /\ Finish("failed")
  /\ UNCHANGED <<dns, sent, count>>

(* serveResolvedMedia: a redirect for the client, or the media itself. *)
HandOut ==
  /\ At("handing")
  /\ IF call.proxied
     THEN IF call.method = "other" THEN Finish("failed") ELSE Goto("sending")
     ELSE Finish("redirected")
  /\ UNCHANGED <<dns, sent, count>>

-----------------------------------------------------------------------------
(* The media client *)

(* safeDialContext looks the name up again and passes over blocked addresses. *)
DialedAny(u) == dns[HostOf[u]]
Dialed(u) == IF AllowPrivate THEN dns[HostOf[u]] ELSE dns[HostOf[u]] \ {"blocked"}

Send ==
  /\ At("sending")
  /\ \E address \in Dialed(call.url) : sent' = sent \cup {<<call.method, call.url, address>>}
  /\ count' = count + 1
  /\ Goto("waiting")
  /\ UNCHANGED dns

(* No connection, no answer in time, or a client that left.  An attempt to resolve
   has its own eight seconds, a proxied request the header timeout. *)
FailsNever == FALSE
Fails ==
  /\ call.at \in {"sending", "waiting", "following"}
  /\ call' = [call EXCEPT !.at = "answered", !.answer = "error"]
  /\ UNCHANGED <<dns, sent, count>>

FollowableAny(via) == via <= MaxRedirects
(* CheckRedirect: via holds the requests made so far; past the limit the client
   returns the redirect itself. *)
Followable(via) == via < MaxRedirects

(* A redirect that is followed is checked first, and starts over elsewhere. *)
Answered(answer, u) ==
  /\ At("waiting")
  /\ call' = IF answer = "redirect" /\ Followable(call.via + 1)
             THEN [call EXCEPT !.at = "following", !.url = u, !.via = @ + 1]
             ELSE [call EXCEPT !.at = "answered", !.answer = answer]
  /\ UNCHANGED <<dns, sent, count>>

(* A redirect that names no place cannot be followed. *)
RedirectsNowhere ==
  /\ At("waiting")
  /\ call' = [call EXCEPT !.at = "answered", !.answer = "redirect"]
  /\ UNCHANGED <<dns, sent, count>>

CheckRedirectLate(u) == TRUE
CheckRedirect(u) == Valid(u)

Follow ==
  /\ At("following")
  /\ \/ CheckRedirect(call.url) /\ Goto("sending")
     \/ Refused(call.url) /\ call' = [call EXCEPT !.at = "answered", !.answer = "error"]
  /\ UNCHANGED <<dns, sent, count>>

-----------------------------------------------------------------------------
(* ResolveMediaTarget, when the client has come back with an answer or an error *)

(* HEAD alone decides nothing where servers are known to mishandle it. *)
Inconclusive(answer) ==
  answer \in {"refusal", "login"} \/ (answer = "error" /\ ~call.gone)

RetryWithGET ==
  /\ At("answered") /\ call.kind = "resolve"
  /\ call.method = "HEAD" /\ Inconclusive(call.answer)
  /\ call' = [call EXCEPT !.at = "sending", !.method = "GET", !.url = call.source, !.via = 0]
  /\ UNCHANGED <<dns, sent, count>>

EndedAnyhow(answer) == answer \in {"media", "failure", "refusal", "login"}
(* validatedMediaResponseURL accepts any status that is no redirect, from a page
   that is no login page. *)
Ended(answer) == answer \in {"media", "failure", "refusal"}

Judge ==
  /\ At("answered") /\ call.kind = "resolve"
  /\ call.method = "HEAD" => ~Inconclusive(call.answer)
  /\ IF Ended(call.answer) THEN Goto("confirming") ELSE Finish("failed")
  /\ UNCHANGED <<dns, sent, count>>

Confirm ==
  /\ At("confirming")
  /\ \/ Valid(call.url) /\ Finish("resolved")
     \/ Refused(call.url) /\ Finish("failed")
  /\ UNCHANGED <<dns, sent, count>>

(* proxyMedia passes on whatever status it got.  For a GET it reads the first 64 bytes
   of the body before: they arrive, or reading them fails. *)
Stream ==
  /\ At("answered") /\ call.kind # "resolve"
  /\ \/ call.answer # "error" /\ call.method = "GET" /\ Goto("streaming")
     \/ call.answer # "error" /\ call.method # "GET" /\ Finish("streamed")
     \/ (call.answer = "error" \/ call.method = "GET") /\ Finish("failed")
  /\ UNCHANGED <<dns, sent, count>>

StreamEnds == At("streaming") /\ Finish("streamed") /\ UNCHANGED <<dns, sent, count>>

-----------------------------------------------------------------------------
Proceed ==
  \/ Check \/ HandOut \/ Send \/ Fails \/ Follow
  \/ RetryWithGET \/ Judge \/ Confirm \/ Stream

Next ==
  \/ Proceed \/ Leave \/ RedirectsNowhere \/ StreamEnds
  \/ \E answer \in Answer, u \in URL : Answered(answer, u)
  \/ \E h \in Host : Rename(h)
  \/ \E mapping \in MappingKind : Route(mapping)
  \/ \E kind \in Kind, method \in Method, u \in URL, proxied \in BOOLEAN :
       Begin(kind, method, u, proxied)

Spec == Init /\ [][Next]_vars

(* A server has answered and the next step takes bytes of the body: proxyMedia's prefix
   of a GET, or what net/http reads of a redirect's body before it follows it.  An
   attempt to resolve has its eight seconds for that; a proxied request has no timeout
   past the headers, so that only its own client's leaving, which cancels it, is sure
   to end the wait. *)
AwaitsBody ==
  /\ call.kind # "resolve" /\ ~call.gone
  /\ \/ At("following")
     \/ At("answered") /\ call.method = "GET" /\ call.answer # "error"

(* Lookups and connections have timeouts of their own, and so has the wait for the
   headers of an answer.  Nothing is owed while bytes of a body are awaited, and
   nothing ends a stream but its server or its client. *)
FairSpec ==
  /\ Spec /\ WF_vars(Proceed /\ ~AwaitsBody)
  /\ WF_vars(\E mapping \in MappingKind : Route(mapping))

-----------------------------------------------------------------------------
TypeOK ==
  /\ dns \in [Host -> SUBSET Address]
  /\ call \in Call
  /\ sent \subseteq Method \X URL \X Address
  /\ count \in Nat

(* No request leaves for a scheme or port the policy forbids, whatever chain of
   redirects, retries and final URLs led to it.  The one exception the code makes is
   the first request for a direct decision, which serveResolvedMedia sends without
   the check handlePartFile makes. *)
StaysPermitted ==
  \A request \in sent :
    request[2] \in Permitted \/ (call.kind = "direct" /\ request[2] = call.source)

(* NewMediaClient's transport looks every name up again when it connects: a name
   whose addresses change after it was checked leads to no blocked address, in any
   of the calls and at any hop. *)
ConnectsPublicly ==
  ~AllowPrivate => \A request \in sent : request[3] = "public"

(* A chain of redirects ends: HEAD and GET make at most MaxRedirects requests each
   (one, if no redirect may be followed), so a loop of servers cannot hold a call. *)
Limit == IF MaxRedirects = 0 THEN 1 ELSE MaxRedirects
RequestsAreFew ==
  count <= IF call.kind = "resolve" THEN 2 * Limit ELSE Limit

(* ResolveMediaTarget's promise to ffmpeg and ffprobe, which follow no redirects: the
   URL returned is permitted, was itself requested, and answered neither with a
   redirect nor with a login page. *)
ResolvedHasAnswered ==
  call.result = "resolved" =>
    /\ call.url \in Permitted
    /\ \E address \in Address : <<call.method, call.url, address>> \in sent
    /\ call.answer \notin {"error", "redirect", "login"}

(* "Without allowing target validation to block the caller indefinitely" (the attempt
   timeout): every call of ResolveMediaTarget ends, and so does every call whose client
   has left, or its media are streaming.  A client that stays may be kept waiting, but
   only by a server that has sent it headers and sends no body after them. *)
CallsAreAnswered == ~At("done") ~> At("done") \/ At("streaming") \/ AwaitsBody

-----------------------------------------------------------------------------
(* The inductive invariant behind the safety properties. *)

MayBeSent(u) == u \in Permitted \/ (call.kind = "direct" /\ u = call.source)
WasSent == \E address \in Address : <<call.method, call.url, address>> \in sent

(* A URL is about to be requested only after its check; a call that may still be
   retried has had its source checked. *)
CheckedInv ==
  /\ call.at = "handing" \/ call.at = "sending" => MayBeSent(call.url)
  /\ call.kind = "resolve" /\ ~At("checking") /\ ~At("done") => call.source \in Permitted
  /\ call.kind = "resolve" => ~At("handing") /\ ~At("routing")
  /\ At("routing") \/ At("checking") => call.url = call.source

(* What has answered was asked. *)
AnsweredInv ==
  /\ At("waiting") \/ At("confirming") \/ (At("answered") /\ call.answer # "error") => WasSent
  /\ At("confirming") => call.answer \notin {"none", "error", "redirect", "login"}
  /\ ~At("done") => call.result = "none"

(* The requests of an attempt are counted by via, those of HEAD by its limit. *)
Before == IF call.kind = "resolve" /\ call.method = "GET" THEN Limit ELSE 0
BudgetInv ==
  /\ call.via + 1 <= Limit
  /\ call.at \in {"routing", "checking", "handing", "sending", "following"} =>
       count <= Before + call.via
  /\ count <= Before + call.via + 1

IInv ==
  /\ TypeOK /\ StaysPermitted /\ ConnectsPublicly /\ ResolvedHasAnswered
  /\ CheckedInv /\ AnsweredInv /\ BudgetInv
=============================================================================
