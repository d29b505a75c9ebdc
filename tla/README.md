# plex-strm-proxy in TLA+

Specifications, model-checking configurations and machine-checked proofs for
plex-strm-proxy, a Go reverse proxy that stands between Plex clients and a Plex
Media Server and makes `.strm` items (text files that hold a media URL) playable.
Paths below are relative to the repository; `hls:` stands for
`src/internal/app/hls_transcode.go`, `srv:` for `src/internal/app/server.go`,
`probe:` for `src/internal/app/media_probe.go`, `policy:` for `playback_policy.go` and
`meta:` for `metadata.go` beside them.

## The system

One process, one `http.Server`, a goroutine per request, one background goroutine
(`cleanupLoop`) and one more per child process. Nothing is persisted: a restart
starts from empty maps. All state shared by requests is in memory, behind mutexes:

| Component | State it keeps | Operations | Locks |
| --- | --- | --- | --- |
| Transcoder (`hls:`) | `sessions` by id; `hlsSession` objects; one directory per id; ffmpeg processes | `register`, `start`, `session`, `sessionFormat`, `filePath`, `waitForProcess`, `cleanupExpiredLocked`, `waitForHLSFile`, `ensureSegment` | `t.mu`, one `session.mu` per object, always taken in that order |
| Media probes (`probe:649-751`) | `probes` (good results, with expiry), `probeFlights` (under way) | `probeSTRMMedia`, `cachedSTRMMediaProbeForMapping` | `probeMu` |
| Direct decisions (`srv:1269-1383`) | `directDecisions` by playback session | `rememberDirectDecision`, `clearDirectDecision`, `pruneDirectDecisionsLocked`, `directDecisionRecord` | `decisionMu` |
| Part mappings (`mapping.go`) | `items` by Part id, with expiry | `Put`, `Get`, `IngestStructuredResponse` | `MappingStore.mu` |
| STRM resolver (`resolver.go`) | `cache` by path, modification time and size | `Resolve` | `Resolver.mu` |
| Metadata lookups (`meta:`) | `metadataLookups` by path and indices | `lookupMetadataPartSnapshot`, `rememberMetadataPartLookups` | `metadataMu` |
| Handlers (`srv:`) | none of their own | `handleDecision`, `handleTranscodeStart`, `handleTranscodeResource`, `handlePartFile`, `modifyPlexResponse` | |
| Playback policy, client profile, stream plan | none (pure) | `SelectPlaybackPlan` and helpers | |
| Target policy (`target.go`) | none | `ResolveMediaTarget`, a client that checks each redirect | |
| Metadata rewriting (`metadata_rewrite.go`) | a walk's own budget of one probe | `rewriteSTRMMetadataResponse` and its callbacks | |
| Decision rewriting, diagnostics, ffprobe parsing, configuration | none | document transformations | |

How they interact. A metadata or decision response from Plex passes through
`modifyPlexResponse`, which ingests its Parts into the mapping store (reading the
`.strm` files through the resolver), may probe the source, and remembers direct
decisions. A start request looks its Part up, is served by an existing proxy
session, redirected by a remembered direct decision, or passed to Plex; only when
Plex rejects it does the proxy register a session of its own and start ffmpeg,
which reads its source back through the proxy's Part route. Segment requests poll
the session's directory.

What is hard. Locks are held for single sections only, so every handler works with
state read earlier: a session pointer outlives its place in the map, a decision is
cleared in one section and stored in another with an ffprobe between them, a probe
is shared by requests whose contexts end at different times, a Part's mapping is read
three times while one response is described, a name is looked up again after its
addresses were checked. ffmpeg ends by itself,
is killed by a replacement or by the idle sweep, and may fail to spawn; a killed
process still writes for a while into a directory that another session of the same
id now uses. `PROJECT.json` lists these hazards line by line.

## Modules

| Module | Models | Proofs | Model-checking module |
| --- | --- | --- | --- |
| `HLSTranscoder` | the life cycle of transcode sessions | `HLSTranscoderProofs` | `MCHLSTranscoder` |
| `TranscoderService` | what that life cycle promises a caller; `HLSTranscoder` refines it | | `MCHLSTranscoder` |
| `ProbeFlight` | the probe cache and single flight | `ProbesProofs` | `MCProbeFlight` |
| `DirectDecisions` | the memory of direct decisions | `DirectDecisionsProofs` | `MCDirectDecisions` |
| `PlaybackStart` | the decision and start handlers, with Plex behind them, over `DirectDecisions` | `PlaybackStartProofs` | `MCPlaybackStart` |
| `PlaybackPolicy` | profiles, plans, Plex's decisions, streams and formats, as operators | in `PlaybackJourneyProofs` | |
| `PlaybackJourney` | what the same handlers tell and serve one client, over `PlaybackPolicy` | `PlaybackJourneyProofs` | `MCPlaybackJourney` |
| `MediaTarget` | how a source URL is checked, followed and handed out | `MediaTargetProofs` | `MCMediaTarget` |
| `PartMappings` | the STRM resolver and the mapping store over changing files | `PartMappingsProofs` | `MCPartMappings` |
| `MetadataLookups` | the Part lookup cache over the mapping store, with a clock | `MetadataLookupsProofs` | `MCMetadataLookups` |
| `MetadataRewrite` | how one metadata response describes STRM Parts | `ProbesProofs` | `MCMetadataRewrite` |

Each module states its mutated definitions next to the originals
(`MayStartAlways` beside `MayStart`): one plausible mistake for each property a run
checks, which TLC must find. The specification never uses them.

### HLSTranscoder

`Sid` are normalised session ids, `Obj` the `hlsSession` objects in the order
`register` makes them: several objects may have had one id, and `obj[r]` is the
pointer request `r` still holds. `sess[o]` keeps the fields that decide something
(`src` and `force` are what `register` compares; `started`, `done`, `stop`, `copy`,
`cmd`, `vod`; `fresh` says that `lastAccess` is recent). `proc[o][p]` is the operating
system's view of the copy attempt (`first`) and of its `fallback`. `output[s]` says
which objects' processes have written into the directory of id `s`.

| Action | Code |
| --- | --- |
| `Tick`, and the `...Swept` operators in every action that takes `t.mu` | `cleanupExpiredLocked` (hls:659), called by `cleanupLoop`, `register` and `session` before anything else |
| `Reuse`, `Register`, `RegisterFails`, `RegisterPanics` | the ways through `register` (hls:136-199) |
| `StartLooksUp`, `StartJoins`, `StartProxied`, `StartDirect`, `ValidationFails`, `ValidationEnds` | `start` (hls:243-315), cut where it leaves a lock or calls out |
| `Write`, `End`, `Die` | ffmpeg and the kernel |
| `Settle`, `FallBack`, `FallbackLost` | `waitForProcess` (hls:365-400) after `cmd.Wait` |
| `WaitServed`, `WaitFails`, `WaitGivesUp`, `OpenVOD` | the rest of `start`, and `waitForHLSFile` (hls:682-709) |
| `Fetch`, `FetchPath`, `FetchLosesSession`, `Touch` | `handleTranscodeResource` (srv:582-622) and `sessionFormat` |
| `GrowIdle` | time without an access |

A section under `t.mu` or `session.mu` is one step. `session.mu` is held across
steps only during `validating`, and for ever after a panic (`wedged`). What a model
of this size abstracts: URLs, resolutions and formats are one value; whether a
particular file exists is whether anything has been written; the ttl, never shorter
than the idle timeout that decides, is left out.

The server itself registers sessions only through `registerProxyTranscode`
(srv:531), always with a Part-route URL, so of the two branches of `start` it takes
the proxied one. The direct branch is modelled too, in the liveness run. It is also
the only way to a session of known duration, which seeking requires; `ensureSegment`
therefore returns at `!session.vod` for every session the server makes, and the seek
machinery (source cache, seek processes) is not modelled.

`TranscoderService` is the abstract side: an id names at most one session, a session is
ready, playing, stopping and over in that order, and one that loses its id while it
plays is told to stop by the step that takes the id away. `PhaseOf` maps an object's
fields to its phase; the fallback of a failed copy, the locks, the waiters and the
directories map to nothing (`ImplementsService`).

### ProbeFlight

`probes[s]` and `probeFlights[s]` hold flight numbers; `flight[f]` is the
`mediaProbeFlight` object. A request leads (`Lead`, `Finish`), joins (`Join`,
`Receive`, `GiveUp`) or hits the cache (`Hit`). `ContextEnds` is the client going away
or the metadata timeout; requests in `Detached` probe under
`context.WithoutCancel`. Publishing the result, removing the flight and closing its
channel are one section of `probeMu` (probe:715-723), hence one step.

### DirectDecisions

A response is cut in two, as the code is: `Supersede` clears the session's record,
`Remember` stores one and prunes, and in between the request is `deciding` (it may be
waiting for ffprobe). `now` is the clock, `TTL` and `Limit` are parameters. `latest`,
`stored` and `crowded` are history: who cleared last, what was stored last, and which
sessions had overlapping responses.

### PartMappings

A `.strm` file goes through numbered states; a state's number stands for the URL in it,
and `Content` says whether it holds one at all. `Resolve` is `Stat`, `Look`, `Read` and
`Store`: the file may change between any two of them, and other requests interleave.
`Put` ends an ingestion (a failed resolution is stored too, as a mapping without URL),
`Answer` ends `handleDecision`'s own resolution, `Echo` is a response that names the
Part without its `.strm` file. `cache[p][k]` is what is cached under state `k`;
`floor` is history: what the last ingestion to store the mapping had statted.

Two abstractions carry weight. Every change of a file gives it a modification time or a
size it did not have before: the cache key is path, time and size, and an edit that
preserves both is invisible to the code (up to its TTL). And expiry is allowed at any
time, which covers every value of the two TTLs; so `MappingIsFresh` bounds a URL's age
by ingestions, not by the clock. A local echo renews the expiry of the mapping it fails
to replace, hence a URL may live on beyond the TTL while Plex keeps echoing the Part:
that is within the property, since no ingestion of the file intervened. What it means for
a decision is in `MetadataLookups` (`FetchedIsFresh`), which has a clock.

### PlaybackStart

The core of the proxy's routing: who answers a client that wants to play. It composes
`handleDecision` and `handleTranscodeStart` with the memory of direct decisions, which
is the instance `D` of `DirectDecisions` with its variables (its `pc` is `remembering`
here), and with the transcoder's registry, of which `hls` keeps what the handlers can
tell: for which Part a session id is registered. A request is cut where it waits (for
Plex, for a probe, for ffmpeg) and between two locks:

| Place | Where the request is in the code | Actions from it |
| --- | --- | --- |
| `looking`, `choosing` | before and after `sessionFormat` (srv:387) | `LookForSession`; `Redirect`, `GoNative` |
| `asking` | `proxyToPlex` or `proxyToPlexBuffered` | `PlexDecides`, `PlexDecidesOpaquely`, `PlexStarts`, `Cancelled` |
| `deciding` | `rememberDirectDecision` between its two sections | `Remember`, `Decline` (those of `D`) |
| `rejected` | Plex's answer at hand, context not yet looked at (srv:252, 416) | `FallBack`, `Reply` |
| `registering` | `registerProxyTranscode`, with its probe | `Register`, `Reply` |
| `serving` | `handleProxyTranscodeStart` | `Serve` |

`Leave` is the client going away while Plex is asked or just has answered: nothing looks
at the context before, and everything later runs under `context.WithoutCancel` or does
not look. `PlexDecidesOpaquely` is every answer to a decision that does not reach
`rememberDirectDecision`; `Rebind` is the lookup of a start that brings the media URL back. `SessionEnds` is the idle sweep, allowed at any
time, which covers every timing of `HLSTranscoder`'s. `last` and `rejected` are history:
Plex's last word on each session, and the Parts it rejected in it.

What is abstracted: requests carry a session id (without one the code neither remembers
nor registers anything); a decision response is about the Part of its request; a Part
whose lookup fails or has no resolved URL is outside `STRM`, as the handlers pass it to
Plex or refuse it before anything modelled here. Decisions made for a `.strm` path
instead of a metadata path differ only in never falling back, which is a decision
without `transcode`.

### PlaybackPolicy and PlaybackJourney

`PlaybackPolicy` has no state: the code of `policy:`, `client_profile.go`,
`transcode_plan.go` and `transcode_format.go` has none either. Its operators bear the
names of the functions; codec names are data with `Normal` for
`normalizePlaybackCodec`, a decision document is a set of Parts with streams, a summary
of each Media and the codes of the container, every one with what it says of selection.

`PlaybackJourney` follows the clients of one session id and one Part through those
functions: `asking` (Plex), `planning` and `deciding` (the two probes of a decision,
srv:1008 and 1294), `looking` and `choosing` (srv:387, 397), `rejected`, `starting`
and `labelling` (srv:531-572). It complements `PlaybackStart`, which has several Parts and
sessions and the two critical sections of a decision, but no codec: there a record is
put where the code puts one; here it is decided whether to. `session` is what the id
names and what `register` compares of it (hls:154). `told` is history: which session,
format and streams the decision the proxy wrote itself promised; `crowded` says that
a start was then already past its look for a session, and so may register another.

### MediaTarget

One call at a time: `ResolveMediaTarget` for ffmpeg and ffprobe (`resolve`), the Part
route (`part`) or a start answered by a direct decision (`direct`). It is cut at every
lookup of a name, connection and answer. `Rename` changes the addresses of a name
between any two of them; a server answers with media, a failure, a refusal of HEAD, a
login page or a redirect to any URL; `Fails` is every error and timeout of the client,
`Leave` the caller going away. `AwaitsBody` is where a proxied call has the headers of an
answer and reads on: the first 64 bytes of the media (srv:833), or what is left of a
redirect's body. Preflight requests (`OPTIONS`) are answered before any of this. `via` counts as `CheckRedirect`'s argument does. Which
addresses are blocked and which ports allowed are sets given to the module.

### MetadataLookups

`lookupMetadataPartSnapshot` is `Look`, `Fetch` or `FetchFails`, `Get` and `Remember`,
four critical sections of two mutexes with Plex in between; `Pass` is a response on its way to a
client, which `modifyPlexResponse` ingests and remembers too; `Ingest` one that is only
ingested. The mapping store is that of `PartMappings` with a clock in place of files:
an entry is its expiry and, as history, `since`: when the description it holds was stored.
The two differ, because `Put` keeps a known URL over a document that gives the Part no
`.strm` file and renews its expiry (`KeptMapping`): `HeardAt` reads from the expiry when
the Part was last described in any way, `since` says how old what is known of it is.
`heard`, in a lookup, is that of the mapping it copied. A hit has no step: it changes
nothing and answers with what `AnswersAreRecent` says of the cache.

### MetadataRewrite

`rewriteSTRMMetadataResponse` counts the STRM Parts and fixes whether a cold probe is
allowed (`Prepare`), then walks the document. `stage` is where the response is; `todo` are
the callbacks that are left, a set, and `Due` is the one whose turn it is in the `Order` of
the walk, which differs between XML (an item is described with each Part) and JSON (a
Part after its own attributes, an item last, from the Parts still listed as `.strm`).
A Part is listed as one by its file, path or key (`strm`); file and key are rewritten on the
way and path never is, so `path` tells which Parts still count when a JSON item's turn comes
(`ItemSettled`).
Each callback (`ReadContainer`, `ReadFile`, `ReadProbe`) looks the mapping up for itself.
`Remap`, `Probe` and `Forget` are the other requests. `written` and `items` hold the
URL a value came from, not the value. `had` and `probed` are history.

## What the runs check

| Run | Shows | States |
| --- | --- | --- |
| `transcoder` | safety of sessions under replacement, fallback, idle sweep and concurrent starts; the refinement of `TranscoderService` | 715,149 |
| `transcoder_live` | what becomes of a session whose fallback was lost; requests return, idle sessions are collected, stopped sessions end, but for the two exceptions below, with source validation under `session.mu` and processes that may not spawn | 20,158 |
| `transcoder_panic` | violation: `register` panics on a session whose ffmpeg never spawned | |
| `probe` | one probe per source, failures are current, every call returns | 43,113 |
| `decisions` | the memory is bounded, current and does not forget early | 46,181 |
| `mappings` | resolutions and mappings are no older than they may be | 219,081 |
| `playback` | proxy sessions are earned by rejections, redirects follow Plex's last word, the handlers implement `DirectDecisions` | 1,819,280 |
| `playback_other_part` | violation: a start is served by the session of another Part, without Plex | |
| `journey` | what the proxy told is what it serves, copies are decodable, what is remembered is what Plex selected | 499,730 |
| `media` | what is requested, where it connects, how often, and that every call ends or waits for a body | 129,200 |
| `lookups` | the lookup cache is small, its answers are of Parts described within two lifetimes, and what is answered after a fetch is no older than it, with one exception | 901,186 |
| `rewrite` | a response waits for one ffprobe at most, for what may have it, and for what should; Parts and items are described by their own sources | 926,704 |

Safety properties of the transcoder: `OneProcess`, `StopIsFinal` (a stop is never taken
for a failed copy), `ReplacedIsStopped` (whatever runs on unregistered was
launched by a start that still held the pointer), `OutputIsOwn`, `ActiveIsAttended`,
and the action properties `DoneIsFinal` and `LostStays`; `DoneIsQuiet` (what waiters see as done has
nothing running) and `ForcedRunsOnce` are proved and in no run. `ReplacedIsStopped`, `OutputIsOwn` and
`ActiveIsAttended` name the exceptions the code has (`late`, `stopped`, `lost`): the
code does leave an unstoppable ffmpeg behind when a session is replaced between the
lookup and the launch of a start, and a session that looks active for ever when its
fallback cannot be spawned. The properties say that there is no other way to get
there.

`LostStays` says how such a session goes on: `waitForProcess` has reset `done` (hls:374)
and returns when `startFFmpeg` fails (hls:393), so it is active, nothing of it will ever
end, every sweep tells it to stop again and none removes it (hls:668-677); only a
registration that replaces it takes its id. That and the panic are the two exceptions of the
liveness properties: `IdleSessionsEnd` (an idle session is collected, replaced or accessed)
excepts both, `StoppedSessionsEnd` (a session told to stop ends) the lost session only, and
`RequestsReturn` the panic only, since a wait for a lost session has its timer.

`FallbackIsEarned` and `RedirectFollowsPlex` are the two promises of the handlers: ffmpeg
is never used for a Part that Plex did not reject in that playback session, whoever left
and whatever other requests registered; and a redirect past Plex rests on Plex's last
decision for the session and on its Part. The second names the two exceptions the code
has (responses that overlap, `crowded`, and opaque answers) and says there is no third.

In the journey, `ToldIsKept` is the promise of a decision the proxy writes itself: the
session it names is there, in the format and with the streams it named, until the id
names nothing; `ForcedIntentIsHonoured`, `CopiesSuitTheMaker` and `RecordSuits` relate what is
served or remembered to what the client decodes, although the probe is made again at
every stage and may fail at any; `DecisionIsOfWhatPlays` compares the reading of a
decision, with its inherited selections and fallbacks, to what the document says of
the selected streams. `ContentTypeMatches` looks at the format that is looked up again
after the manifest was produced.

In `media`, `StaysPermitted` and `ConnectsPublicly` are about every hop of every chain and
retry; the first names the exception the code makes, the unchecked first URL of a
direct decision (srv:399, against 743). `ResolvedHasAnswered` is what ffmpeg and ffprobe
rely on, which follow no redirect. `CallsAreAnswered` says that a call ends or its media
stream, and names where neither is sure: a proxied call whose client stays and whose server
has sent headers but no body waits for as long as both like (`AwaitsBody`).

In `lookups`, `AnswersAreRecent` adds up the copies: the Part that is answered was described
less than two lifetimes ago, though lookups copy mappings and echoes renew them.
`FetchedIsFresh` is about what was said of the Part: what a fetch brought, or something
stored later, answers it, whatever is ingested or expires before its `Get`. It names the
one exception: when the fetched document itself gives the Part no `.strm` file, a URL known
from before is kept over it (mapping.go:74), however old. In `rewrite`, `ColdProbesAreEarned` says that home
screens never wait for ffprobe, and `SelectionIsProbed` that what the client selected does
get its probe; `PartsAreOfTheirSource` that three looks at a mapping give one picture as far
as the mapping stood still, and that every STRM Part gets it; `ItemsAreOfTheirParts` that an
item is described by a Part of its own, in XML by the very probe that describes the Part, in
JSON by one that was not declared for direct play, or whose path still names a `.strm` file.

Findings (`PROJECT.json`, `findings`): the panic with both mutexes held, and the session
that serves another Part, which needs one client that does one thing after another.

### Where a comment says more than the code does

TLC also refuted these sentences of the repository when they were stated as
properties. They have no run of their own; the properties that pass are worded around
them, as told here.

* srv:1281, "every decision response supersedes the previous result": the clear and the
  store are two sections, so an older response can store after a newer one cleared
  (`crowded` in `LatestUnlessCrowded`); and an answer that is not structured, too large or
  missing supersedes nothing (`opaque` in `RedirectFollowsPlex`).
* srv:502-504, a probe "must not be discarded with that upstream request": a detached
  registration that joins a flight loses its probe with the leader's context
  (probe:701). `FailuresAreCurrent` says only that the failed probe was under way during the call.
* policy:12, the plan is "the single policy output": a decision whose plan is the
  proxy's video fallback is still rewritten to direct play (srv:1010 lists the other
  two plans). `RecordSuits` says that it is not remembered as direct.
* meta:30, the limit "bounds the metadata part lookup cache": the cache is reset before a
  document's Parts are added and may exceed the limit by them (`LookupsAreFew`).
* srv:1197, "cached probes can still enrich any other" entry of a queue: entries outside
  the selection are passed over before the cache is asked (srv:1229).

Seen while modelling, and in no property: `ResolveMediaTarget` takes a 404 for an
answer; `register` reuses a session whatever its audio stream, resolution or offset;
the key of a lookup has no content type, though XML and JSON count Media differently
when one has no Part; a JSON item is not described once the file of its Part was rewritten,
unless the Part's path names a `.strm` file too, while an XML one is; mappings and probes are dropped only when the same id is asked for.

### Bounds

* `transcoder`: one id, two requests, two session objects, one source. Two objects
  are one replacement, which is all that a property here relates (an object and its
  successor); two requests give every race of a start with a register, a lookup or
  another start. Ids interact only through `t.mu`. Every process can be spawned here, so
  no `lost` session excuses `ActiveIsAttended`; the failures are those of `transcoder_live`,
  and the theorems hold with them (`Faults` is any set).
* `transcoder_live`: one object, all three kinds of source, because liveness under
  validation needs a lock to be held, and `LostStays` a registration that takes the id
  (`RegisterFails`), not a successor. Both the first process and the
  fallback may fail to spawn: `wedged` is the panic of `transcoder_panic`, after which
  nothing need return, `lost` the fallback that was never spawned.
* `probe`: two sources, three requests (leader, follower, detached), two flights:
  enough for a failed flight and a second one, and for a cached result that expires and
  is probed again. No symmetry, as the run checks liveness.
* `decisions`: three sessions against a limit of two, so that eviction has a choice;
  four responses, so that a session can be evicted, superseded and come back; four
  ticks against a time to live of one.
* `mappings`: one Part, as Parts share no state; two requests, for a stat, a read or a
  store of one between any two steps of the other; six states of the file, which are a
  URL, a file too large, another URL, no file, a URL again and a text without one.
* `playback`: two requests, for every race of a start or a decision with another; one
  session id and two Parts, as sessions interact only through pruning (which
  `DirectDecisions` and its proofs treat for any number) while two Parts can share one; two
  responses; one tick, so that records expire. `playback_other_part` has a single request goroutine.
* `journey`: two requests, for a start past its look while a decision registers; two
  sessions, told and replaced; two sources, two profiles and every codec spelling that
  differs; documents of up to two Parts with a stream and a stream outside, in every
  selection. Requests with the same reading of a document step alike.
* `media`: three URLs on two hosts, one not permitted, every assignment of addresses; three
  redirects are a cycle of the two permitted ones and one more.
* `lookups`: two goroutines and two paths of two places against a limit of two, so that one
  document fills the cache; `LookupTTL` 1 and `MappingTTL` 2, so that a lookup can outlive
  the mapping it copies; three ticks reach the first expiry of a copy of a copy.
* `rewrite`: two Parts and two URLs, of which one has no known container; four documents:
  two items of which one is chosen, two items of the same Part, one item of two Parts with
  one flagged, and one beside a Part that is no `.strm` file. In the first two a Part is a
  `.strm` file by its path. `MaxNew` changes of mappings
  during one walk separate any two of its looks.

The proofs have no bounds but those that make the numberings finite (`MaxSessions`,
`MaxProbes`, `MaxResponses`, `MaxTime`, `MaxVersion`; `Largest` is what the documents bring), and hold for every value of them.

### Fairness

`HLSTranscoder!Fairness`: the ticker fires and every request that is past its lock
proceeds (strong fairness: Go's mutexes hand over to a waiter after a millisecond, so
a lock that is free again and again is obtained); `waitForProcess` runs after the
exit of its process; a killed process dies. Nothing is assumed of ffmpeg, which may
run for ever, or of clients. `WaitGivesUp` is part of a request's fairness: the
ninety-second timer of `waitForHLSFile` is armed on every call.

`ProbeFlight!Fairness`: a leader finishes, because `probeMedia` runs under a 45 second
timeout and the media client bounds every hop of the validation, and a waiter whose
flight is closed or context is done is scheduled.

`MediaTarget!FairSpec`: lookups, connections and the wait for headers have timeouts of their own
(eight seconds an attempt to resolve, the header timeout), so a call takes its next step
(`Proceed`, `Route`) unless it `AwaitsBody`: for the bytes of a body a proxied call has no
timeout, and only its client's leaving is sure to end the wait. Servers owe nothing: `Fails` is always possible and
never required while they answer. A stream may last for ever.

Deadlock is checked wherever the instance does not stop by its own bounds (`MaxProbes`,
`MaxResponses`) or by a modelled failure (the panic, in `transcoder_live`).

## Proofs

Eight modules prove, for every value of the constants that satisfies the module's
assumption, type correctness, an inductive invariant (`IInv`; `WalkInv` of metadata walks)
and every safety property that the passing runs check, the refinement included. The invariants
were model-checked first; what is proved of them is not checked again by the runs.

*Transcoder.* None of the properties is inductive alone. `CmdInv` ties the fields of an
object to its processes (which `cmd` value allows which process states; `started` iff a
process was launched; `done` only when it was reaped); `ValidatingInv` says that
`session.mu` really keeps a second start away from an object being validated; `StopInv`
says that a killed process carries a stop reason until it is waited for, which is what
makes `shouldFallbackFromCopy` refuse; `UnregisteredInv` is `ReplacedIsStopped` for every
process not yet waited for; `OutputInv` needs that output in a directory is from objects
of that id, and `UnmadeInv` that objects not yet made are blank. `DoneIsFinal` is an
action property and follows from `CmdInv` and `ValidatingInv` step by step. `LostStays` needs
`LostInv` besides: a lost session is started, its copy attempt waited for and nothing follows,
so no start, kill or wait finds anything to do with it and no sweep takes it for inactive.

Theorem `Refinement` proves `ImplementsService`: every sweep is a `Collect`, a registration
an `Open` or a `Refuse` that collects on its way, a launch a `Play`, the last wait a
`Finish`, anything else a stutter. It needs one invariant more, `ReadyInv`: an object that
is still to be started carries no stop reason, so that its start makes it play. Only the
panic in `register` marks such an object, and then nobody validates or locks it again. The
theorem covers what the run's instance leaves out: several ids, direct sources, a first
process that does not spawn, and the panic.

Two theorems bound the finding of `transcoder_panic` from both sides. `PanicNeedsFailedSpawn`:
while `exec.Cmd.Start` of first processes succeeds, `register` always comes back, since only
`Launch` leaves a `cmd` without a process. `PanicLocksForEver`: after the panic nothing is
registered, replaced, swept or removed again, of whatever id.

*Probe flights.* `LeadInv`: the map holds exactly the running flights and each has one
leader at work on it. `CacheInv`: only good probes are cached, and a call under way is
attached to no flight that was over when it began.

*Direct decisions.* `HandledInv` extends `LatestUnlessCrowded` to responses that have not
stored yet; `StoredInv` ties the memory to the last stored record and to the clock.
`Bounded` and `Retained` count with the cardinality theorems of the library: lemma
`Prunes` says that when pruning drops a live record exactly `Limit` records stay and none
is older, lemma by lemma from the set of evicted sessions.

*Part mappings.* `CacheInv`: what is cached under a state of a file was read while the file
was in that state or a later one, because the key comes from a stat before the read;
`RequestInv` carries the same to the request that is under way, from where `Put` hands it
to `MappingIsFresh`; lemma `LocalYields` says that a local description is stored or yields.

*Playback.* Theorem `Implements` is a refinement: every step of the handlers is a step of
`DirectDecisions` or leaves its variables alone, so the theorems of `DirectDecisionsProofs`
hold of the handlers (`P` is that module on the same variables; the lemmas `Same...` say
that `P` and `D` are one specification). `RedirectsFollowPlex` is where it pays off: it
needs that a record of an uncrowded session is from its last response, and that no
response comes from the future. To that `LastInv` adds that neither a record nor a
response still being handled survives Plex's taking back its decision, and
`DecidingInv` that a request stores for the session it is for. `FallbackEarned` needs
`EarnedInv`: whoever may register holds a rejection. `OwnPartAskedFirst` says how far the
sentence goes that `playback_other_part` refutes: it holds of every start that is served by
a session of its own Part.

*Journey.* `ToldIsKept` is inductive only with `ToldInv`: whoever is past its look for a
session, and might register another, was so when the decision was told. `OwnInv` carries
what a start registered to the moment it is served, `GotInv` the format to its label.
`DecisionIsOfWhatPlays` holds of documents of any size, by lemmas on what a strongest
observation is and what `Joined` keeps; no invariant helps there. `MetadataRedirects` and `PlanAddsNoAudio`
are about the policy alone.

*Media target.* `CheckedInv` says which URL has passed the check at which place (a retry
goes back to a source that has), `AnsweredInv` that what answered was asked.
`RequestsAreFew` needs `BudgetInv`: the requests of an attempt are counted by `via`, those
of HEAD by its limit, so the two limits add up and no redirect is counted twice.

*Lookups.* `EntryInv` bounds an entry's expiry by when its Part was last described, whatever the
clock does afterwards; `StoreInv` says no Part was described in the future; `CallInv` that
what a fetch stored, or something newer, or the URL kept over it (`AsFetched`), is still in
the store until its `Get`. `LookupsAreFew`
counts: what is kept is below the limit, and the keys of one path are no more than the
document's places (lemmas `KeptIsShort`, `KeysOfPath`).

*Metadata walk.* The proofs are of walks of any length over any document. `StageInv`:
`coldProbeUsed` counts the cold probes, and a Part's mapping is among those it `had`. Two
lemmas order the callbacks: `DueIsOne`, the walk is in one at a time, and `FilesAreBehind`, a
JSON item is described after the files of all its Parts. `ProbingInv` keeps what the walk
waits in ffprobe for from what other requests do meanwhile. `ColdProbesAreEarned` needs
`AllowedInv`: the count that allowed the probe may be out of date when a Part's turn comes,
so it is stated of what the Parts `had`. `SelectionIsProbed` needs `MeantInv`, its form in the
middle of a walk: what is to be probed still will be, or has been; and the probe that spent
the permission was for a Part of the same selection. `ItemsInv` adds to
`ItemsAreOfTheirParts` which callbacks are behind the Part that describes an item: in XML its
probe, which will not be made again; in JSON its file, so that it will not be declared for
direct play after all, unless its path makes it a `.strm` file anyway.

Model-checked only: liveness (`RequestsReturn`, `IdleSessionsEnd`, `StoppedSessionsEnd`,
`CallsReturn`, `CallsAreAnswered`), which rests on fairness and ENABLED and is outside the
prover's reach.

## Not modelled

* Rewriting and rendering of decisions (`decision_rewrite.go`, `decision_json_rewrite.go`,
  `hls_decision.go`, diagnostics): documents in, documents out, in one goroutine and
  without state. Which decisions are rewritten, and when, is in `PlaybackJourney`.
* ffprobe's output, configuration, `main`, the ffmpeg command line beyond which streams
  it copies: parsing and layout.
* Seeking beyond the first playlist (`ensureSegment`, the source cache): unreachable for the
  sessions the server registers, as told under HLSTranscoder.
* HTTP itself: the reverse proxy, headers, CORS, and the bytes of a media stream. Requests to
  the Part route are taken to have no body that a redirect would have to send again.
* A proxy of the environment (`http.ProxyFromEnvironment`, target.go:117): where one is
  configured the dialer sees the proxy's address and not the target's, so `ConnectsPublicly`
  is about a process without one.
* A media URL or Part key that itself ends in `.strm`, after which a rewritten Part would
  still count as a `.strm` file.
* The second lookup and wait of a resource request that a start has followed (srv:605-618),
  and the second section of `session.mu` in `sessionFormat` (hls:223): a sweep and an access
  more, and a lock taken to read a field, after which the request does what is modelled.

What remains to be done: a module that composes `PlaybackJourney` with
`TranscoderService` for several ids, in place of the single session the journey keeps;
seeking, should the server come to register sessions of known duration.
