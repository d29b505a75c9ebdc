---------------------------- MODULE PartMappings ----------------------------
(***************************************************************************)
(* How the URL of a Part comes to be known: IngestStructuredResponse and   *)
(* the MappingStore of mapping.go, over Resolver.Resolve of resolver.go.   *)
(*                                                                         *)
(* Every Part has one .strm file, whose successive states are numbered and *)
(* stand for their URLs.  The file changes at any time; an ingestion stats *)
(* it, looks in the cache, reads it, caches what it read under what it had *)
(* statted, and stores the mapping, each a step of its own.                *)
(*                                                                         *)
(* KeyOfPath and StoredOverSTRM are mistakes the code could have had; the  *)
(* specification uses neither.                                             *)
(***************************************************************************)
EXTENDS Naturals

CONSTANTS
  Req,         \* goroutines that ingest a response of Plex
  Part,        \* Part ids
  MaxVersion,  \* bound: states of one file
  Content      \* what each state of a file is, see Contents

Contents == {"url", "unusable", "large", "absent"}
Version == 1..MaxVersion

ASSUME MappingAssumption ==
  /\ MaxVersion \in Nat \ {0}
  /\ Content \in [Version -> Contents]

VARIABLES
  file,    \* the state each .strm file is in
  cache,   \* r.cache: what is cached for each file under each of its states
  items,   \* s.items
  pc,      \* what each request is doing
  part,    \* the Part it ingests
  stat,    \* the state its stat saw
  value,   \* the state whose URL it resolved, or None
  floor    \* history: what the last ingestion to store each mapping had statted

request == <<pc, part, stat, value>>
vars == <<file, cache, items, request, floor>>

None == 0
Mapping == [kind : {"none", "local", "strm"}, url : Version \cup {None}]
NoMapping == [kind |-> "none", url |-> None]
Local == [kind |-> "local", url |-> None]
STRM(v) == [kind |-> "strm", url |-> v]

Init ==
  /\ file = [p \in Part |-> 1]
  /\ cache = [p \in Part |-> [k \in Version |-> None]]
  /\ items = [p \in Part |-> NoMapping]
  /\ pc = [r \in Req |-> "idle"]
  /\ part \in [Req -> Part]
  /\ stat = [r \in Req |-> 1] /\ value = [r \in Req |-> None]
  /\ floor = [p \in Part |-> 1]

-----------------------------------------------------------------------------
(* The world: a file is edited, replaced, removed or put back, each time with
   another modification time or size. *)
Change(p) ==
  /\ file[p] < MaxVersion
  /\ file' = [file EXCEPT ![p] = @ + 1]
  /\ UNCHANGED <<cache, items, request, floor>>

(* An entry of either cache reaches its expiresAt: it is dropped when looked up,
   or passed over and overwritten. *)
ExpireResolution(p, k) ==
  /\ cache[p][k] # None
  /\ cache' = [cache EXCEPT ![p][k] = None]
  /\ UNCHANGED <<file, items, request, floor>>

ExpireMapping(p) ==
  /\ items[p] # NoMapping
  /\ items' = [items EXCEPT ![p] = NoMapping]
  /\ UNCHANGED <<file, cache, request, floor>>

-----------------------------------------------------------------------------
(* Resolve *)

(* secureFile: what is not there fails before any cache is asked. *)
Stat(r, p) ==
  /\ pc[r] = "idle"
  /\ part' = [part EXCEPT ![r] = p]
  /\ stat' = [stat EXCEPT ![r] = file[p]]
  /\ value' = [value EXCEPT ![r] = None]
  /\ pc' = [pc EXCEPT ![r] = IF Content[file[p]] = "absent" THEN "putting" ELSE "looking"]
  /\ UNCHANGED <<file, cache, items, floor>>

KeyOfPath(k) == 1
(* cacheKey: path, modification time and size. *)
Key(k) == k

Look(r) ==
  LET hit == cache[part[r]][Key(stat[r])] IN
  /\ pc[r] = "looking"
  /\ value' = [value EXCEPT ![r] = hit]
  /\ pc' = [pc EXCEPT ![r] = IF hit = None THEN "reading" ELSE "putting"]
  /\ UNCHANGED <<file, cache, items, part, stat, floor>>

(* readAndResolve goes by the size the stat saw and the text the file has now. *)
Read(r) ==
  LET now == file[part[r]]
      good == Content[stat[r]] # "large" /\ Content[now] = "url"
  IN
  /\ pc[r] = "reading"
  /\ value' = [value EXCEPT ![r] = IF good THEN now ELSE None]
  /\ pc' = [pc EXCEPT ![r] = IF good THEN "storing" ELSE "putting"]
  /\ UNCHANGED <<file, cache, items, part, stat, floor>>

Store(r) ==
  /\ pc[r] = "storing"
  /\ cache' = [cache EXCEPT ![part[r]][Key(stat[r])] = value[r]]
  /\ pc' = [pc EXCEPT ![r] = "putting"]
  /\ UNCHANGED <<file, items, part, stat, value, floor>>

-----------------------------------------------------------------------------
(* MappingStore.Put *)

Resolved(m) == m.kind = "strm" /\ m.url # None

StoredOverSTRM(old, new) == IF Resolved(old) THEN old ELSE new
(* A mapping that resolved is not replaced by a local one. *)
Stored(old, new) == IF Resolved(old) /\ new.kind = "local" THEN old ELSE new

(* The end of an ingestion: an error is stored too, as a mapping without URL. *)
Put(r) ==
  LET p == part[r] IN
  /\ pc[r] = "putting"
  /\ items' = [items EXCEPT ![p] = Stored(@, STRM(value[r]))]
  /\ floor' = [floor EXCEPT ![p] = stat[r]]
  /\ pc' = [pc EXCEPT ![r] = "idle"]
  /\ UNCHANGED <<file, cache, part, stat, value>>

(* handleDecision resolves a path for its own answer and stores no mapping. *)
Answer(r) ==
  /\ pc[r] = "putting"
  /\ pc' = [pc EXCEPT ![r] = "idle"]
  /\ UNCHANGED <<file, cache, items, part, stat, value, floor>>

(* Plex reports the Part without its .strm file, in a session or a status. *)
Echo(p) ==
  /\ items' = [items EXCEPT ![p] = Stored(@, Local)]
  /\ UNCHANGED <<file, cache, request, floor>>

-----------------------------------------------------------------------------
Next ==
  \/ \E p \in Part :
       \/ Change(p) \/ ExpireMapping(p) \/ Echo(p)
       \/ \E k \in Version : ExpireResolution(p, k)
       \/ \E r \in Req : Stat(r, p)
  \/ \E r \in Req : Look(r) \/ Read(r) \/ Store(r) \/ Put(r) \/ Answer(r)

Spec == Init /\ [][Next]_vars

-----------------------------------------------------------------------------
TypeOK ==
  /\ file \in [Part -> Version]
  /\ cache \in [Part -> [Version -> Version \cup {None}]]
  /\ items \in [Part -> Mapping]
  /\ pc \in [Req -> {"idle", "looking", "reading", "storing", "putting"}]
  /\ part \in [Req -> Part] /\ stat \in [Req -> Version]
  /\ value \in [Req -> Version \cup {None}]
  /\ floor \in [Part -> Version]

(* A resolution is never older than its call, although the cache may hold other
   states of the file and the file may change between stat, read and store: what
   is found under a stat was read after some stat that saw the same. *)
ResolutionIsFresh ==
  \A r \in Req : pc[r] = "putting" /\ value[r] # None => value[r] >= stat[r]

(* The URL a Part is redirected to was in the file at some time since the last
   ingestion of the Part to be stored began.  Expired entries, local echoes that
   keep the old mapping and ingestions that overtake each other do not make it
   older than that.  How long echoes can keep it has no limit, see MetadataLookups. *)
MappingIsFresh ==
  \A p \in Part : items[p].url # None => items[p].url >= floor[p]

(* No URL is ever made up or taken from a file that holds none. *)
URLsAreRead ==
  \A p \in Part : items[p].url # None => Content[items[p].url] = "url"

-----------------------------------------------------------------------------
(* The inductive invariant: what is cached under a state is no older than it. *)
CacheInv ==
  \A p \in Part, k \in Version : cache[p][k] # None =>
    k <= cache[p][k] /\ cache[p][k] <= file[p] /\ Content[cache[p][k]] = "url"

RequestInv ==
  \A r \in Req :
    /\ pc[r] # "idle" => stat[r] <= file[part[r]]
    /\ pc[r] # "idle" /\ value[r] # None =>
         /\ stat[r] <= value[r] /\ value[r] <= file[part[r]]
         /\ Content[value[r]] = "url"
    /\ pc[r] = "storing" => value[r] # None

IInv ==
  /\ TypeOK /\ CacheInv /\ RequestInv /\ MappingIsFresh /\ URLsAreRead
=============================================================================
