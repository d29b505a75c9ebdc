-------------------------- MODULE MetadataLookups --------------------------
(***************************************************************************)
(* Which Part a metadata path means, for decisions and starts: the lookup  *)
(* cache of metadata.go over the MappingStore of mapping.go, and the       *)
(* requests and responses that fill both.                                  *)
(*                                                                         *)
(* Plex describes a path by a document, a sequence of Media with their     *)
(* Parts.  A lookup that is not cached asks Plex, ingests what it answers, *)
(* gets the mapping of its Part and remembers those of all the document's  *)
(* Parts, three critical sections one after another; a response on its way *)
(* to a client is ingested and remembered too, by other goroutines.  How a *)
(* .strm file is resolved is in PartMappings; here an ingestion finds some *)
(* mapping.  A Part has one id.                                            *)
(*                                                                         *)
(* FullWhenOver, StoredOverSTRM and KnownEvenExpired are mistakes the      *)
(* code could have had; the specification uses none.                       *)
(***************************************************************************)
EXTENDS Integers, Sequences, FiniteSets

CONSTANTS
  Req,         \* goroutines
  Path, Part,
  Documents,   \* what Plex may answer for a path
  Place,       \* positions in them: <<media index, part index>>
  Largest,     \* the most Parts a document has
  Limit,       \* metadataPartLookupMaxEntries
  LookupTTL, MappingTTL,   \* metadataPartLookupTTL, MAPPING_CACHE_TTL
  MaxTime      \* bound: the clock's last value

Format == {"xml", "json"}

(* extractIndexedPartRecords: in JSON a Media without Parts does not count. *)
HasParts(media) == media # <<>>
Indexed(document, format) ==
  IF format = "json" THEN SelectSeq(document, HasParts) ELSE document
Places(indexed) == {place \in Place : /\ place[1] \in DOMAIN indexed
                                      /\ place[2] \in DOMAIN indexed[place[1]]}
PartsOf(document) == UNION {{m[j] : j \in DOMAIN m} : m \in {document[i] : i \in DOMAIN document}}

ASSUME LookupAssumption ==
  /\ IsFiniteSet(Path) /\ IsFiniteSet(Place)
  /\ {Limit, LookupTTL, MappingTTL} \subseteq Nat \ {0} /\ {Largest, MaxTime} \subseteq Nat
  /\ \A document \in Documents, format \in Format :
       LET indexed == Indexed(document, format) IN
       /\ Cardinality(Places(indexed)) <= Largest
       /\ \A place \in Places(indexed) : indexed[place[1]][place[2]] \in PartsOf(document) \cap Part

VARIABLES
  now,      \* time.Now
  store,    \* s.mappings
  lookups,  \* s.metadataLookups
  call      \* what each goroutine is doing

vars == <<now, store, lookups, call>>

Key == Path \X Place
Time == 0..MaxTime
Kind == {"strm", "unresolved", "local"}
None == [until |-> 0]
NoCall == [at |-> "idle"]

(* strm: the mapping names a URL.  since: when the description it holds was stored, which
   may be before it was renewed.  heard: when a document had last described the Part, in
   any way, as its mapping was copied. *)
Mapping == [strm : BOOLEAN, since : Time, until : 0..(MaxTime + MappingTTL)]
Entry == [until : 0..(MaxTime + LookupTTL), heard : Time]
Indexes == {Indexed(document, format) : document \in Documents, format \in Format}
Call ==
  [at : {"fetching"}, key : Key]
    \cup [at : {"getting"}, key : Key, indexed : Indexes, fetched : Time, local : BOOLEAN]
    \cup [at : {"remembering"}, path : Path, indexed : Indexes]

Init ==
  /\ now = 0
  /\ store = [p \in Part |-> None]
  /\ lookups = [k \in Key |-> None]
  /\ call = [r \in Req |-> NoCall]

At(r, place) == call[r].at = place
Becomes(r, new) == call' = [call EXCEPT ![r] = new]
Live(entry) == now < entry.until
Found(p) == Live(store[p])
(* Every description of a Part, an echo too, gives its mapping a new lifetime. *)
HeardAt(p) == store[p].until - MappingTTL

Tick ==
  /\ now < MaxTime
  /\ now' = now + 1
  /\ UNCHANGED <<store, lookups, call>>

-----------------------------------------------------------------------------
(* MappingStore.Put: a live mapping that resolved is kept over a local echo, with the time
   of its own description and a new lifetime. *)

KeptMapping(old) == [strm |-> TRUE, since |-> old.since, until |-> now + MappingTTL]
NewMapping(kind) == [strm |-> kind = "strm", since |-> now, until |-> now + MappingTTL]
StoredOverSTRM(old, kind) ==
  IF Live(old) /\ old.strm THEN KeptMapping(old) ELSE NewMapping(kind)
Stored(old, kind) ==
  IF Live(old) /\ old.strm /\ kind = "local" THEN KeptMapping(old) ELSE NewMapping(kind)

Findings(document) == [PartsOf(document) -> Kind]
Ingested(document, found) ==
  [p \in Part |-> IF p \in PartsOf(document) THEN Stored(store[p], found[p]) ELSE store[p]]

(* A response that is ingested and not remembered: a session, a status. *)
Ingest(document, found) ==
  /\ store' = Ingested(document, found)
  /\ UNCHANGED <<now, lookups, call>>

-----------------------------------------------------------------------------
(* lookupMetadataPartSnapshot *)

(* cachedMetadataPartLookup: a hit is the answer, and changes nothing; what has expired
   is dropped. *)
Look(r, k) ==
  /\ At(r, "idle") /\ ~Live(lookups[k])
  /\ lookups' = [lookups EXCEPT ![k] = None]
  /\ Becomes(r, [at |-> "fetching", key |-> k])
  /\ UNCHANGED <<now, store>>

PartAt(indexed, place) == indexed[place[1]][place[2]]

(* fetched and local are history: when the document was ingested, and whether it gave the
   Part that is looked up no .strm file. *)
Fetch(r, document, format, found) ==
  LET indexed == Indexed(document, format)
      place == call[r].key[2]
  IN
  /\ At(r, "fetching")
  /\ place \in Places(indexed)
  /\ store' = Ingested(document, found)
  /\ Becomes(r, [at |-> "getting", key |-> call[r].key, indexed |-> indexed, fetched |-> now,
                 local |-> found[PartAt(indexed, place)] = "local"])
  /\ UNCHANGED <<now, lookups>>

(* Plex cannot be reached, refuses, or describes no such Part. *)
FetchFails(r) ==
  /\ At(r, "fetching")
  /\ Becomes(r, NoCall)
  /\ UNCHANGED <<now, store, lookups>>

Wanted(r) == PartAt(call[r].indexed, call[r].key[2])

Get(r) ==
  /\ At(r, "getting")
  /\ Becomes(r, IF Found(Wanted(r))
                THEN [at |-> "remembering", path |-> call[r].key[1], indexed |-> call[r].indexed]
                ELSE NoCall)
  /\ UNCHANGED <<now, store, lookups>>

(* modifyPlexResponse: a metadata response is ingested and remembered as it passes. *)
Pass(r, path, document, format, found) ==
  /\ At(r, "idle")
  /\ store' = Ingested(document, found)
  /\ Becomes(r, [at |-> "remembering", path |-> path, indexed |-> Indexed(document, format)])
  /\ UNCHANGED <<now, lookups>>

-----------------------------------------------------------------------------
(* rememberMetadataPartLookups, under metadataMu *)

TTL == IF MappingTTL < LookupTTL THEN MappingTTL ELSE LookupTTL

(* pruneMetadataLookupsLocked *)
Pruned == [k \in Key |-> IF Live(lookups[k]) THEN lookups[k] ELSE None]

Held(entries) == {k \in Key : entries[k] # None}
FullWhenOver(entries) == Cardinality(Held(entries)) > Limit
Full(entries) == Cardinality(Held(entries)) >= Limit
Kept == IF Full(Pruned) THEN [k \in Key |-> None] ELSE Pruned

KnownEvenExpired(indexed) == {place \in Places(indexed) : store[PartAt(indexed, place)] # None}
(* The places whose Parts have a mapping by now. *)
Known(indexed) == {place \in Places(indexed) : Found(PartAt(indexed, place))}
EntryFor(p) == [until |-> now + TTL, heard |-> HeardAt(p)]

(* A document without Media is not remembered, nor are expired entries dropped then. *)
Remembered(path, indexed) ==
  IF indexed = <<>> THEN lookups
  ELSE [k \in Key |-> IF k[1] = path /\ k[2] \in Known(indexed)
                      THEN EntryFor(PartAt(indexed, k[2])) ELSE Kept[k]]

Remember(r) ==
  /\ At(r, "remembering")
  /\ lookups' = Remembered(call[r].path, call[r].indexed)
  /\ Becomes(r, NoCall)
  /\ UNCHANGED <<now, store>>

-----------------------------------------------------------------------------
Next ==
  \/ Tick
  \/ \E document \in Documents : \E found \in Findings(document) : Ingest(document, found)
  \/ \E r \in Req :
       \/ \E k \in Key : Look(r, k)
       \/ FetchFails(r) \/ Get(r) \/ Remember(r)
       \/ \E document \in Documents, format \in Format : \E found \in Findings(document) :
            \/ Fetch(r, document, format, found)
            \/ \E path \in Path : Pass(r, path, document, format, found)

Spec == Init /\ [][Next]_vars

-----------------------------------------------------------------------------
TypeOK ==
  /\ now \in Time
  /\ store \in [Part -> Mapping \cup {None}]
  /\ lookups \in [Key -> Entry \cup {None}]
  /\ call \in [Req -> Call \cup {NoCall}]

(* What really bounds the lookup cache: the reset at the limit makes room before a whole
   document is added, so there are never more entries than the limit leaves and one
   document brings. *)
LookupsAreFew == Cardinality(Held(lookups)) <= (Limit - 1) + Largest

(* A lookup is a copy of a mapping that has a lifetime of its own; rememberMetadata-
   PartLookups caps it by the mappings'.  The Part a decision is answered with was
   described by Plex less than the two lifetimes ago, and less than two of the mappings',
   however copies, echoes, expiries and slow goroutines follow each other.  It is the
   Part that was described then, with its .strm file or without: the URL itself may be
   older, as FetchedIsFresh tells. *)
AnswersAreRecent ==
  \A k \in Key : Live(lookups[k]) =>
    /\ now < lookups[k].heard + MappingTTL + LookupTTL
    /\ now < lookups[k].heard + 2 * MappingTTL

(* Between a lookup's ingestion and its Get, other documents are ingested and mappings
   expire.  Its answer is still what its own document said of the Part, or what one said
   that was stored later.  There is one way for something older to be the answer, and it
   has no limit of age: the document gives the Part no .strm file and the URL that was
   known is kept over it, again and again if need be. *)
AsFetched(r) ==
  LET mapping == store[Wanted(r)] IN
  mapping.since >= call[r].fetched \/ (call[r].local /\ mapping.strm)
FetchedIsFresh ==
  \A r \in Req : At(r, "getting") /\ Found(Wanted(r)) => AsFetched(r)

-----------------------------------------------------------------------------
(* The inductive invariant: what each copy may still count on. *)

StoreInv == \A p \in Part : store[p] # None => HeardAt(p) \in Time /\ HeardAt(p) <= now

EntryInv ==
  \A k \in Key : lookups[k] # None =>
    /\ lookups[k].heard <= now
    /\ lookups[k].until < lookups[k].heard + MappingTTL + LookupTTL
    /\ lookups[k].until < lookups[k].heard + 2 * MappingTTL

CallInv ==
  \A r \in Req : At(r, "getting") =>
    /\ call[r].fetched <= now
    /\ call[r].key[2] \in Places(call[r].indexed)
    /\ store[Wanted(r)] # None /\ AsFetched(r)

IInv == TypeOK /\ StoreInv /\ EntryInv /\ CallInv /\ LookupsAreFew
=============================================================================
