----------------------- MODULE MetadataLookupsProofs -----------------------
(***************************************************************************)
(* Proofs about MetadataLookups, for any goroutines, paths and documents,  *)
(* any limit and any two lifetimes.                                        *)
(***************************************************************************)
EXTENDS MetadataLookups, FiniteSetTheorems, TLAPS

LEMMA Numbers ==
  /\ Limit \in Nat /\ 1 <= Limit
  /\ LookupTTL \in Nat /\ 1 <= LookupTTL
  /\ MappingTTL \in Nat /\ 1 <= MappingTTL
  /\ Largest \in Nat /\ MaxTime \in Nat
BY LookupAssumption

(* The lifetime of a lookup is no longer than either. *)
LEMMA TTLIsLeast ==
  TTL \in Nat /\ 1 <= TTL /\ TTL <= LookupTTL /\ TTL <= MappingTTL
BY Numbers DEF TTL

LEMMA NoneIsDead ==
  ASSUME now \in Time PROVE ~Live(None)
BY Numbers DEF Live, None, Time

(* What LookupAssumption says of the documents, for what a request holds of them. *)
LEMMA IndexedPart ==
  ASSUME NEW indexed \in Indexes, NEW place \in Places(indexed)
  PROVE  PartAt(indexed, place) \in Part
BY LookupAssumption DEF Indexes, PartAt

LEMMA DocumentPart ==
  ASSUME NEW document \in Documents, NEW format \in Format,
         NEW place \in Places(Indexed(document, format))
  PROVE  PartAt(Indexed(document, format), place) \in PartsOf(document) \cap Part
BY LookupAssumption DEF PartAt

LEMMA PlacesAreFew ==
  ASSUME NEW indexed \in Indexes
  PROVE  Cardinality(Places(indexed)) <= Largest
BY LookupAssumption DEF Indexes

-----------------------------------------------------------------------------
(* How many lookups a document adds. *)

LEMMA KeysAreFinite ==
  ASSUME NEW K \in SUBSET Key
  PROVE  IsFiniteSet(K) /\ Cardinality(K) \in Nat
<1>1. IsFiniteSet(Key)
  BY LookupAssumption, FS_Product DEF Key
<1> QED BY <1>1, FS_Subset, FS_CardinalityType

(* The keys of one path are no more than their places. *)
LEMMA KeysOfPath ==
  ASSUME NEW path \in Path, NEW P \in SUBSET Place
  PROVE  Cardinality({path} \X P) <= Cardinality(P)
<1>1. IsFiniteSet(P)
  BY LookupAssumption, FS_Subset
<1> DEFINE placeOf == [k \in {path} \X P |-> k[2]]
<1>2. placeOf \in Injection({path} \X P, P)
  BY DEF Injection, IsInjective
<1> QED BY <1>1, <1>2, FS_Injection

LEMMA KeptIsShort ==
  ASSUME TypeOK PROVE Held(Kept) \subseteq Key /\ Cardinality(Held(Kept)) <= Limit - 1
<1>1. Held(Kept) \subseteq Key
  BY DEF Held
<1>2. CASE Full(Pruned)
  <2>1. Held(Kept) = {}
    BY <1>2 DEF Kept, Held
  <2> QED BY <1>1, <2>1, FS_EmptySet, Numbers
<1>3. CASE ~Full(Pruned)
  <2>1. Kept = Pruned
    BY <1>3 DEF Kept
  <2>2. Cardinality(Held(Pruned)) \in Nat
    BY <1>1, <2>1, KeysAreFinite
  <2> QED BY <1>1, <1>3, <2>1, <2>2, Numbers DEF Full
<1> QED BY <1>2, <1>3

LEMMA RememberedAreFew ==
  ASSUME TypeOK, LookupsAreFew, NEW path \in Path, NEW indexed \in Indexes,
         lookups' = Remembered(path, indexed)
  PROVE  LookupsAreFew'
<1>1. CASE indexed = <<>>
  BY <1>1 DEF LookupsAreFew, Remembered, Held
<1>2. CASE indexed # <<>>
  <2> DEFINE Added == {path} \X Known(indexed)
             Before == Held(Kept)
  <2>1. Known(indexed) \subseteq Places(indexed) /\ Places(indexed) \subseteq Place
    BY DEF Known, Places
  <2>2. Before \in SUBSET Key /\ Cardinality(Before) <= Limit - 1
    BY KeptIsShort
  <2>3. Added \in SUBSET Key
    BY <2>1 DEF Key
  <2>4. Held(lookups') \subseteq Before \cup Added
    BY <1>2 DEF Held, Remembered, Key
  <2>5. Cardinality(Added) <= Largest
    <3>1. Cardinality(Added) <= Cardinality(Known(indexed))
      BY <2>1, KeysOfPath
    <3>2. IsFiniteSet(Places(indexed))
      BY <2>1, LookupAssumption, FS_Subset
    <3>3. Cardinality(Known(indexed)) <= Cardinality(Places(indexed))
      BY <2>1, <3>2, FS_Subset
    <3>4. /\ Cardinality(Known(indexed)) \in Nat /\ Cardinality(Places(indexed)) \in Nat
          /\ Cardinality(Added) \in Nat
      BY <2>1, <2>3, <3>2, FS_Subset, FS_CardinalityType, KeysAreFinite
    <3> QED BY <3>1, <3>3, <3>4, PlacesAreFew, Numbers
  <2> HIDE DEF Added, Before
  <2>6. /\ IsFiniteSet(Before \cup Added)
        /\ Cardinality(Before \cup Added) \in Nat
        /\ Cardinality(Before \cup Added) <= Cardinality(Before) + Cardinality(Added)
    <3>1. /\ IsFiniteSet(Before) /\ IsFiniteSet(Added)
          /\ Cardinality(Before \cap Added) \in Nat
          /\ Cardinality(Before) \in Nat /\ Cardinality(Added) \in Nat
      BY <2>2, <2>3, KeysAreFinite
    <3>2. /\ IsFiniteSet(Before \cup Added)
          /\ Cardinality(Before \cup Added)
               = Cardinality(Before) + Cardinality(Added) - Cardinality(Before \cap Added)
      BY <3>1, FS_Union
    <3> QED BY <3>1, <3>2, FS_CardinalityType
  <2>7. Cardinality(Held(lookups')) <= Cardinality(Before \cup Added)
    BY <2>4, <2>6, FS_Subset
  <2>8. Cardinality(Held(lookups')) \in Nat /\ Cardinality(Before) \in Nat /\ Cardinality(Added) \in Nat
    BY <2>2, <2>3, KeysAreFinite DEF Held
  <2>9. Cardinality(Held(lookups')) <= (Limit - 1) + Largest
    BY <2>2, <2>5, <2>6, <2>7, <2>8, Numbers
  <2> QED BY <2>9 DEF LookupsAreFew, Held
<1> QED BY <1>1, <1>2

-----------------------------------------------------------------------------
(* The steps. *)

LEMMA InitInv == Init => IInv
<1> SUFFICES ASSUME Init PROVE IInv
  OBVIOUS
<1>1. TypeOK
  BY Numbers DEF Init, TypeOK, Time
<1>2. StoreInv /\ EntryInv /\ CallInv
  BY DEF Init, StoreInv, EntryInv, CallInv, At, NoCall
<1>3. Held(lookups) = {}
  BY DEF Init, Held
<1>4. LookupsAreFew
  BY <1>3, FS_EmptySet, Numbers DEF LookupsAreFew
<1> QED BY <1>1, <1>2, <1>4 DEF IInv

(* The clock spares what is remembered: it is compared with when it is read. *)
LEMMA TickStep == ASSUME IInv, Tick PROVE IInv'
<1> USE DEF IInv, Tick
<1>1. now' \in Time /\ now <= now' /\ now \in Int
  BY Numbers DEF TypeOK, Time
<1>2. TypeOK'
  BY <1>1 DEF TypeOK
<1>3. StoreInv'
  <2> SUFFICES ASSUME NEW p \in Part, store[p] # None
               PROVE  HeardAt(p) \in Time /\ HeardAt(p) <= now'
    BY DEF StoreInv, HeardAt
  <2>1. HeardAt(p) \in Time /\ HeardAt(p) <= now
    BY DEF StoreInv
  <2> QED BY <1>1, <2>1 DEF Time
<1>4. EntryInv'
  <2> SUFFICES ASSUME NEW k \in Key, lookups[k] # None
               PROVE  lookups[k].heard <= now' /\ lookups[k].heard <= now
    BY DEF EntryInv
  <2>1. lookups[k] \in Entry
    BY DEF TypeOK
  <2> QED BY <1>1, <2>1 DEF EntryInv, Entry, Time
<1>5. CallInv'
  <2> SUFFICES ASSUME NEW r \in Req, At(r, "getting")
               PROVE  call[r].fetched <= now'
    BY DEF CallInv, At, Wanted, AsFetched
  <2>1. call[r].fetched \in Time
    BY DEF TypeOK, At, Call, NoCall
  <2> QED BY <1>1, <2>1 DEF CallInv, Time
<1>6. LookupsAreFew'
  BY DEF LookupsAreFew
<1> QED BY <1>2, <1>3, <1>4, <1>5, <1>6

(* What an ingestion does to the store: the Parts of its document are heard of now, and
   hold what the document said unless an echo left what was there. *)
LEMMA IngestionRenews ==
  ASSUME IInv, NEW document \in Documents, NEW found \in Findings(document),
         store' = Ingested(document, found), now' = now
  PROVE  /\ store' \in [Part -> Mapping \cup {None}]
         /\ StoreInv'
         /\ \A p \in Part : p \notin PartsOf(document) => store'[p] = store[p]
         /\ \A p \in Part \cap PartsOf(document) :
              /\ store'[p] # None
              /\ \/ store'[p].since = now
                 \/ /\ found[p] = "local" /\ store'[p].strm /\ store[p] # None
                    /\ store[p].strm /\ store'[p].since = store[p].since
<1> USE DEF IInv
<1>0. now \in Time
  BY DEF TypeOK
<1>1. ASSUME NEW p \in Part \cap PartsOf(document)
      PROVE  /\ store'[p] \in Mapping /\ store'[p] # None
             /\ store'[p].until = now + MappingTTL
             /\ \/ store'[p].since = now
                \/ /\ found[p] = "local" /\ store'[p].strm /\ store[p] # None
                   /\ store[p].strm /\ store'[p].since = store[p].since
  <2>1. store'[p] = Stored(store[p], found[p])
    BY DEF Ingested, TypeOK
  <2>2. now + MappingTTL \in 0..(MaxTime + MappingTTL) /\ now + MappingTTL # 0
    BY <1>0, Numbers DEF Time
  <2>3. CASE Live(store[p]) /\ store[p].strm /\ found[p] = "local"
    <3>1. store'[p] = KeptMapping(store[p])
      BY <2>1, <2>3 DEF Stored
    <3>2. store[p] # None
      BY <1>0, <2>3, NoneIsDead
    <3>3. store[p].since \in Time
      BY <3>2 DEF TypeOK, Mapping
    <3> QED BY <2>2, <2>3, <3>1, <3>2, <3>3 DEF KeptMapping, Mapping, None
  <2>4. CASE ~(Live(store[p]) /\ store[p].strm /\ found[p] = "local")
    <3>1. store'[p] = NewMapping(found[p])
      BY <2>1, <2>4 DEF Stored
    <3> QED BY <1>0, <2>2, <3>1 DEF NewMapping, Mapping, None
  <2> QED BY <2>3, <2>4
<1>2. ASSUME NEW p \in Part, p \notin PartsOf(document) PROVE store'[p] = store[p]
  BY <1>2 DEF Ingested
<1>3. \A p \in Part \cap PartsOf(document) : store'[p] # None /\ HeardAt(p)' = now
  BY <1>0, <1>1, Numbers DEF HeardAt, Time
<1>4. store' \in [Part -> Mapping \cup {None}]
  <2>1. \A p \in Part : store'[p] \in Mapping \cup {None}
    BY <1>1, <1>2 DEF TypeOK
  <2> QED BY <2>1 DEF Ingested
<1>5. \A p \in Part : store[p] # None => HeardAt(p) \in Time /\ HeardAt(p) <= now
  BY DEF StoreInv
<1>6. StoreInv'
  <2> SUFFICES ASSUME NEW p \in Part, store'[p] # None
               PROVE  HeardAt(p)' \in Time /\ HeardAt(p)' <= now
    BY DEF StoreInv
  <2>1. CASE p \in PartsOf(document)
    BY <1>0, <1>3, <2>1 DEF Time
  <2>2. CASE p \notin PartsOf(document)
    BY <1>2, <1>5, <2>2 DEF HeardAt
  <2> QED BY <2>1, <2>2
<1> QED BY <1>1, <1>2, <1>4, <1>6

(* A request that waits for its Get keeps what it counts on through an ingestion. *)
LEMMA IngestionSpares ==
  ASSUME IInv, NEW document \in Documents, NEW found \in Findings(document),
         store' = Ingested(document, found), UNCHANGED <<now, lookups>>,
         NEW r \in Req, At(r, "getting"), call'[r] = call[r]
  PROVE  /\ call'[r].fetched <= now
         /\ call'[r].key[2] \in Places(call'[r].indexed)
         /\ store'[Wanted(r)'] # None /\ AsFetched(r)'
<1> USE DEF IInv
<1>1. /\ call[r].fetched <= now
      /\ call[r].key[2] \in Places(call[r].indexed)
      /\ store[Wanted(r)] # None /\ AsFetched(r)
  BY DEF CallInv
<1>2. /\ call[r].indexed \in Indexes /\ call[r].fetched \in Time
  BY DEF TypeOK, At, Call, NoCall
<1>3. PICK p \in Part : p = Wanted(r)
  BY <1>1, <1>2, IndexedPart DEF Wanted
<1>4. Wanted(r)' = p
  BY <1>3 DEF Wanted
<1>5. store[p].since >= call[r].fetched \/ (call[r].local /\ store[p].strm)
  BY <1>1, <1>3 DEF AsFetched
<1>6. /\ store'[p] # None
      /\ store'[p].since >= call[r].fetched \/ (call[r].local /\ store'[p].strm)
  <2>1. CASE p \notin PartsOf(document)
    BY <1>1, <1>3, <1>5, <2>1, IngestionRenews
  <2>2. CASE p \in PartsOf(document)
    <3>1. /\ store'[p] # None
          /\ \/ store'[p].since = now
             \/ store'[p].strm /\ store'[p].since = store[p].since
      BY <2>2, IngestionRenews
    <3>2. now \in Nat /\ call[r].fetched \in Nat
      BY <1>2, Numbers DEF TypeOK, Time
    <3> QED BY <1>1, <1>5, <3>1, <3>2
  <2> QED BY <2>1, <2>2
<1>7. AsFetched(r)'
  BY <1>4, <1>6 DEF AsFetched
<1> QED BY <1>1, <1>4, <1>6, <1>7

(* The same for all of them, where only requests that are not waiting move. *)
LEMMA IngestedInv ==
  ASSUME IInv, NEW document \in Documents, NEW found \in Findings(document),
         store' = Ingested(document, found), UNCHANGED <<now, lookups>>,
         call' \in [Req -> Call \cup {NoCall}],
         \A r \in Req : At(r, "getting")' => At(r, "getting") /\ call'[r] = call[r]
  PROVE  IInv'
<1> USE DEF IInv
<1>1. TypeOK' /\ StoreInv'
  BY IngestionRenews DEF TypeOK
<1>2. EntryInv' /\ LookupsAreFew'
  BY DEF EntryInv, LookupsAreFew
<1>3. CallInv'
  <2> SUFFICES ASSUME NEW r \in Req, At(r, "getting")'
               PROVE  /\ call'[r].fetched <= now
                      /\ call'[r].key[2] \in Places(call'[r].indexed)
                      /\ store'[Wanted(r)'] # None /\ AsFetched(r)'
    BY DEF CallInv
  <2> QED BY IngestionSpares
<1> QED BY <1>1, <1>2, <1>3

LEMMA IngestStep ==
  ASSUME IInv, NEW document \in Documents, NEW found \in Findings(document),
         Ingest(document, found)
  PROVE  IInv'
<1>1. call' \in [Req -> Call \cup {NoCall}]
  BY DEF Ingest, IInv, TypeOK
<1>2. \A r \in Req : At(r, "getting")' => At(r, "getting") /\ call'[r] = call[r]
  BY DEF Ingest, At
<1> QED BY <1>1, <1>2, IngestedInv DEF Ingest

LEMMA PassStep ==
  ASSUME IInv, NEW r \in Req, NEW path \in Path, NEW document \in Documents,
         NEW format \in Format, NEW found \in Findings(document),
         Pass(r, path, document, format, found)
  PROVE  IInv'
<1> DEFINE new == [at |-> "remembering", path |-> path, indexed |-> Indexed(document, format)]
<1>1. new \in Call
  BY DEF Call, Indexes
<1>2. call' \in [Req -> Call \cup {NoCall}]
  BY <1>1 DEF Pass, Becomes, IInv, TypeOK
<1>3. \A q \in Req : At(q, "getting")' => At(q, "getting") /\ call'[q] = call[q]
  BY DEF Pass, Becomes, At, IInv, TypeOK
<1> QED BY <1>2, <1>3, IngestedInv DEF Pass

(* The fetch itself: what it waits to get was ingested just now. *)
LEMMA FetchStep ==
  ASSUME IInv, NEW r \in Req, NEW document \in Documents,
         NEW format \in Format, NEW found \in Findings(document),
         Fetch(r, document, format, found)
  PROVE  IInv'
<1> USE DEF IInv
<1> DEFINE wanted == PartAt(Indexed(document, format), call[r].key[2])
           new == [at |-> "getting", key |-> call[r].key, indexed |-> Indexed(document, format),
                   fetched |-> now, local |-> found[wanted] = "local"]
<1>0. store' = Ingested(document, found) /\ UNCHANGED <<now, lookups>>
  BY DEF Fetch
<1>1. new \in Call
  <2>1. call[r].key \in Key /\ now \in Time
    BY DEF Fetch, At, TypeOK, Call, NoCall
  <2> QED BY <2>1 DEF Call, Indexes
<1>2. call' = [call EXCEPT ![r] = new] /\ call'[r] = new
  BY DEF Fetch, Becomes, TypeOK
<1>3. TypeOK' /\ StoreInv'
  BY <1>0, <1>1, <1>2, IngestionRenews DEF TypeOK
<1>4. EntryInv' /\ LookupsAreFew'
  BY <1>0 DEF EntryInv, LookupsAreFew
<1>5. ASSUME NEW q \in Req, At(q, "getting")'
      PROVE  /\ call'[q].fetched <= now
             /\ call'[q].key[2] \in Places(call'[q].indexed)
             /\ store'[Wanted(q)'] # None /\ AsFetched(q)'
  <2>1. CASE q = r
    <3>1. call[r].key[2] \in Places(Indexed(document, format))
      BY DEF Fetch
    <3>2. PICK p \in Part \cap PartsOf(document) : p = wanted
      BY <3>1, DocumentPart
    <3>3. /\ Wanted(q)' = p /\ call'[q].fetched = now
          /\ found[p] = "local" => call'[q].local
      <4>1. call'[q] = new
        BY <1>2, <2>1
      <4>2. call'[q].local = (found[wanted] = "local") /\ call'[q].fetched = now
        BY <4>1
      <4>3. Wanted(q)' = wanted
        BY <4>1 DEF Wanted
      <4> QED BY <3>2, <4>2, <4>3
    <3>4. /\ store'[p] # None
          /\ store'[p].since = now \/ (found[p] = "local" /\ store'[p].strm)
      BY <1>0, IngestionRenews
    <3>5. now \in Nat
      BY Numbers DEF TypeOK, Time
    <3>6. AsFetched(q)'
      <4>1. store'[p].since >= call'[q].fetched \/ (call'[q].local /\ store'[p].strm)
        BY <3>3, <3>4, <3>5
      <4> QED BY <3>3, <4>1 DEF AsFetched
    <3> QED BY <1>2, <2>1, <3>1, <3>3, <3>4, <3>5, <3>6
  <2>2. CASE q # r
    <3>1. call'[q] = call[q] /\ At(q, "getting")
      BY <1>2, <1>5, <2>2 DEF At, TypeOK
    <3> QED BY <1>0, <3>1, IngestionSpares
  <2> QED BY <2>1, <2>2
<1>6. CallInv'
  BY <1>0, <1>5 DEF CallInv
<1> QED BY <1>3, <1>4, <1>6

(* Dropping an expired lookup. *)
LEMMA LookStep == ASSUME IInv, NEW r \in Req, NEW k \in Key, Look(r, k) PROVE IInv'
<1> USE DEF IInv
<1> DEFINE new == [at |-> "fetching", key |-> k]
<1>1. new \in Call
  BY DEF Call
<1>2. /\ lookups' = [lookups EXCEPT ![k] = None] /\ call' = [call EXCEPT ![r] = new]
      /\ UNCHANGED <<now, store>>
  BY DEF Look, Becomes
<1>3. TypeOK'
  BY <1>1, <1>2 DEF TypeOK
<1>4. StoreInv' /\ EntryInv'
  BY <1>2 DEF StoreInv, HeardAt, EntryInv, TypeOK
<1>5. CallInv'
  BY <1>2 DEF CallInv, At, Wanted, AsFetched, TypeOK
<1>6. LookupsAreFew'
  <2>1. Held(lookups') \subseteq Held(lookups) /\ Held(lookups) \subseteq Key
    BY <1>2 DEF Held, TypeOK
  <2>2. /\ IsFiniteSet(Held(lookups)) /\ Cardinality(Held(lookups)) \in Nat
        /\ Cardinality(Held(lookups')) \in Nat
    BY <2>1, KeysAreFinite
  <2>3. Cardinality(Held(lookups')) <= Cardinality(Held(lookups))
    BY <2>1, <2>2, FS_Subset
  <2>4. Cardinality(Held(lookups')) <= (Limit - 1) + Largest
    BY <2>2, <2>3, Numbers DEF LookupsAreFew
  <2> QED BY <2>4 DEF LookupsAreFew, Held
<1> QED BY <1>3, <1>4, <1>5, <1>6

(* A request that ends, or goes on to remember. *)
LEMMA GoesOn ==
  ASSUME IInv, NEW r \in Req, NEW new \in Call \cup {NoCall}, new.at # "getting",
         Becomes(r, new), UNCHANGED <<now, store, lookups>>
  PROVE  IInv'
<1> USE DEF IInv
<1>1. call' = [call EXCEPT ![r] = new]
  BY DEF Becomes
<1>2. TypeOK'
  BY <1>1 DEF TypeOK
<1>3. StoreInv' /\ EntryInv' /\ LookupsAreFew'
  BY DEF StoreInv, HeardAt, EntryInv, LookupsAreFew
<1>4. CallInv'
  BY <1>1 DEF CallInv, At, Wanted, AsFetched, TypeOK
<1> QED BY <1>2, <1>3, <1>4

LEMMA GetStep == ASSUME IInv, NEW r \in Req, Get(r) PROVE IInv'
<1> DEFINE new == [at |-> "remembering", path |-> call[r].key[1], indexed |-> call[r].indexed]
<1>1. call[r].key \in Key /\ call[r].indexed \in Indexes
  BY DEF Get, At, IInv, TypeOK, Call, NoCall
<1>2. new \in Call
  BY <1>1 DEF Call, Key
<1>3. new.at # "getting" /\ NoCall.at # "getting"
  BY DEF NoCall
<1> HIDE DEF new
<1>4. Becomes(r, new) \/ Becomes(r, NoCall)
  BY DEF Get, Becomes, new
<1> QED BY <1>2, <1>3, <1>4, GoesOn DEF Get

(* What is remembered is a live mapping's, and shares its time. *)
LEMMA NewEntry ==
  ASSUME IInv, NEW indexed \in Indexes, NEW place \in Known(indexed)
  PROVE  LET entry == EntryFor(PartAt(indexed, place)) IN
         /\ entry \in Entry /\ entry.heard <= now
         /\ entry.until < entry.heard + MappingTTL + LookupTTL
         /\ entry.until < entry.heard + 2 * MappingTTL
<1> USE DEF IInv
<1> DEFINE p == PartAt(indexed, place)
<1>1. p \in Part /\ Live(store[p])
  BY IndexedPart DEF Known, Found
<1>2. now \in Time
  BY DEF TypeOK
<1>3. store[p] # None
  BY <1>1, <1>2, NoneIsDead
<1> HIDE DEF p
<1>4. store[p].until \in Nat
  BY <1>1, <1>3, Numbers DEF TypeOK, Mapping
<1>5. HeardAt(p) \in Time /\ HeardAt(p) <= now
  BY <1>1, <1>3 DEF StoreInv
<1>6. now < HeardAt(p) + MappingTTL
  BY <1>1, <1>2, <1>4, Numbers DEF Live, HeardAt, Time
<1>7. now + TTL \in 0..(MaxTime + LookupTTL)
  BY <1>2, TTLIsLeast, Numbers DEF Time
<1>8. EntryFor(p) \in Entry
  BY <1>5, <1>7 DEF EntryFor, Entry
<1>9. EntryFor(p).until = now + TTL /\ EntryFor(p).heard = HeardAt(p)
  BY DEF EntryFor
<1>10. /\ now + TTL < HeardAt(p) + MappingTTL + LookupTTL
       /\ now + TTL < HeardAt(p) + 2 * MappingTTL
  BY <1>2, <1>5, <1>6, TTLIsLeast, Numbers DEF Time
<1> QED BY <1>5, <1>8, <1>9, <1>10 DEF p

LEMMA RememberStep == ASSUME IInv, NEW r \in Req, Remember(r) PROVE IInv'
<1> USE DEF IInv
<1>1. PICK path \in Path, indexed \in Indexes : lookups' = Remembered(path, indexed)
  BY DEF Remember, At, TypeOK, Call, NoCall
<1>2. call' = [call EXCEPT ![r] = NoCall] /\ UNCHANGED <<now, store>>
  BY DEF Remember, Becomes
<1>3. lookups' \in [Key -> Entry \cup {None}] /\ EntryInv'
  <2>1. CASE indexed = <<>>
    BY <1>1, <1>2, <2>1 DEF Remembered, TypeOK, EntryInv
  <2>2. CASE indexed # <<>>
    <3>1. \A k \in Key : \/ lookups'[k] = None
                         \/ lookups'[k] = lookups[k]
                         \/ \E place \in Known(indexed) :
                              lookups'[k] = EntryFor(PartAt(indexed, place))
      BY <1>1, <2>2 DEF Remembered, Kept, Pruned
    <3>2. lookups' = [k \in Key |-> lookups'[k]]
      BY <1>1, <2>2 DEF Remembered
    <3>3. ASSUME NEW k \in Key
          PROVE  /\ lookups'[k] \in Entry \cup {None}
                 /\ lookups'[k] # None =>
                      /\ lookups'[k].heard <= now
                      /\ lookups'[k].until < lookups'[k].heard + MappingTTL + LookupTTL
                      /\ lookups'[k].until < lookups'[k].heard + 2 * MappingTTL
      <4>1. CASE lookups'[k] = None \/ lookups'[k] = lookups[k]
        BY <4>1 DEF TypeOK, EntryInv
      <4>2. CASE \E place \in Known(indexed) : lookups'[k] = EntryFor(PartAt(indexed, place))
        BY <4>2, NewEntry
      <4> QED BY <3>1, <4>1, <4>2
    <3> QED BY <1>2, <3>2, <3>3 DEF EntryInv
  <2> QED BY <2>1, <2>2
<1>4. TypeOK' /\ StoreInv'
  BY <1>2, <1>3 DEF TypeOK, StoreInv, HeardAt
<1>5. CallInv'
  BY <1>2 DEF CallInv, At, Wanted, AsFetched, TypeOK, NoCall
<1>6. LookupsAreFew'
  BY <1>1, RememberedAreFew
<1> QED BY <1>3, <1>4, <1>5, <1>6

LEMMA NextInv == IInv /\ [Next]_vars => IInv'
<1> SUFFICES ASSUME IInv, [Next]_vars PROVE IInv'
  OBVIOUS
<1>1. CASE Tick
  BY <1>1, TickStep
<1>2. ASSUME NEW document \in Documents, NEW found \in Findings(document), Ingest(document, found)
      PROVE  IInv'
  BY <1>2, IngestStep
<1>3. ASSUME NEW r \in Req, NEW k \in Key, Look(r, k) PROVE IInv'
  BY <1>3, LookStep
<1>4. ASSUME NEW r \in Req, FetchFails(r) PROVE IInv'
  BY <1>4, GoesOn DEF FetchFails, NoCall
<1>5. ASSUME NEW r \in Req, Get(r) PROVE IInv'
  BY <1>5, GetStep
<1>6. ASSUME NEW r \in Req, Remember(r) PROVE IInv'
  BY <1>6, RememberStep
<1>7. ASSUME NEW r \in Req, NEW document \in Documents, NEW format \in Format,
             NEW found \in Findings(document), Fetch(r, document, format, found)
      PROVE  IInv'
  BY <1>7, FetchStep
<1>8. ASSUME NEW r \in Req, NEW document \in Documents, NEW format \in Format,
             NEW found \in Findings(document), NEW path \in Path,
             Pass(r, path, document, format, found)
      PROVE  IInv'
  BY <1>8, PassStep
<1>9. CASE UNCHANGED vars
  BY <1>9 DEF vars, IInv, TypeOK, StoreInv, HeardAt, EntryInv, CallInv, At, Wanted, AsFetched,
     LookupsAreFew
<1> QED BY <1>1, <1>2, <1>3, <1>4, <1>5, <1>6, <1>7, <1>8, <1>9 DEF Next

-----------------------------------------------------------------------------
(* The inductive invariant holds in every state. *)
THEOREM Invariance == Spec => []IInv
BY InitInv, NextInv, PTL DEF Spec

(* The cache never holds more than the limit leaves and one document brings. *)
THEOREM LookupsFew == Spec => []LookupsAreFew
<1>1. IInv => LookupsAreFew
  BY DEF IInv
<1> QED BY <1>1, Invariance, PTL

(* The Part of a live lookup was described less than both lifetimes ago. *)
THEOREM AnswersRecent == Spec => []AnswersAreRecent
<1>1. IInv => AnswersAreRecent
  <2> SUFFICES ASSUME IInv, NEW k \in Key, Live(lookups[k])
               PROVE  /\ now < lookups[k].heard + MappingTTL + LookupTTL
                      /\ now < lookups[k].heard + 2 * MappingTTL
    BY DEF AnswersAreRecent
  <2>1. now \in Time /\ lookups[k] \in Entry \cup {None}
    BY DEF IInv, TypeOK
  <2>2. lookups[k] # None
    BY <2>1, NoneIsDead
  <2>3. lookups[k].until \in Nat /\ lookups[k].heard \in Nat
    BY <2>1, <2>2, Numbers DEF Entry, Time
  <2>4. /\ lookups[k].until < lookups[k].heard + MappingTTL + LookupTTL
        /\ lookups[k].until < lookups[k].heard + 2 * MappingTTL
    BY <2>2 DEF IInv, EntryInv
  <2> QED BY <2>1, <2>3, <2>4, Numbers DEF Live, Time
<1> QED BY <1>1, Invariance, PTL

(* A fetch is answered with what its document said or something stored later, unless the
   document gave the Part no .strm file. *)
THEOREM FetchedFresh == Spec => []FetchedIsFresh
<1>1. IInv => FetchedIsFresh
  BY DEF IInv, CallInv, FetchedIsFresh
<1> QED BY <1>1, Invariance, PTL
=============================================================================
