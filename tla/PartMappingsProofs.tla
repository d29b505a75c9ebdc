------------------------- MODULE PartMappingsProofs -------------------------
(***************************************************************************)
(* Proofs about PartMappings, for any number of requests and Parts and any *)
(* history of the files.                                                   *)
(***************************************************************************)
EXTENDS PartMappings, TLAPS

(* Init establishes the invariant. *)
LEMMA InitInv == Init => IInv
<1> USE MappingAssumption DEF Version, None
<1> SUFFICES ASSUME Init PROVE IInv
  OBVIOUS
<1>1. TypeOK
  BY SMT DEF Init, TypeOK, NoMapping, Mapping
<1>2. CacheInv /\ RequestInv
  BY SMT DEF Init, CacheInv, RequestInv
<1>3. MappingIsFresh /\ URLsAreRead
  BY SMT DEF Init, MappingIsFresh, URLsAreRead, NoMapping
<1> QED
  BY <1>1, <1>2, <1>3 DEF IInv

-----------------------------------------------------------------------------
(* Files only move on, so nothing read becomes newer than its file. *)
LEMMA ChangeKeeps ==
  ASSUME IInv, NEW p \in Part, Change(p) PROVE IInv'
<1> USE MappingAssumption DEF Version, None, IInv, Change
<1>1. TypeOK'
  BY SMT DEF TypeOK, request
<1>2. \A q \in Part : file[q] <= file'[q]
  BY SMT DEF TypeOK
<1>3. CacheInv'
  BY <1>1, <1>2, SMT DEF TypeOK, CacheInv
<1>4. RequestInv'
  BY <1>1, <1>2, SMT DEF TypeOK, RequestInv, request
<1>5. MappingIsFresh' /\ URLsAreRead'
  BY DEF MappingIsFresh, URLsAreRead
<1> QED
  BY <1>1, <1>3, <1>4, <1>5

(* Forgetting keeps every claim about what is remembered. *)
LEMMA ExpireResolutionKeeps ==
  ASSUME IInv, NEW p \in Part, NEW k \in Version, ExpireResolution(p, k) PROVE IInv'
<1> USE DEF IInv, ExpireResolution
<1>1. TypeOK'
  BY SMT DEF TypeOK, request
<1>2. CacheInv'
  BY SMT DEF TypeOK, CacheInv
<1>3. RequestInv'
  BY DEF RequestInv, request
<1>4. MappingIsFresh' /\ URLsAreRead'
  BY DEF MappingIsFresh, URLsAreRead
<1> QED
  BY <1>1, <1>2, <1>3, <1>4

LEMMA ExpireMappingKeeps ==
  ASSUME IInv, NEW p \in Part, ExpireMapping(p) PROVE IInv'
<1> USE DEF IInv, ExpireMapping
<1>1. TypeOK'
  BY SMT DEF TypeOK, request, NoMapping, Mapping
<1>2. CacheInv' /\ RequestInv'
  BY DEF CacheInv, RequestInv, request
<1>3. MappingIsFresh' /\ URLsAreRead'
  BY SMT DEF TypeOK, MappingIsFresh, URLsAreRead, NoMapping
<1> QED
  BY <1>1, <1>2, <1>3

-----------------------------------------------------------------------------
(* The steps of a resolution. *)
LEMMA StatKeeps ==
  ASSUME IInv, NEW r \in Req, NEW p \in Part, Stat(r, p) PROVE IInv'
<1> USE DEF IInv, Stat
<1>1. TypeOK'
  BY SMT DEF TypeOK, None
<1>2. CacheInv'
  BY DEF CacheInv
<1>3. RequestInv'
  BY SMT DEF TypeOK, RequestInv, Version
<1>4. MappingIsFresh' /\ URLsAreRead'
  BY DEF MappingIsFresh, URLsAreRead
<1> QED
  BY <1>1, <1>2, <1>3, <1>4

(* What is found under a stat is no older than what the stat saw. *)
LEMMA LookKeeps ==
  ASSUME IInv, NEW r \in Req, Look(r) PROVE IInv'
<1> USE DEF IInv, Look, Key
<1>1. TypeOK'
  BY SMT DEF TypeOK
<1>2. CacheInv'
  BY DEF CacheInv
<1>3. RequestInv'
  BY SMT DEF TypeOK, CacheInv, RequestInv
<1>4. MappingIsFresh' /\ URLsAreRead'
  BY DEF MappingIsFresh, URLsAreRead
<1> QED
  BY <1>1, <1>2, <1>3, <1>4

LEMMA ReadKeeps ==
  ASSUME IInv, NEW r \in Req, Read(r) PROVE IInv'
<1> USE DEF IInv, Read
<1>1. TypeOK'
  BY SMT DEF TypeOK
<1>2. CacheInv'
  BY DEF CacheInv
<1>3. RequestInv'
  BY SMT DEF TypeOK, RequestInv, Version, None
<1>4. MappingIsFresh' /\ URLsAreRead'
  BY DEF MappingIsFresh, URLsAreRead
<1> QED
  BY <1>1, <1>2, <1>3, <1>4

LEMMA StoreKeeps ==
  ASSUME IInv, NEW r \in Req, Store(r) PROVE IInv'
<1> USE DEF IInv, Store, Key
<1>1. TypeOK'
  BY SMT DEF TypeOK
<1>2. CacheInv'
  BY SMT DEF TypeOK, CacheInv, RequestInv
<1>3. RequestInv'
  BY SMT DEF TypeOK, RequestInv
<1>4. MappingIsFresh' /\ URLsAreRead'
  BY DEF MappingIsFresh, URLsAreRead
<1> QED
  BY <1>1, <1>2, <1>3, <1>4

-----------------------------------------------------------------------------
(* A resolution, good or failed, replaces whatever was there. *)
LEMMA ResolutionReplaces ==
  ASSUME NEW old \in Mapping, NEW v PROVE Stored(old, STRM(v)) = STRM(v)
BY DEF Stored, STRM

(* A local mapping is stored, or yields to the old one. *)
LEMMA LocalYields ==
  ASSUME NEW old \in Mapping
  PROVE  Stored(old, Local) \in {old, Local}
BY DEF Stored, Local

LEMMA PutKeeps ==
  ASSUME IInv, NEW r \in Req, Put(r) PROVE IInv'
<1> USE DEF IInv, Put
<1>1. items' = [items EXCEPT ![part[r]] = STRM(value[r])]
  BY ResolutionReplaces DEF TypeOK
<1> HIDE DEF Put
<1>2. TypeOK'
  BY <1>1, SMT DEF Put, TypeOK, STRM, Mapping
<1>3. CacheInv'
  BY DEF Put, CacheInv
<1>4. RequestInv'
  BY SMT DEF Put, TypeOK, RequestInv
<1>5. MappingIsFresh' /\ URLsAreRead'
  <2> SUFFICES ASSUME NEW p \in Part
               PROVE  items'[p].url # None =>
                        items'[p].url >= floor'[p] /\ Content[items'[p].url] = "url"
    BY DEF MappingIsFresh, URLsAreRead
  <2>1. CASE p = part[r]
    <3>1. items'[p].url = value[r] /\ floor'[p] = stat[r]
      BY <1>1, <2>1 DEF Put, TypeOK, STRM
    <3> QED
      BY <3>1, SMT DEF Put, TypeOK, RequestInv, Version, None
  <2>2. CASE p # part[r]
    <3>1. items'[p] = items[p] /\ floor'[p] = floor[p]
      BY <1>1, <2>2 DEF Put, TypeOK
    <3> QED
      BY <3>1 DEF MappingIsFresh, URLsAreRead
  <2> QED
    BY <2>1, <2>2
<1> QED
  BY <1>2, <1>3, <1>4, <1>5

LEMMA AnswerKeeps ==
  ASSUME IInv, NEW r \in Req, Answer(r) PROVE IInv'
<1> USE DEF IInv, Answer
<1>1. TypeOK'
  BY SMT DEF TypeOK
<1>2. CacheInv' /\ MappingIsFresh' /\ URLsAreRead'
  BY DEF CacheInv, MappingIsFresh, URLsAreRead
<1>3. RequestInv'
  BY SMT DEF TypeOK, RequestInv
<1> QED
  BY <1>1, <1>2, <1>3

LEMMA EchoKeeps ==
  ASSUME IInv, NEW p \in Part, Echo(p) PROVE IInv'
<1> USE DEF IInv
<1>1. \A q \in Part : items'[q] = items[q] \/ items'[q] = Local
  BY LocalYields DEF Echo, TypeOK
<1>2. Local \in Mapping /\ Local.url = None
  BY DEF Local, Mapping
<1>3. TypeOK'
  <2>1. items' \in [Part -> Mapping]
    BY <1>1, <1>2 DEF Echo, TypeOK
  <2> QED
    BY <2>1 DEF Echo, TypeOK, request
<1>4. CacheInv' /\ RequestInv'
  BY DEF Echo, CacheInv, RequestInv, request
<1>5. MappingIsFresh' /\ URLsAreRead'
  BY <1>1, <1>2 DEF Echo, MappingIsFresh, URLsAreRead
<1> QED
  BY <1>3, <1>4, <1>5

-----------------------------------------------------------------------------
(* Every step keeps the invariant. *)
LEMMA NextInv == IInv /\ [Next]_vars => IInv'
<1> SUFFICES ASSUME IInv, [Next]_vars PROVE IInv'
  OBVIOUS
<1>1. CASE UNCHANGED vars
  BY <1>1 DEF vars, request, IInv, TypeOK, CacheInv, RequestInv, MappingIsFresh, URLsAreRead
<1>2. ASSUME NEW p \in Part, Change(p) \/ ExpireMapping(p) \/ Echo(p) PROVE IInv'
  BY <1>2, ChangeKeeps, ExpireMappingKeeps, EchoKeeps
<1>3. ASSUME NEW p \in Part, NEW k \in Version, ExpireResolution(p, k) PROVE IInv'
  BY <1>3, ExpireResolutionKeeps
<1>4. ASSUME NEW p \in Part, NEW r \in Req, Stat(r, p) PROVE IInv'
  BY <1>4, StatKeeps
<1>5. ASSUME NEW r \in Req, Look(r) \/ Read(r) \/ Store(r) \/ Put(r) \/ Answer(r)
      PROVE  IInv'
  BY <1>5, LookKeeps, ReadKeeps, StoreKeeps, PutKeeps, AnswerKeeps
<1> QED
  BY <1>1, <1>2, <1>3, <1>4, <1>5 DEF Next

(* The invariant of the mapping store and the resolver: cached resolutions and
   requests under way are no older than the stat they belong to. *)
THEOREM Invariance == Spec => []IInv
<1>1. Init => IInv
  BY InitInv
<1>2. IInv /\ [Next]_vars => IInv'
  BY NextInv
<1> QED
  BY <1>1, <1>2, PTL DEF Spec

(* Resolve answers with a URL the file held no earlier than the stat of the call,
   whatever the cache holds and however the file changes meanwhile. *)
THEOREM ResolutionFresh == Spec => []ResolutionIsFresh
<1>1. IInv => ResolutionIsFresh
  BY SMT DEF IInv, TypeOK, RequestInv, ResolutionIsFresh, Version, None
<1> QED
  BY <1>1, Invariance, PTL

(* The URL in a mapping was read no earlier than the stat of the last ingestion to
   store one, and from a file that held it. *)
THEOREM MappingFresh == Spec => [](MappingIsFresh /\ URLsAreRead)
<1>1. IInv => MappingIsFresh /\ URLsAreRead
  BY DEF IInv
<1> QED
  BY <1>1, Invariance, PTL
=============================================================================
