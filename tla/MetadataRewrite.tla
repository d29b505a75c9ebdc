-------------------------- MODULE MetadataRewrite --------------------------
(***************************************************************************)
(* What a metadata response says of STRM Parts when it reaches the client: *)
(* rewriteSTRMMetadataResponse of server.go and the two walks of           *)
(* metadata_rewrite.go, one response at a time.                            *)
(*                                                                         *)
(* The walks call back for every Part: for its container, its file and a   *)
(* probe, each callback asking the MappingStore anew and the last one      *)
(* perhaps waiting for ffprobe, while other requests go on.  A document is *)
(* its Parts in order, each in an item; what Plex says of them is data.    *)
(* At this stage the policy lets every STRM Part play directly (theorem    *)
(* MetadataRedirects of PlaybackJourneyProofs).                            *)
(*                                                                         *)
(* AllowedWheneverDetailed, AllowedForOnePart, URLOfFirst and FirstItem    *)
(* are mistakes the code could have had; the specification uses none.      *)
(***************************************************************************)
EXTENDS Naturals, FiniteSets, Sequences

CONSTANTS
  Part, Item, URL,
  Playable,    \* URLs that end in a container the proxy knows
  Documents,   \* see Listing
  NoPart, NoURL,
  MaxNew       \* bound: URLs that Parts get during one response

(* strm: the Part names a .strm file, in its file, path or key; path: its path does;
   chosen: the items a play queue's container names. *)
Listing == [part : Part, item : Item, strm : BOOLEAN, path : BOOLEAN, selected : BOOLEAN]

ASSUME RewriteAssumption ==
  /\ MaxNew \in Nat /\ NoPart \notin Part /\ NoURL \notin URL /\ Playable \subseteq URL
  /\ \A d \in Documents : d.listed \in Seq(Listing) /\ d.chosen \subseteq Item

VARIABLES
  store,     \* the URL each Part is known to have
  cached,    \* s.probes: the URLs whose probe is remembered
  stage,     \* where the response is on its way
  response,  \* what was asked, and the document that answers it
  coldProbeAllowed, coldProbeUsed,
  source,    \* the URL ffprobe was given
  todo,      \* the callbacks the walk still makes
  written,   \* what the walk has written on each Part: URLs it comes from
  items,     \* and on each item
  had,       \* history: the URLs each Part has had since the walk was prepared
  probed     \* history: the Parts probed cold, in order, by their place

cold == <<coldProbeAllowed, coldProbeUsed, source>>
walk == <<stage, response, cold, todo, written, items, probed>>
walkVars == <<store, cached, had, walk>>

Format == {"xml", "json"}
RequestKind == {"detail", "queue", "list"}
Known == URL \cup {NoURL}
Written == [container : Known, file : Known, probe : Known]
Untouched(places) == [n \in places |-> [container |-> NoURL, file |-> NoURL, probe |-> NoURL]]
NoDocument == [listed |-> <<>>, chosen |-> {}]
NoResponse == [kind |-> "list", named |-> NoPart, format |-> "xml", document |-> NoDocument]

WalkInit ==
  /\ store = [p \in Part |-> NoURL] /\ cached = {}
  /\ stage = "idle" /\ response = NoResponse
  /\ coldProbeAllowed = FALSE /\ coldProbeUsed = FALSE /\ source = NoURL
  /\ todo = {} /\ written = Untouched({}) /\ probed = <<>>
  /\ items = [i \in Item |-> NoURL] /\ had = [p \in Part |-> {}]

Listed == response.document.listed
Walking == stage \in {"walking", "probing"}

-----------------------------------------------------------------------------
(* The other requests *)

(* Between two looks of one response; it brings at most MaxNew URLs. *)
Remap(p, u) ==
  /\ Walking /\ u # store[p]
  /\ store' = [store EXCEPT ![p] = u]
  /\ had' = [had EXCEPT ![p] = @ \cup {u}]
  /\ Cardinality({m \in Part \X Known : m[2] \in had'[m[1]]}) <= Cardinality(Part) + MaxNew
  /\ UNCHANGED <<cached, walk>>

Probe(u) ==
  /\ Walking
  /\ cached' = cached \cup {u}
  /\ UNCHANGED <<store, had, walk>>

Forget(u) ==
  /\ u \in cached
  /\ cached' = cached \ {u}
  /\ UNCHANGED <<store, had, walk>>

-----------------------------------------------------------------------------
(* The request: Plex's own one, for a native decision (plexTranscode=1), names the Part
   that is decided; others may name one when they ask for details. *)

Named(kind, native, part) == IF kind = "detail" \/ native THEN part ELSE NoPart

(* modifyPlexResponse: the .strm files of the document are resolved, or not. *)
Begin(kind, native, part, format, document, found) ==
  LET strm == {document.listed[n].part : n \in {m \in DOMAIN document.listed : document.listed[m].strm}} IN
  /\ stage = "idle" /\ stage' = "ingested"
  /\ store' = [p \in Part |-> IF p \in strm THEN found[p] ELSE store[p]]
  /\ response' = [kind |-> kind, named |-> Named(kind, native, part),
                  format |-> format, document |-> document]
  /\ UNCHANGED <<cached, cold, todo, written, items, had, probed>>

(* selectedPlayQueuePartIDs: the Parts of the chosen items; if these have none, those
   that are flagged. *)
Chosen == {n \in DOMAIN Listed : Listed[n].item \in response.document.chosen}
QueueSelection ==
  {Listed[n].part : n \in IF Chosen # {} THEN Chosen ELSE {m \in DOMAIN Listed : Listed[m].selected}}

STRMParts == {n \in DOMAIN Listed : store[Listed[n].part] # NoURL}

AllowedForOnePart ==
  \/ response.kind = "detail" /\ Cardinality(DOMAIN Listed) = 1
  \/ response.kind = "queue" /\ QueueSelection # {}
  \/ response.named # NoPart
AllowedWheneverDetailed ==
  \/ response.kind = "detail"
  \/ response.kind = "queue" /\ QueueSelection # {}
  \/ response.named # NoPart
(* For a Part that is named, the selection of a queue, or the only STRM Part there is. *)
ColdProbeAllowed ==
  \/ response.kind = "detail" /\ \E n \in DOMAIN Listed : STRMParts = {n}
  \/ response.kind = "queue" /\ QueueSelection # {}
  \/ response.named # NoPart

(* The walk's order.  XML is one pass; in JSON an item is described last, from the Parts
   that are still listed as .strm files then.  A callback's turn is the place at which
   it is made: its Part's or, for an item, the item's last. *)
Order ==
  [xml  |-> [probe |-> 1, container |-> 2, file |-> 3, item |-> 4],
   json |-> [container |-> 1, file |-> 2, probe |-> 3, item |-> 4]]
EndsItem(listed, turn, n) ==
  /\ listed[turn].item = listed[n].item
  /\ \A m \in DOMAIN listed : listed[m].item = listed[n].item => m <= turn
Script(listed, format) ==
  {c \in [read : {"container", "file", "probe", "item"}, n : DOMAIN listed, turn : DOMAIN listed] :
     /\ listed[c.n].strm
     /\ IF c.read = "item" THEN format = "json" /\ EndsItem(listed, c.turn, c.n) ELSE c.turn = c.n}

Before(format, c, d) ==
  \/ c.turn < d.turn
  \/ c.turn = d.turn /\ Order[format][c.read] < Order[format][d.read]
  \/ c.turn = d.turn /\ c.read = d.read /\ c.n < d.n

Prepare ==
  /\ stage = "ingested" /\ stage' = "walking"
  /\ coldProbeAllowed' = ColdProbeAllowed /\ coldProbeUsed' = FALSE
  /\ todo' = Script(Listed, response.format)
  /\ written' = Untouched(DOMAIN Listed)
  /\ had' = [p \in Part |-> {store[p]}]
  /\ UNCHANGED <<store, cached, response, source, items, probed>>

-----------------------------------------------------------------------------
(* The callbacks *)

Due(c) == c \in todo /\ \A d \in todo \ {c} : Before(response.format, c, d)
Called(c, reads) == stage = "walking" /\ Due(c) /\ c.read \in reads
URLOfFirst(n) == store[Listed[1].part]
URLOf(n) == store[Listed[n].part]

(* mediaContainerForURL, as the URL it is of *)
Container(u) == IF u \in Playable THEN u ELSE NoURL

ReadContainer(c) ==
  /\ Called(c, {"container"})
  /\ written' = [written EXCEPT ![c.n].container = Container(URLOf(c.n))]
  /\ todo' = todo \ {c}
  /\ UNCHANGED <<store, cached, stage, response, cold, items, had, probed>>

(* With it come the key, the protocol and the decision for direct play.  Plex is given the
   proxy's own address of the Part in place of the URL. *)
ReadFile(c) ==
  /\ Called(c, {"file"})
  /\ written' = [written EXCEPT ![c.n].file = URLOf(c.n)]
  /\ todo' = todo \ {c}
  /\ UNCHANGED <<store, cached, stage, response, cold, items, had, probed>>

(* probeFor passes over what is not the Part named or not in the queue's selection. *)
MayDescribe(n) ==
  /\ response.named \in {NoPart, Listed[n].part}
  /\ response.kind = "queue" /\ QueueSelection # {} => Listed[n].part \in QueueSelection
  /\ URLOf(n) # NoURL

FirstItem(n) == Listed[1].item
DescribedItem(n) == Listed[n].item

(* An XML item is described along with each of its Parts. *)
Describe(c, u) ==
  /\ written' = IF c.read = "probe" THEN [written EXCEPT ![c.n].probe = u] ELSE written
  /\ items' = IF u # NoURL /\ (c.read = "item" \/ response.format = "xml")
              THEN [items EXCEPT ![DescribedItem(c.n)] = u] ELSE items
  /\ todo' = todo \ {c}

(* firstSTRMJSONProbe stops at the first probe, and passes over Parts that name no .strm
   file any more: file and key are rewritten by now, but never path. *)
ItemSettled(n) == items[Listed[n].item] # NoURL \/ (written[n].file # NoURL /\ ~Listed[n].path)

Wanted(c) == MayDescribe(c.n) /\ (c.read = "item" => ~ItemSettled(c.n))
MayProbe == coldProbeAllowed /\ ~coldProbeUsed

ReadProbe(c) ==
  /\ Called(c, {"probe", "item"})
  /\ IF Wanted(c) /\ URLOf(c.n) \notin cached /\ MayProbe
     THEN /\ stage' = "probing"
          /\ coldProbeUsed' = TRUE /\ source' = URLOf(c.n) /\ probed' = Append(probed, c.n)
          /\ UNCHANGED <<todo, written, items>>
     ELSE /\ Describe(c, IF Wanted(c) /\ URLOf(c.n) \in cached THEN URLOf(c.n) ELSE NoURL)
          /\ UNCHANGED <<stage, coldProbeUsed, source, probed>>
  /\ UNCHANGED <<store, cached, response, coldProbeAllowed, had>>

(* ffprobe answers, or fails, or has had its 45 seconds, or the client has left. *)
Probed(c, answers) ==
  /\ stage = "probing" /\ stage' = "walking"
  /\ Due(c)
  /\ cached' = IF answers THEN cached \cup {source} ELSE cached
  /\ Describe(c, IF answers THEN source ELSE NoURL)
  /\ source' = NoURL
  /\ UNCHANGED <<store, response, coldProbeAllowed, coldProbeUsed, had, probed>>

Send ==
  /\ stage = "walking" /\ todo = {} /\ stage' = "idle"
  /\ response' = NoResponse
  /\ coldProbeAllowed' = FALSE /\ coldProbeUsed' = FALSE
  /\ written' = Untouched({}) /\ probed' = <<>>
  /\ items' = [i \in Item |-> NoURL] /\ had' = [p \in Part |-> {}]
  /\ UNCHANGED <<store, cached, source, todo>>

-----------------------------------------------------------------------------
WalkNext ==
  \/ \E p \in Part, u \in Known : Remap(p, u)
  \/ \E u \in URL : Probe(u) \/ Forget(u)
  \/ \E kind \in RequestKind, native \in BOOLEAN, part \in Part \cup {NoPart}, format \in Format,
        document \in Documents, found \in [Part -> Known] :
       Begin(kind, native, part, format, document, found)
  \/ Prepare \/ Send
  \/ \E c \in todo :
       \/ ReadContainer(c) \/ ReadFile(c) \/ ReadProbe(c)
       \/ \E answers \in BOOLEAN : Probed(c, answers)

WalkSpec == WalkInit /\ [][WalkNext]_walkVars

-----------------------------------------------------------------------------
WalkTypeOK ==
  /\ store \in [Part -> Known] /\ cached \subseteq URL
  /\ stage \in {"idle", "ingested", "walking", "probing"}
  /\ response \in [kind : RequestKind, named : Part \cup {NoPart}, format : Format,
                   document : Documents \cup {NoDocument}]
  /\ {coldProbeAllowed, coldProbeUsed} \subseteq BOOLEAN /\ source \in Known
  /\ todo \subseteq Script(Listed, response.format)
  /\ written \in [IF Walking THEN DOMAIN Listed ELSE {} -> Written]
  /\ items \in [Item -> Known] /\ had \in [Part -> SUBSET Known]
  /\ probed \in Seq(DOMAIN written)

(* "Home hubs and library lists must never start a remote request or wait for FFprobe",
   nor must a season or a collection: a response starts at most one probe.  It is of the
   Part that is named; of one the queue's selection has; or, for details that name none,
   of a Part beside which no other was known to be STRM, as far as both stayed known. *)
ColdProbesAreEarned ==
  Walking =>
    /\ Len(probed) <= 1
    /\ \A k \in DOMAIN probed :
         LET n == probed[k] IN
         /\ response.named \in {NoPart, Listed[n].part}
         /\ response.kind = "list" => response.named # NoPart
         /\ response.kind = "queue" /\ response.named = NoPart =>
              \E m \in DOMAIN Listed :
                /\ Listed[m].part = Listed[n].part
                /\ \/ Listed[m].item \in response.document.chosen
                   \/ Listed[m].selected /\ \A l \in DOMAIN Listed : Listed[l].item \notin response.document.chosen
         /\ response.kind = "detail" /\ response.named = NoPart =>
              \A m \in DOMAIN Listed \ {n} :
                NoURL \in had[Listed[m].part] \cup had[Listed[n].part]

(* "Probe that one item so the client receives real codec and Stream information": when
   a walk ends, the Part that is named, the only STRM Part of details or a Part of the
   queue's selection, if it kept its URL, is described by a probe or the cold probe was
   spent, on that Part or on another of the selection. *)
Meant(n) ==
  /\ response.named \in {NoPart, Listed[n].part}
  /\ response.kind = "queue" /\ QueueSelection # {} => Listed[n].part \in QueueSelection
  /\ \/ response.named # NoPart
     \/ response.kind = "queue" /\ QueueSelection # {}
     \/ response.kind = "detail" /\ \A m \in DOMAIN Listed \ {n} : had[Listed[m].part] = {NoURL}
Stable(n) == Listed[n].strm /\ \E u \in URL : had[Listed[n].part] = {u}
Spent(n) == \E k \in DOMAIN probed : response.kind = "queue" \/ Listed[probed[k]].part = Listed[n].part
Tried(n) == written[n].probe # NoURL \/ Spent(n)

SelectionIsProbed ==
  stage = "walking" /\ todo = {} => \A n \in DOMAIN Listed : Meant(n) /\ Stable(n) => Tried(n)

(* What a Part is said to be is what it had while the walk went on, although each of
   container, file and probe is looked up on its own and a probe may take a while: if the
   mapping stayed, they are of one URL; a Part that is passed is not left half-declared. *)
Passed(n, read) == \A c \in todo : c.n = n => c.read # read

PartsAreOfTheirSource ==
  Walking => \A n \in DOMAIN Listed :
    LET urls == had[Listed[n].part]
        containers == {Container(u) : u \in urls}
    IN
    IF Listed[n].strm
    THEN /\ written[n].file \in IF Passed(n, "file") THEN urls ELSE {NoURL}
         /\ written[n].container \in IF Passed(n, "container") THEN containers ELSE {NoURL}
         /\ written[n].probe \in urls \cup {NoURL}
    ELSE written[n] = Untouched({n})[n]

(* An item is described by a Part of its own, however the mappings change between the
   looks: an XML item by the URL whose probe describes the Part itself; a JSON item, for
   which the mapping is asked anew, by a Part that still names its .strm file, which once
   it is declared for direct play only its path can. *)
ItemsAreOfTheirParts ==
  Walking => \A i \in Item : items[i] # NoURL =>
    \E n \in DOMAIN Listed :
      /\ Listed[n].item = i /\ Listed[n].strm /\ items[i] \in had[Listed[n].part]
      /\ response.format = "xml" => written[n].probe = items[i]
      /\ response.format = "json" => written[n].file = NoURL \/ Listed[n].path

-----------------------------------------------------------------------------
(* The inductive invariant. *)

(* Nothing is under way before the walk; while it goes on, what a Part has is among what
   it had; one cold probe is what coldProbeUsed counts. *)
StageInv ==
  /\ ~Walking => todo = {} /\ probed = <<>> /\ coldProbeUsed = FALSE /\ items = [i \in Item |-> NoURL]
  /\ Walking => \A p \in Part : store[p] \in had[p]
  /\ Len(probed) = IF coldProbeUsed THEN 1 ELSE 0

(* What allows a cold probe, once it has: a mapping that was counted, or was not, may
   have changed by the time its Part's turn comes. *)
AllowedInv ==
  Walking /\ coldProbeAllowed /\ response.named = NoPart =>
    \/ response.kind = "queue" /\ QueueSelection # {}
    \/ /\ response.kind = "detail"
       /\ \A m, n \in DOMAIN Listed : m # n => NoURL \in had[Listed[m].part] \cup had[Listed[n].part]

(* While ffprobe runs, the walk waits in the callback that started it, for a URL its Part
   had then. *)
ProbingInv ==
  stage = "probing" =>
    \A c \in todo : Due(c) =>
      /\ c.read \in {"probe", "item"}
      /\ source \in URL \cap had[Listed[c.n].part]
      /\ c.read = "item" => written[c.n].file = NoURL \/ Listed[c.n].path
      /\ probed = <<c.n>>

(* A Part that is to be probed still will be, or has been. *)
MeantInv ==
  Walking =>
    /\ \A k \in DOMAIN probed : had[Listed[probed[k]].part] # {NoURL}
    /\ \A n \in DOMAIN Listed : Meant(n) /\ Stable(n) =>
         /\ coldProbeAllowed
         /\ Passed(n, "probe") => Tried(n)

(* ItemsAreOfTheirParts, and what it says of the Part will not be written any more. *)
ItemsInv ==
  Walking => \A i \in Item : items[i] # NoURL =>
    \E n \in DOMAIN Listed :
      /\ Listed[n].item = i /\ Listed[n].strm /\ items[i] \in had[Listed[n].part]
      /\ response.format = "xml" => written[n].probe = items[i] /\ Passed(n, "probe")
      /\ response.format = "json" => Listed[n].path \/ (written[n].file = NoURL /\ Passed(n, "file"))

WalkInv ==
  /\ WalkTypeOK /\ StageInv /\ AllowedInv /\ ProbingInv /\ MeantInv /\ ItemsInv
  /\ ColdProbesAreEarned /\ PartsAreOfTheirSource
=============================================================================
