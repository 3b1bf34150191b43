------------------------------ MODULE EpgStore ------------------------------
(***************************************************************************)
(* The programme guide: class epg::Core (src/src/epg_core.cpp), which      *)
(* receives the MOT objects of a carousel in two slots, decodes them a     *)
(* piece at a time and keeps the programmes of the stations and days that  *)
(* were looked at last, driven by liveContext, liveServiceChanged and poll *)
(* (src/src/epg_runtime.cpp).                                              *)
(*                                                                         *)
(* core is the object with its fields; an operator that takes a core and   *)
(* returns one is the method of its name.  A text is one unit of the text  *)
(* pool and its offset the place of that unit, counted from 1; a day is a  *)
(* number and 0 the clock that is not known.  What an object holds is      *)
(* fixed by its TransportId, and what decides that it is well formed by    *)
(* Object[t].valid.  Left out: logos, the focus of the demo, the archive   *)
(* preview, and the freshness of what is shown.                            *)
(*                                                                         *)
(* EraseStale and TakeAnySlot are faulty variants of the operator that     *)
(* follows them.                                                           *)
(***************************************************************************)
EXTENDS SequencesExt, FiniteSetsExt, Integers

CONSTANTS
  Objects,        \* TransportIds of the objects ever sent
  Object,         \* kind, bearer, day (0: none declared), segments, valid, and what it holds
  Carousels,      \* the directories that are sent one after the other: sets of Objects
  Withheld,       \* segments <<object, number>> that are never received
  Stations,       \* bearers
  NumContexts,    \* contexts_[8]
  MaxProgrammes,  \* kMaxProgrammes
  TextSize,       \* kTextBytes
  EpochMod,       \* 2^16, the modulus of nextEpoch_
  MaxBrowse,      \* browseDay: 7 days
  LastDay,        \* bound: the clock
  MaxEpgEvents    \* bound: services, clocks, days, carousels, endpoints and losses in all

\* What objects hold: programmes (PI), or names of stations (SI).
Programmes == [bearer : Stations, id : Nat, day : Nat, version : Nat]
StationNames == [bearer : Stations, name : STRING]

ASSUME EpgAssumption ==
  /\ 0 \notin Objects \cup Stations
  /\ Object \in [Objects -> [kind : {"PI", "SI"}, bearer : Stations \cup {0}, day : Nat,
                            segments : Nat \ {0}, valid : BOOLEAN,
                            holds : Seq(Programmes) \cup Seq(StationNames)]]
  /\ \A t \in Objects :
       Object[t].holds \in IF Object[t].kind = "PI" THEN Seq(Programmes) ELSE Seq(StationNames)
  /\ Carousels \in Seq(SUBSET Objects) /\ Carousels # <<>>
  /\ NumContexts \in Nat \ {0, 1} /\ EpochMod \in Nat \ {0, 1, 2}
  /\ MaxProgrammes \in Nat \ {0} /\ TextSize \in Nat \ {0}
  /\ MaxBrowse \in Nat /\ LastDay \in Nat \ {0} /\ MaxEpgEvents \in Nat

VARIABLES
  core,      \* the store
  tuned,     \* service[ServiceIndex] while a service is started, or 0
  carousel,  \* external: the carousel that is sent, an index of Carousels
  clock,     \* resolveTime: the local day, or 0 while it is not trusted
  epgEvents  \* bound: events so far

epgVars == <<core, tuned, carousel, clock, epgEvents>>

-----------------------------------------------------------------------------
(* The receiving slots and the directory, as methods see them. *)

\* Op of c, where c is worked out once and not at each of its uses.
Apply(Op(_), c) == CHOOSE d \in {Op(x) : x \in {c}} : TRUE

Slots == {1, 2}
FreeSlot == [object |-> 0, have |-> {}, complete |-> FALSE]
EmptyContext == [valid |-> FALSE, bearer |-> 0, day |-> 0, epoch |-> 0, used |-> 0, limited |-> FALSE]
Unnamed == "unnamed"
Conflicting == "conflict"

PIObjects == {t \in Objects : Object[t].kind = "PI"}
AllSegments(t) == 0..(Object[t].segments - 1)
Listed(c) == IF c.directory = 0 THEN {} ELSE Carousels[c.directory]
Busy(c) == c.decoding # 0 \/ \E s \in Slots : c.slots[s].complete
SeenNow(c, t) == t \in c.seen /\ c.epochOf[t] = c.epoch
Ambiguous(c) == c.identityConflict \/ (c.selected # 0 /\ c.names[c.selected] = Conflicting)

RelevantPI(c, t) ==
  /\ t \in PIObjects /\ c.selected # 0 /\ Object[t].bearer = c.selected
  /\ ~Ambiguous(c)
  /\ Object[t].day \in {0, c.day}

ResetBodies(c) ==
  [c EXCEPT !.slots = [s \in Slots |-> FreeSlot], !.pressure = FALSE, !.decoding = 0, !.left = <<>>]
ReleaseBody(c) == [c EXCEPT !.slots[c.decoding] = FreeSlot, !.decoding = 0, !.left = <<>>]

-----------------------------------------------------------------------------
(* The cache: programmes, the pool of their texts, and the contexts. *)

Refers(p) == {p.title, p.description} \ {0}
Moved(p, Place(_)) ==
  [p EXCEPT !.title = IF @ = 0 THEN 0 ELSE Place(@), !.description = IF @ = 0 THEN 0 ELSE Place(@)]

EraseText(c, offset) ==
  LET Place(o) == IF o = offset THEN 0 ELSE IF o > offset THEN o - 1 ELSE o
  IN IF offset = 0 THEN c
     ELSE [c EXCEPT !.texts = RemoveAt(@, offset), !.cache = {Moved(p, Place) : p \in @}]

\* The description is taken from where it was while there was a title.
EraseStale(c, p) ==
  LET bare == EraseText(EraseText(c, p.title), p.description)
  IN [bare EXCEPT !.cache = {q \in @ : <<q.context, q.id, q.day>> # <<p.context, p.id, p.day>>}]

\* eraseProgramme: the description has moved when the title is gone.
EraseProgramme(c, p) ==
  LET untitled == EraseText(c, p.title)
      place == IF p.title # 0 /\ p.description > p.title THEN p.description - 1 ELSE p.description
      bare == EraseText(untitled, place)
  IN [bare EXCEPT !.cache = {q \in @ : <<q.context, q.id, q.day>> # <<p.context, p.id, p.day>>}]

\* Where an offset comes to stand when only the texts at these offsets are left, in their order.
Rank(offsets, o) == Cardinality({x \in offsets : x <= o})
AtRank(offsets, n) == CHOOSE o \in offsets : Rank(offsets, o) = n

ContextIds == 1..NumContexts

\* evictContext compacts the pool; what several evictions leave does not depend on their order.
Compacted(c, S) ==
  LET kept == {p \in c.cache : p.context \notin S}
      offsets == UNION {Refers(p) : p \in kept}
      Place(o) == Rank(offsets, o)
  IN [c EXCEPT !.cache = {Moved(p, Place) : p \in kept},
               !.texts = [n \in 1..Cardinality(offsets) |-> c.texts[AtRank(offsets, n)]]]

EvictContexts(c, S) ==
  [Compacted(c, S) EXCEPT !.contexts = [i \in ContextIds |-> IF i \in S THEN EmptyContext ELSE @[i]]]

Leaseable(c) == {i \in ContextIds \ {c.context} : c.contexts[i].valid}
Populated(c) == {i \in Leaseable(c) : \E p \in c.cache : p.context = i}
LeastUsed(c, S) == CHOOSE i \in S : \A j \in S : c.contexts[i].used <= c.contexts[j].used

\* oldestContext(false): the first one that holds nothing, before any other.
OldestContext(c) ==
  IF Leaseable(c) = Populated(c) THEN LeastUsed(c, Populated(c)) ELSE Min(Leaseable(c) \ Populated(c))

NewEpoch(c) ==
  IF c.nextEpoch + 1 < EpochMod THEN [c EXCEPT !.nextEpoch = @ + 1]
  ELSE [c EXCEPT !.nextEpoch = 1, !.epochOf = [t \in Objects |-> 0],
                 !.contexts = [i \in ContextIds |-> [@[i] EXCEPT !.epoch = 0]]]

\* A context for the selection: a free one, or another's.
EnterContext(c) ==
  [c EXCEPT !.contexts[c.context] =
     [EmptyContext EXCEPT !.valid = TRUE, !.bearer = c.selected, !.day = c.day, !.epoch = c.nextEpoch]]

Lease(c) ==
  LET free == {i \in ContextIds : ~c.contexts[i].valid}
      place == IF free = {} THEN OldestContext(c) ELSE Min(free)
      emptied == IF free = {} THEN EvictContexts(c, {place}) ELSE c
  IN Apply(EnterContext, Apply(NewEpoch, [emptied EXCEPT !.context = place]))

\* The epoch of a context that outlived the counter is 0.
Stamp(c) == [c EXCEPT !.contexts[c.context].epoch = c.nextEpoch]
Renewed(c) == IF c.contexts[c.context].epoch = 0 THEN Apply(Stamp, NewEpoch(c)) ELSE c

LeaveContext(c) == [c EXCEPT !.contexts[c.context].limited = c.limited]
SelectedContexts(c) ==
  {i \in ContextIds : /\ c.contexts[i].valid
                      /\ c.contexts[i].bearer = c.selected /\ c.contexts[i].day = c.day}
FindContext(c) ==
  IF SelectedContexts(c) = {} THEN Lease(c) ELSE [c EXCEPT !.context = Min(SelectedContexts(c))]
UseContext(c) ==
  [c EXCEPT !.epoch = c.contexts[c.context].epoch, !.limited = c.contexts[c.context].limited,
            !.uses = @ + 1, !.contexts[c.context].used = c.uses + 1]

ActivateContext(c) ==
  ResetBodies(Apply(UseContext, Apply(Renewed, Apply(FindContext, LeaveContext(c)))))

ClearCache(c) ==
  Apply(ActivateContext, [c EXCEPT !.cache = {}, !.texts = <<>>, !.limited = FALSE, !.context = 1,
                            !.contexts = [i \in ContextIds |-> EmptyContext]])

Room(c, n) == Cardinality(c.cache) < MaxProgrammes /\ Len(c.texts) + n <= TextSize

\* The loop of cache(): contexts go, the one not used for longest first, until there is room;
\* one goes if the eviction of all that are older is not enough.
MakeRoom(c) ==
  LET Older(i) == {j \in Populated(c) : c.contexts[j].used < c.contexts[i].used}
  IN EvictContexts(c, {i \in Populated(c) : ~Room(EvictContexts(c, Older(i)), 2)})

Text(p, part) == <<p.bearer, p.id, p.day, p.version, part>>

\* There may be room for the title alone, or not even for that.
StoreProgramme(c, p) ==
  LET title == Len(c.texts) + 1
      entry == [context |-> c.context, id |-> p.id, day |-> p.day, version |-> p.version,
                title |-> title, description |-> IF Room(c, 2) THEN title + 1 ELSE 0]
  IN IF ~Room(c, 1) THEN [c EXCEPT !.limited = TRUE]
     ELSE [c EXCEPT !.cache = @ \cup {entry}, !.limited = @ \/ ~Room(c, 2),
                    !.texts = @ \o IF Room(c, 2) THEN <<Text(p, "title"), Text(p, "description")>>
                                   ELSE <<Text(p, "title")>>]

CacheProgramme(c, p) ==
  LET same == {q \in c.cache : q.context = c.context /\ q.id = p.id /\ q.day = p.day}
  IN IF \/ p.bearer # c.selected \/ p.day # c.day \/ Ambiguous(c)
        \/ \E q \in same : p.version <= q.version
     THEN c
     ELSE Apply(LAMBDA d : StoreProgramme(d, p),
                MakeRoom(IF same = {} THEN c ELSE EraseProgramme(c, CHOOSE q \in same : TRUE)))

\* service: a second name for a bearer makes it ambiguous until the directory changes.
NameService(c, s) ==
  [c EXCEPT !.names[s.bearer] = IF @ \in {Unnamed, s.name} THEN s.name ELSE Conflicting]

-----------------------------------------------------------------------------
(* Reception and decoding. *)

StartBody(c, s) == [c EXCEPT !.decoding = s, !.left = Object[c.slots[s].object].holds]

CompleteObject(c) ==
  LET t == c.slots[c.decoding].object
  IN ReleaseBody([c EXCEPT !.seen = @ \cup {t}, !.epochOf[t] = c.epoch])

\* One piece of the work that pump does: nothing is taken over from an object that
\* is not valid to its end.
Pump(c) ==
  LET ready == {s \in Slots : c.slots[s].complete}
      t == c.slots[c.decoding].object
      rest == [c EXCEPT !.left = Tail(@)]
  IN CASE c.decoding = 0 -> IF ready = {} THEN c ELSE StartBody(c, Min(ready))
       [] c.decoding # 0 /\ ~Object[t].valid -> ReleaseBody(c)
       [] c.decoding # 0 /\ Object[t].valid /\ c.left = <<>> -> CompleteObject(c)
       [] OTHER -> IF t \in PIObjects THEN CacheProgramme(rest, Head(c.left))
                   ELSE NameService(rest, Head(c.left))

TakeAnySlot(c, t) == {s \in Slots : c.slots[s].object = 0}

\* While selected PI is missing, what is not PI may not take the last slot.
SlotsOpenTo(c, t) ==
  LET taken == {s \in Slots : c.slots[s].object # 0}
      reserved == /\ Cardinality(taken) = 1 /\ ~RelevantPI(c, t)
                  /\ \A s \in taken : c.slots[s].object \notin PIObjects
                  /\ \E x \in Listed(c) : RelevantPI(c, x) /\ ~SeenNow(c, x)
  IN IF reserved THEN {} ELSE Slots \ taken

Collect(c, s, t, g) ==
  LET whole == c.slots[s].have \cup {g} = AllSegments(t)
      added == [c EXCEPT !.slots[s] = [object |-> t, have |-> @.have \cup {g}, complete |-> whole]]
  IN IF whole /\ ~c.slots[s].complete /\ c.decoding = 0 THEN StartBody(added, s) ELSE added

\* feed, with one segment of an object
FeedSegment(c, t, g) ==
  LET mine == {s \in Slots : c.slots[s].object = t}
  IN IF t \notin Listed(c) \/ SeenNow(c, t) \/ ~(RelevantPI(c, t) \/ Object[t].kind = "SI") THEN c
     ELSE IF mine # {} /\ c.decoding \in mine THEN c
     ELSE IF mine # {} THEN Collect(c, Min(mine), t, g)
     ELSE IF SlotsOpenTo(c, t) = {} THEN [c EXCEPT !.pressure = TRUE]
     ELSE Collect(c, Min(SlotsOpenTo(c, t)), t, g)

\* feed, with a whole directory
Directory(c, d) ==
  IF Busy(c) \/ c.directory = d THEN c
  ELSE ClearCache([c EXCEPT !.directory = d, !.seen = {}, !.epochOf = [t \in Objects |-> 0],
                            !.names = [b \in Stations |-> Unnamed]])

-----------------------------------------------------------------------------
(* The selection. *)

\* Outside the days announced for a station its first day is shown.
SelectionDay(c, b, day) ==
  LET days == {Object[t].day : t \in {x \in Listed(c) \cap PIObjects : Object[x].bearer = b}}
      declared == days \ {0}
      base == IF day = 0 THEN c.day ELSE day
  IN IF declared = {} \/ base \in declared THEN base ELSE Min(declared)

Select(c, b, day) ==
  LET browse == IF b = c.selected THEN c.browse ELSE 0
      base == SelectionDay(c, b, day)
      shown == IF base + browse >= 0 THEN base + browse ELSE base
      moved == [c EXCEPT !.browse = browse, !.selected = b, !.day = shown]
      active == IF <<b, shown>> = <<c.selected, c.day>> THEN moved ELSE Apply(ActivateContext, moved)
  IN [active EXCEPT !.now = IF day = 0 THEN @ ELSE day]

BrowseDay(c, delta) ==
  IF delta = 0 \/ c.browse + delta \notin -MaxBrowse..MaxBrowse THEN c
  ELSE Select([c EXCEPT !.browse = @ + delta], c.selected, c.now)

\* findStation: the bearer of the service, once the directory or the SI names it.
Match(c, b) ==
  IF c.names[b] # Conflicting /\ (c.names[b] # Unnamed \/ \E t \in Listed(c) : Object[t].bearer = b)
  THEN b ELSE 0

LiveContext(c, b, day) ==
  LET match == Match(c, b)
      chosen == IF day # 0 THEN Select(c, match, day)
                ELSE IF match # c.selected THEN Select(c, match, 0) ELSE c
  IN [chosen EXCEPT !.identityConflict = c.names[b] = Conflicting]

ResetLive(c) ==
  Apply(LAMBDA d : Select(d, 0, 0), ClearCache(
    [c EXCEPT !.directory = 0, !.seen = {}, !.epochOf = [t \in Objects |-> 0], !.browse = 0,
              !.names = [b \in Stations |-> Unnamed], !.identityConflict = FALSE]))

-----------------------------------------------------------------------------
(* The actions. *)

EpgInit ==
  /\ core = [ directory |-> 0, seen |-> {}, epochOf |-> [t \in Objects |-> 0],
              names |-> [b \in Stations |-> Unnamed], identityConflict |-> FALSE,
              selected |-> 0, day |-> 0, now |-> 0, browse |-> 0,
              contexts |-> [i \in ContextIds |-> EmptyContext], context |-> 1, limited |-> FALSE,
              epoch |-> 1, nextEpoch |-> 1, uses |-> 0, cache |-> {}, texts |-> <<>>,
              slots |-> [s \in Slots |-> FreeSlot], pressure |-> FALSE, decoding |-> 0, left |-> <<>> ]
  /\ tuned = 0 /\ carousel = 1 /\ clock = 0
  /\ epgEvents = 0

EpgEvent == epgEvents < MaxEpgEvents /\ epgEvents' = epgEvents + 1

ReceiveObject(t, g) ==
  /\ t \in Carousels[carousel] /\ <<t, g>> \notin Withheld
  /\ core' = FeedSegment(core, t, g)
  /\ UNCHANGED <<tuned, carousel, clock, epgEvents>>

ReceiveDirectory ==
  /\ core' = Directory(core, carousel)
  /\ UNCHANGED <<tuned, carousel, clock, epgEvents>>

\* poll: without a started service the selection is left as it is.
EpgPoll ==
  /\ core' = IF tuned = 0 THEN Pump(core) ELSE Apply(LAMBDA c : LiveContext(c, tuned, clock), Pump(core))
  /\ UNCHANGED <<tuned, carousel, clock, epgEvents>>

\* expire: nothing came for too long, or nothing new did and another object waits.
FreeSlotOf(s) ==
  /\ core.slots[s].object # 0 /\ ~core.slots[s].complete /\ core.decoding # s
  /\ core' = [core EXCEPT !.slots[s] = FreeSlot]
  /\ UNCHANGED <<tuned, carousel, clock>>

ExpireSlot(s) ==
  /\ FreeSlotOf(s)
  /\ LET t == core.slots[s].object
     IN \/ t \notin Carousels[carousel]
        \/ core.pressure /\ \A g \in AllSegments(t) \ core.slots[s].have : <<t, g>> \in Withheld
  /\ UNCHANGED epgEvents

LoseReception(s) == FreeSlotOf(s) /\ EpgEvent

\* liveServiceChanged: the store is reset when the guide came with the audio, as X-PAD.
ChangeStation(b) ==
  /\ b # tuned /\ EpgEvent
  /\ tuned' = b
  /\ core' \in {core, ResetLive(core)}
  /\ UNCHANGED <<carousel, clock>>

\* liveReset, or another endpoint
ChangeEndpoint ==
  /\ EpgEvent
  /\ core' = ResetLive(core)
  /\ UNCHANGED <<tuned, carousel, clock>>

Browse(delta) ==
  /\ EpgEvent
  /\ core' = BrowseDay(core, delta)
  /\ UNCHANGED <<tuned, carousel, clock>>

ChangeClock(day) ==
  /\ day # clock /\ EpgEvent
  /\ clock' = day
  /\ UNCHANGED <<core, tuned, carousel>>

ChangeCarousel ==
  /\ carousel < Len(Carousels) /\ EpgEvent
  /\ carousel' = carousel + 1
  /\ UNCHANGED <<core, tuned, clock>>

EpgNext ==
  \/ \E t \in Objects : \E g \in AllSegments(t) : ReceiveObject(t, g)
  \/ ReceiveDirectory
  \/ EpgPoll
  \/ \E s \in Slots : ExpireSlot(s) \/ LoseReception(s)
  \/ \E b \in Stations \cup {0} : ChangeStation(b)
  \/ ChangeEndpoint
  \/ \E delta \in {-1, 1, -core.browse} : Browse(delta)
  \/ \E day \in 0..LastDay : ChangeClock(day)
  \/ ChangeCarousel

ReceivePI == \E t \in PIObjects : \E g \in AllSegments(t) : ReceiveObject(t, g)

\* Each turn of the carousel brings every segment, so one that would be taken, if there is any.
EpgSpec ==
  /\ EpgInit /\ [][EpgNext]_epgVars
  /\ WF_epgVars(EpgPoll) /\ WF_epgVars(ReceivePI)
  /\ \A s \in Slots : WF_epgVars(ExpireSlot(s))

-----------------------------------------------------------------------------
(* What is promised. *)

EpgTypeOK ==
  /\ core.directory \in 0..Len(Carousels) /\ core.seen \subseteq Listed(core)
  /\ core.selected \in Stations \cup {0} /\ core.context \in ContextIds
  /\ core.epoch \in 1..(EpochMod - 1) /\ core.nextEpoch \in 1..(EpochMod - 1)
  /\ \A i \in ContextIds : core.contexts[i].epoch \in 0..(EpochMod - 1)
  /\ Cardinality(core.cache) <= MaxProgrammes /\ Len(core.texts) <= TextSize
  /\ core.decoding \in Slots \cup {0}
  /\ core.decoding # 0 => core.slots[core.decoding].complete
  /\ \A s \in Slots : core.slots[s].object \in Listed(core) \cup {0}
  /\ core.browse \in -MaxBrowse..MaxBrowse
  /\ tuned \in Stations \cup {0} /\ carousel \in DOMAIN Carousels
  /\ clock \in 0..LastDay /\ epgEvents \in 0..MaxEpgEvents

View(c) == {p \in c.cache : p.context = c.context}

(* An object that counts as received for the station and the day on show,   *)
(* so that its segments are refused from now on, has its programmes in the  *)
(* view, in its version or a later one, unless the guide says that it is    *)
(* limited or ambiguous: through evictions, returns and the wrap of the     *)
(* counter that marks what was received for which view.                     *)
SeenIsShown ==
  \A t \in core.seen \cap PIObjects :
    SeenNow(core, t) /\ ~core.limited /\ ~Ambiguous(core) =>
      \A p \in Range(Object[t].holds) :
        p.bearer = core.selected /\ p.day = core.day =>
          \E q \in View(core) : q.id = p.id /\ q.day = p.day /\ q.version >= p.version

(* Whatever was erased and moved in the pool, a programme has the title and *)
(* the description that were broadcast with it, for the station and the day *)
(* of its context, and the pool holds no text that belongs to none.         *)
TextsOfTheirProgramme ==
  /\ \A p \in core.cache :
       LET in == core.contexts[p.context]
           from == [bearer |-> in.bearer, id |-> p.id, day |-> p.day, version |-> p.version]
           Holds(offset, part) == offset \in DOMAIN core.texts /\ core.texts[offset] = Text(from, part)
       IN /\ in.valid /\ in.day = p.day
          /\ Holds(p.title, "title")
          /\ p.description # 0 => Holds(p.description, "description")
  /\ UNION {Refers(p) : p \in core.cache} = DOMAIN core.texts

(* What the guide shows is what was broadcast. *)
GuideAsBroadcast == SeenIsShown /\ TextsOfTheirProgramme

(* Programme information of the station and the day on show is received in  *)
(* the end while all of it is sent, however many of the other objects never *)
(* become complete: one of the two slots is kept for it.                    *)
GuideAcquired ==
  \A t \in PIObjects :
    LET due == /\ Object[t].valid /\ \A g \in AllSegments(t) : <<t, g>> \notin Withheld
               /\ t \in Listed(core) /\ t \in Carousels[carousel] /\ RelevantPI(core, t)
    IN due ~> (SeenNow(core, t) \/ ~due)
=============================================================================
