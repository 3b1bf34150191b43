---------------------------- MODULE SlideCollector ----------------------------
(***************************************************************************)
(* The slideshow: MOT objects are collected from the data service into the *)
(* one image-sized buffer (class DAB, src/src/si4684.cpp), which the user  *)
(* interface then decodes in place (ProcessDAB and SlideShowButtonPress of *)
(* src/SI4684-DAB-Receiver.ino, src/src/slideshow.cpp).                    *)
(*                                                                         *)
(* A segment is one unit of length and stands for itself in the buffer:    *)
(* <<programme, tid, number>>.  The objects are JPEG images, whose first   *)
(* and last bytes are checked.  A body segment that is damaged fails its   *)
(* CRC and is as good as lost; the CRC of a header is only counted.        *)
(* SlideShowInit holds exactly while a TransportId is locked, slsReceiving *)
(* while segments are held, and the highest segment number follows from    *)
(* the bitmap.                                                             *)
(*                                                                         *)
(* PendingOnly, RepeatsToo and OpenToAll are faulty variants of the        *)
(* operators that follow them.                                             *)
(***************************************************************************)
EXTENDS SequencesExt, FiniteSetsExt, Naturals

CONSTANTS
  Tids,          \* TransportIds in use; every programme uses the same ones
  Size,          \* segments of the object of a TransportId
  BufferSize,    \* SLS_BUFFER_BYTES
  MaxSwitches,   \* bound: changes of the service
  MaxDamaged,    \* bound: headers that arrive damaged
  MaxUses        \* bound: openings of the view, and time-outs of the collection

ASSUME SlideAssumption ==
  /\ Tids \subseteq Nat \ {0} /\ Size \in [Tids -> Nat \ {0}]
  /\ BufferSize \in Nat \ {0}
  /\ MaxSwitches \in Nat /\ MaxDamaged \in Nat /\ MaxUses \in Nat

NoTid == 0

VARIABLES
  programme,    \* the service that is selected
  context,      \* dabSwitch.slsContextValid
  settled,      \* external: the only object of the carousel, once it stays the same
  collector,    \* SlideShowTransportID, the segment bitmap, total segments and BodySize
  buffer,       \* slideshowSegBuf
  offer,        \* slideshowRamSize, SlideShowAvailable, SlideShowUpdate,
                \* slideshowPublishedPending and lastCompletedTransportId
  view,         \* SlideShowView, and whether the image is being decoded
  shown,        \* history: the image when decoding began
  slideBounds   \* bound: [damaged, uses] so far

user == <<view, shown>>
slideVars == <<programme, context, settled, collector, buffer, offer, user, slideBounds>>

Segments(t) == 0..(Size[t] - 1)
Whole(p, t) == [i \in 1..Size[t] |-> <<p, t, i - 1>>]
Image == SubSeq(buffer, 1, offer.size)

NoOffer == [size |-> 0, available |-> FALSE, update |-> FALSE, pending |-> FALSE, done |-> NoTid]
NothingCollected == [tid |-> NoTid, have |-> {}, total |-> 0, length |-> 0]

SlideTypeOK ==
  /\ programme \in 1..(MaxSwitches + 1) /\ context \in BOOLEAN
  /\ settled \in Tids \cup {NoTid}
  /\ collector.tid \in Tids \cup {NoTid}
  /\ collector.tid = NoTid => collector = NothingCollected
  /\ collector.tid # NoTid => collector.have \subseteq Segments(collector.tid)
  /\ collector.total \in Nat /\ collector.length \in 0..BufferSize
  /\ Len(buffer) <= BufferSize /\ Cardinality(collector.have) <= Len(buffer)
  /\ offer \in [ size : 0..Len(buffer), available : BOOLEAN, update : BOOLEAN,
                 pending : BOOLEAN, done : Tids \cup {NoTid} ]
  /\ view \in {"Main", "View", "Decoding"}
  /\ slideBounds \in [damaged : 0..MaxDamaged, uses : 0..MaxUses]

SlideInit ==
  /\ programme = 1 /\ context = FALSE /\ settled = NoTid
  /\ collector = NothingCollected /\ buffer = <<>> /\ offer = NoOffer
  /\ view = "Main" /\ shown = <<>>
  /\ slideBounds = [damaged |-> 0, uses |-> 0]

-----------------------------------------------------------------------------
(* The collector. *)

\* lockSlideshowTransport
Locked(t) == [NothingCollected EXCEPT !.tid = t]

Highest(c) == IF c.have = {} THEN 0 ELSE Max(c.have)

Total(c) == IF c.total = 0 THEN Highest(c) + 1 ELSE c.total

\* allSegmentsReceived
AllReceived(c) == c.have # {} /\ 0..(Total(c) - 1) \subseteq c.have

\* The bytes begin and end as those of an image do.
LooksWhole(bytes) ==
  /\ Head(bytes)[3] = 0
  /\ LET final == Last(bytes) IN final[3] = Size[final[2]] - 1

\* assembleSlideshow: the image is offered, or thrown away.
Assembled(o, c, bytes) ==
  LET count == Cardinality(c.have) IN
  IF /\ c.have \subseteq 0..(Total(c) - 1)
     /\ c.length \in {0, count}
     /\ LooksWhole(SubSeq(bytes, 1, count))
  THEN [size |-> count, available |-> TRUE, update |-> TRUE, pending |-> TRUE, done |-> c.tid]
  ELSE o

\* storeSlideshowSegment: lower segments come first; bytes beyond those held stay.
Stored(c, piece) ==
  LET count == Cardinality(c.have)
      below == Cardinality({s \in c.have : s < piece[3]})
  IN InsertAt(SubSeq(buffer, 1, count), below + 1, piece)
       \o SubSeq(buffer, count + 2, Len(buffer))

\* The segment cannot belong to what is held, or does not fit.
Contradicts(c, s, final) ==
  \/ final /\ c.total # 0 /\ s + 1 # c.total
  \/ c.total # 0 /\ s >= c.total
  \/ final /\ c.have # {} /\ s < Highest(c)
  \/ Cardinality(c.have) >= BufferSize

\* The image is still the user interface's until it takes notice of it.
PendingOnly == offer.pending

\* The image is still the user interface's, as a new one or because it is asked for again.
ImageHeld == offer.pending \/ offer.update

\* What was completed last is collected once more.
RepeatsToo(t) == context /\ ~ImageHeld

\* Packets of any service are collected.
OpenToAll(t) == offer.done # t /\ ~ImageHeld

\* What the collector takes notice of; everything else is drained.
OpenTo(t) == context /\ offer.done # t /\ ~ImageHeld

\* beginSlideshowReception
Withdrawn(o) == [o EXCEPT !.available = FALSE, !.update = FALSE, !.size = 0]

\* A segment that is not held yet; it may complete the object.
StoreSegment(c, piece, final) ==
  LET o     == IF c.have = {} THEN Withdrawn(offer) ELSE offer
      bytes == Stored(c, piece)
      next  == [c EXCEPT !.have = @ \cup {piece[3]},
                         !.total = IF final THEN piece[3] + 1 ELSE @]
      count == Cardinality(next.have)
      complete == /\ AllReceived(next)
                  /\ IF c.length = 0 THEN next.total # 0 ELSE count = c.length
  IN /\ buffer' = bytes
     /\ offer' = IF complete THEN Assembled(o, next, bytes) ELSE o
     /\ collector' = IF complete \/ (c.length # 0 /\ count > c.length)
                     THEN NothingCollected ELSE next

\* Packets that were queued before the service changed are of the old one.
Source == IF context \/ programme = 1 THEN programme ELSE programme - 1

\* getServiceData, body segment: segment 0 of another object takes over.
ReceiveSegment(t, s) ==
  /\ settled \in {NoTid, t} /\ OpenTo(t)
  /\ LET final == (s = Size[t] - 1)
         c == IF collector.tid = NoTid \/ (collector.tid # t /\ s = 0) THEN Locked(t) ELSE collector
     IN IF c.tid # t \/ s \in c.have THEN UNCHANGED <<collector, buffer, offer>>
        ELSE IF Contradicts(c, s, final) THEN collector' = NothingCollected /\ UNCHANGED <<buffer, offer>>
        ELSE StoreSegment(c, <<Source, t, s>>, final)
  /\ UNCHANGED <<programme, context, settled, user, slideBounds>>

\* getServiceData, MOT header: another object takes over, another BodySize starts afresh.
Header(t, length) ==
  /\ OpenTo(t) /\ length \in 1..BufferSize
  /\ LET known == IF collector.tid = t THEN collector ELSE Locked(t)
         fresh == IF known.length \in {0, length} THEN known ELSE Locked(t)
         c     == [fresh EXCEPT !.length = length]
         count == Cardinality(c.have)
         complete == count = length /\ AllReceived(c)
     IN /\ offer' = IF complete THEN Assembled(offer, c, buffer) ELSE offer
        /\ collector' = IF complete \/ count > length THEN NothingCollected ELSE c
  /\ UNCHANGED <<programme, context, settled, buffer, user>>

ReceiveHeader(t) == settled \in {NoTid, t} /\ Header(t, Size[t]) /\ UNCHANGED slideBounds

\* The CRC of a header is counted, the header is used.
ReceiveDamagedHeader ==
  /\ slideBounds.damaged < MaxDamaged
  /\ slideBounds' = [slideBounds EXCEPT !.damaged = @ + 1]
  /\ \E t \in Tids, length \in 1..BufferSize : Header(t, length)

Uses ==
  /\ slideBounds.uses < MaxUses
  /\ slideBounds' = [slideBounds EXCEPT !.uses = @ + 1]

\* 30 s without a segment
CollectionTimesOut ==
  /\ collector.tid # NoTid /\ Uses
  /\ collector' = NothingCollected
  /\ UNCHANGED <<programme, context, settled, buffer, offer, user>>

-----------------------------------------------------------------------------
(* The service. *)

\* DAB::setService; the main loop is not in the decoder.
ChangeService ==
  /\ programme <= MaxSwitches /\ view # "Decoding"
  /\ programme' = programme + 1 /\ context' = FALSE
  /\ collector' = NothingCollected /\ offer' = NoOffer
  /\ UNCHANGED <<settled, buffer, user, slideBounds>>

\* The START of the service is confirmed.
ServiceConfirmed ==
  /\ ~context
  /\ context' = TRUE
  /\ UNCHANGED <<programme, settled, collector, buffer, offer, user, slideBounds>>

CarouselSettles ==
  /\ settled = NoTid
  /\ settled' \in Tids
  /\ UNCHANGED <<programme, context, collector, buffer, offer, user, slideBounds>>

-----------------------------------------------------------------------------
(* The user interface. *)

\* acknowledgeSlideshow
Acknowledged(o) == [o EXCEPT !.update = FALSE, !.pending = FALSE]

\* Not displayed now: the main screen without automatic slideshow, or the programme guide.
CacheImage ==
  /\ view # "Decoding" /\ offer.available /\ offer.update
  /\ offer' = Acknowledged(offer)
  /\ UNCHANGED <<programme, context, settled, collector, buffer, user, slideBounds>>

\* SlideShowButtonPress, by the user or by the automatic slideshow
OpenView ==
  /\ view = "Main" /\ Uses
  /\ offer.available \/ collector.have # {}
  /\ offer' = IF offer.available THEN [offer EXCEPT !.update = TRUE] ELSE offer
  /\ view' = "View"
  /\ UNCHANGED <<programme, context, settled, collector, buffer, shown>>

CloseView ==
  /\ view = "View"
  /\ view' = "Main"
  /\ UNCHANGED <<programme, context, settled, collector, buffer, offer, shown, slideBounds>>

\* ShowSlideShow pumps the driver, so that packets are received while it decodes.
StartDecoding ==
  /\ view = "View" /\ offer.available /\ offer.update
  /\ view' = "Decoding" /\ shown' = Image
  /\ UNCHANGED <<programme, context, settled, collector, buffer, offer, slideBounds>>

EndDecoding ==
  /\ view = "Decoding"
  /\ offer' = Acknowledged(offer) /\ shown' = <<>>
  /\ view' \in {"View", "Main"}
  /\ UNCHANGED <<programme, context, settled, collector, buffer, slideBounds>>

ReceivePacket ==
  \/ \E t \in Tids : ReceiveHeader(t) \/ \E s \in Segments(t) : ReceiveSegment(t, s)
  \/ ReceiveDamagedHeader

SlideNext ==
  \/ ReceivePacket \/ CollectionTimesOut
  \/ ChangeService \/ ServiceConfirmed \/ CarouselSettles
  \/ CacheImage \/ OpenView \/ CloseView \/ StartDecoding \/ EndDecoding

SlideSpec == SlideInit /\ [][SlideNext]_slideVars

\* Every packet of the object that stays on air is received again and again, a switch is
\* carried out, and the main loop does not leave an image lying.
ReceiveSegments(s) == \E t \in Tids : s \in Segments(t) /\ ReceiveSegment(t, s)
ReceiveHeaders == \E t \in Tids : ReceiveHeader(t)

SlideFairness ==
  /\ \A s \in UNION {Segments(t) : t \in Tids} : WF_slideVars(ReceiveSegments(s))
  /\ WF_slideVars(ReceiveHeaders)
  /\ WF_slideVars(ServiceConfirmed)
  /\ WF_slideVars(CacheImage \/ StartDecoding)
  /\ WF_slideVars(EndDecoding)

SlideFairSpec == SlideSpec /\ SlideFairness

-----------------------------------------------------------------------------
(* Properties. *)

\* An image on offer is all of one object of the service that is selected, in order,
\* whatever order, repetition, damage and abandoned objects it was collected through.
OfferedIsWhole == offer.available => Image = Whole(programme, offer.done)

\* Nothing is written into the image while it is decoded, although reception goes on.
HeldWhileDecoded == view = "Decoding" => offer.available /\ Image = shown

\* The carousel has settled on one object, which fits into the buffer.
OnAir == settled \in {t \in Tids : Size[t] <= BufferSize}

\* Its image is on offer.
Offered == offer.available /\ offer.done = settled

\* It was the last object to be completed, and a segment of another one has withdrawn its image
\* since: the collector drains it as a repetition.
Exhausted == offer.done = settled /\ ~offer.available

\* Once the carousel has settled, its object does not come to be exhausted.
StaysUnexhausted == [][OnAir /\ ~Exhausted => ~Exhausted']_slideVars

\* The object that stays on air comes to be on offer and stays there, unless it was exhausted
\* when the carousel settled on it and remains so for ever.
CarouselShown ==
  /\ StaysUnexhausted
  /\ <>[]OnAir /\ []<>~Exhausted => <>[]Offered
=============================================================================
