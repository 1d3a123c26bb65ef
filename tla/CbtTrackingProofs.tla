-------------------------- MODULE CbtTrackingProofs --------------------------
(***************************************************************************)
(* Theorems about CbtTracking, for any disk, any chunk, any domains and    *)
(* any bounds: its types, that a bitmap is reported exactly, that nothing  *)
(* the QEMU of a payload recorded is missed but what the property exempts, *)
(* and that nothing is added.                                              *)
(*                                                                         *)
(* TypeInv, QemuInv, OrderInv, MissInv, WalkInv and ExtraInv are proved in *)
(* this order, each from those before it.                                  *)
(***************************************************************************)
EXTENDS CbtTracking, TLAPS

\* The units that extents cover.
Cover(extents) == UNION {e.off..((e.off + e.len) - 1) : e \in extents}

\* What a capture moves through, in order.
CapPcs == {"idle", "find", "disable", "add", "merge", "clear", "enable", "freeze", "export", "save"}

Bitmaps == [Names -> [st : {"none", "on", "off"}, bits : SUBSET Units]]

Call == [pc : {"idle", "next", "request", "reply", "done"}, key : Int, names : SUBSET Names,
         todo : SUBSET Names, bitmap : Names \cup {Nobody}, off : 0..Size, len : 0..Size,
         gran : Nat \ {0}, at : 0..Size, cur : 0..Size, got : SUBSET Extent,
         all : SUBSET Extent, omitted : BOOLEAN, bits : SUBSET Int]

Owed == [ever : SUBSET Units, live : SUBSET Units]

\* A file of key k has one payload, or none.
Payload(k, names) == names = {} \/ \E q \in Qemus : names = {<<q, k>>}

\* TypeOK with the types it leaves to the actions, and what their guards keep.
TypeInv ==
    /\ TypeOK
    /\ interval \in [Snaps -> [all : SUBSET Units, told : [Qemus -> SUBSET Units]]]
    /\ late \in [Snaps -> SUBSET Units]
    /\ saved \in [Keys -> Owed] /\ owed \in Owed
    /\ \A k \in Keys : Payload(k, file[k])
    /\ cap \in [pc : CapPcs, snap : Keys, qemu : Qemus]
    /\ cap.pc # "idle" => cap.snap = taken /\ taken >= 1
    /\ exits \in Nat
    /\ \A d, e \in up \ {Daemon} : d = e
    /\ list \in Call

\* Bitmaps of a snapshot yet to come do not exist; only a deactivate exports an
\* active bitmap; QEMUs come and go in one mode only.
QemuInv ==
    /\ \A n \in Names : bitmap[n].st = "none" => bitmap[n].bits = {}
    /\ \A n \in Names : n[2] > taken => bitmap[n].st = "none"
    /\ mode # "restarts" => /\ reg => Daemon \in up
                            /\ deact.pc = "idle"
                            /\ \A q \in Qemus : <<q, Head>> \notin exported
    /\ deact.pc = "save" => DeactActive \in exported \/ bitmap[DeactActive].st = "none"

Busy == cap.pc \notin {"idle", "find"}

\* When nothing breaks off, the step of a capture tells the state of its bitmaps,
\* and no other QEMU has one of a snapshot.
OrderInv ==
    mode = "destroys" =>
        /\ Busy => cap.qemu \in Found /\ bitmap[Active].st # "none"
        /\ \A q \in Qemus : bitmap[<<q, Head>>].st = "off" =>
               q = cap.qemu /\ cap.pc \in {"add", "merge", "clear", "enable"}
        /\ cap.pc = "find" => \A q \in Qemus : bitmap[<<q, cap.snap>>].st = "none"
        /\ cap.pc \in {"disable", "add"} => bitmap[Frozen].st = "none"
        /\ cap.pc \in {"merge", "clear", "enable", "freeze"} => bitmap[Frozen].st = "on"
        /\ cap.pc \in {"export", "save"} => bitmap[Frozen].st = "off"
        /\ cap.pc \notin {"idle", "find", "save"} => Frozen \notin exported
        /\ \A q \in Qemus, k \in Snaps :
               bitmap[<<q, k>>].st = "on" => Busy /\ q = cap.qemu /\ k = cap.snap

\* Where the writes are that a QEMU has recorded: in its active bitmap until the
\* capture has merged it, in the snapshot's from then on, and exported once a
\* payload is saved.
Recording == \A q \in Qemus : /\ told[q] \subseteq bitmap[<<q, Head>>].bits
                              /\ Moving(q) => told[q] = {}

Whole(q) == interval[cap.snap].told[q]

Carried ==
    /\ cap.pc = "find" => \A q \in Qemus : Whole(q) \subseteq bitmap[<<q, Head>>].bits
    /\ cap.pc \in {"disable", "add", "merge"} => Whole(cap.qemu) \subseteq bitmap[Active].bits
    /\ cap.pc \in {"clear", "enable", "freeze", "export", "save"} =>
           Whole(cap.qemu) \subseteq bitmap[Frozen].bits
    /\ cap.pc = "save" => Whole(cap.qemu) = {} \/ Frozen \in exported

Held(units, names) ==
    units = {} \/ \A n \in names : n \in exported /\ units \subseteq bitmap[n].bits

Saved == /\ \A k \in Keys : Held(saved[k].live, file[k])
         /\ file[Head] = {} => saved[Head].live = {}

MissInv == Recording /\ Carried /\ Saved

\* The list: what it has read of the one bitmap its payload names, and what it owes.
Position == IF list.pc = "reply" THEN list.cur ELSE list.at

ReadAll == /\ list.names # {} /\ list.todo = {} /\ ~list.omitted
           /\ list.pc \in {"next", "done"}

WalkInv ==
    /\ list.pc # "idle" => /\ list.key \in Keys /\ list.len >= 1
                           /\ list.off + list.len <= Size
                           /\ list.key \in 0..taken
                           /\ Payload(list.key, list.names) /\ list.todo \subseteq list.names
                           /\ Held(owed.live, list.names)
    /\ Fetching => /\ list.todo = {} /\ list.bitmap \in list.names /\ list.bitmap \in exported
                   /\ Cover(list.got) = bitmap[list.bitmap].bits \cap (0..Position - 1)
    /\ list.pc = "reply" => list.at < Size /\ list.cur \in list.at..list.at + Chunk
    /\ list.omitted => list.todo = {} /\ ~Fetching
    /\ list.all # {} => ReadAll
    /\ ReadAll => /\ owed.live \subseteq Cover(list.all)
                  /\ mode # "restarts" =>
                         \A n \in list.names : /\ n \in exported
                                               /\ Cover(list.all) = bitmap[n].bits
    /\ list.pc = "done" =>
           /\ list.todo = {}
           /\ list.bits = BlocksOf(Cover(list.all), list.off, list.len, list.gran)

\* What the bitmaps may hold when nothing breaks off: those of the QEMU that captures
\* talk to, for the others are never cleared.
Marked(units) == UNION {Block(u) : u \in units}
Recorded(s)   == interval[s].all \cup late[s]

\* The active bitmap is still to be cleared of what was before the ZFS snapshot.
Before(q) ==
    \/ cap.pc = "find"
    \/ cap.qemu = q /\ cap.pc \in {"disable", "add", "merge", "clear"}

ExtraInv ==
    mode = "destroys" =>
        /\ \A q \in Found : /\ Before(q) => bitmap[<<q, Head>>].bits \subseteq Marked(Recorded(cap.snap))
                            /\ ~Before(q) => bitmap[<<q, Head>>].bits \subseteq Marked(changed)
        /\ \A q \in Qemus, s \in Snaps : bitmap[<<q, s>>].bits \subseteq Marked(Recorded(s))

-----------------------------------------------------------------------------
(* The reply: packing extents is marking the blocks they touch.            *)

LEMMA Multiples ==
  ASSUME NEW a \in Int, NEW b \in Int, NEW g \in Nat \ {0}
  PROVE  /\ a <= b => a * g <= b * g
         /\ a < b => a * g + g <= b * g
         /\ a * g \in Int
<1>1. a * g \in Int /\ b * g \in Int
  OBVIOUS
<1>2. PICK d \in Int : d = b - a
  OBVIOUS
<1>3. b * g = a * g + d * g
  BY <1>2
<1>4. d >= 0 => d * g >= 0
  OBVIOUS
<1>5. d >= 1 => d * g >= g
  OBVIOUS
<1>. QED
  BY <1>1, <1>2, <1>3, <1>4, <1>5

\* Dividing is finding the multiple at or below.
LEMMA Quotient ==
  ASSUME NEW a \in Int, NEW q \in Int, NEW g \in Nat \ {0}
  PROVE  /\ a \div g \in Int
         /\ (a \div g) * g <= a /\ a < (a \div g) * g + g
         /\ q * g <= a /\ a < q * g + g => a \div g = q
<1>1. a \div g \in Int
  OBVIOUS
<1>2. (a \div g) * g <= a /\ a < (a \div g) * g + g
  OBVIOUS
<1>3. ASSUME q * g <= a, a < q * g + g PROVE a \div g = q
  <2>1. ~(q < a \div g)
    BY <1>1, <1>2, <1>3, Multiples
  <2>2. ~(a \div g < q)
    BY <1>1, <1>2, <1>3, Multiples
  <2>. QED
    BY <1>1, <2>1, <2>2
<1>. QED
  BY <1>1, <1>2, <1>3

LEMMA QuotientRises ==
  ASSUME NEW a \in Int, NEW b \in Int, a <= b, NEW g \in Nat \ {0}
  PROVE  a \div g <= b \div g
<1>1. SUFFICES ASSUME b \div g < a \div g PROVE FALSE
  BY Quotient
<1>2. (b \div g) * g + g <= (a \div g) * g
  BY <1>1, Quotient, Multiples
<1>. QED
  BY <1>2, Quotient, Multiples

\* Taking off multiples takes them off the quotient.
LEMMA QuotientShift ==
  ASSUME NEW a \in Int, NEW q \in Int, NEW g \in Nat \ {0}
  PROVE  (a - q * g) \div g = a \div g - q
<1> DEFINE r == a \div g
<1>1. r \in Int /\ r * g <= a /\ a < r * g + g
  BY Quotient
<1>2. (r - q) * g = r * g - q * g
  BY <1>1
<1>3. q * g \in Int /\ r * g \in Int
  BY <1>1
<1> HIDE DEF r
<1>4. (r - q) * g <= a - q * g /\ a - q * g < (r - q) * g + g
  BY <1>1, <1>2, <1>3
<1>5. a - q * g \in Int /\ r - q \in Int
  BY <1>1, <1>3
<1>6. (a - q * g) \div g = r - q
  BY <1>4, <1>5, Quotient
<1>. QED
  BY <1>6 DEF r


\* The span ends behind the block of the last byte.
LEMMA SpanEnd ==
  ASSUME NEW off \in Nat, NEW len \in Nat \ {0}, NEW g \in Nat \ {0}
  PROVE  AlignedEnd(off, len, g) = ((off + len - 1) \div g) * g + g
<1> DEFINE last == (off + len - 1) \div g
<1>1. last \in Int /\ last * g <= off + len - 1 /\ off + len - 1 < last * g + g
  BY Quotient
<1> HIDE DEF last
<1>2. last * g \in Int /\ (-last - 1) \in Int /\ (-last - 1) * g = -(last * g) - g
  BY <1>1
<1>3. (-last - 1) * g <= -(off + len) /\ -(off + len) < (-last - 1) * g + g
  BY <1>1, <1>2
<1>4. -(off + len) \in Int
  OBVIOUS
<1>5. (-(off + len)) \div g = -last - 1
  BY <1>2, <1>3, <1>4, Quotient
<1>6. AlignedEnd(off, len, g) = -((-last - 1) * g)
  BY <1>5 DEF AlignedEnd
<1>. QED
  BY <1>1, <1>2, <1>6 DEF last

\* The bits one extent sets are the blocks it touches.
ExtentBits(lo, hi, off, len, g) ==
    LET start == AlignedStart(off, g)
        end   == AlignedEnd(off, len, g)
        from  == Larger(lo, start)
        to    == Smaller(hi, end)
    IN IF to <= from THEN {} ELSE ((from - start) \div g)..((to - 1 - start) \div g)

LEMMA OneExtent ==
  ASSUME NEW off \in Nat, NEW len \in Nat \ {0}, NEW g \in Nat \ {0},
         NEW lo \in Int, NEW hi \in Int, lo < hi
  PROVE  ExtentBits(lo, hi, off, len, g) = BlocksOf(lo..hi - 1, off, len, g)
<1> DEFINE first == off \div g
           last  == (off + len - 1) \div g
           start == AlignedStart(off, g)
           end   == AlignedEnd(off, len, g)
           from  == Larger(lo, start)
           to    == Smaller(hi, end)
<1>1. first \in Int /\ last \in Int /\ first <= last
  BY Quotient, QuotientRises
<1>2. first * g \in Int /\ last * g \in Int
  BY <1>1, Multiples
<1>3. start = first * g /\ end = last * g + g
  BY SpanEnd DEF AlignedStart
<1> HIDE DEF first, last, start, end
<1>4. start \in Int /\ end \in Int
  BY <1>2, <1>3
<1>5. from \in Int /\ from >= lo /\ from >= start /\ (from = lo \/ from = start)
  BY <1>4 DEF Larger
<1>6. to \in Int /\ to <= hi /\ to <= end /\ (to = hi \/ to = end)
  BY <1>4 DEF Smaller
<1> HIDE DEF from, to
<1>7. /\ (from - start) \div g = from \div g - first
      /\ (to - 1 - start) \div g = (to - 1) \div g - first
  <2>1. to - 1 \in Int
    BY <1>6
  <2>. QED
    BY <1>1, <1>3, <1>5, <2>1, QuotientShift
<1>8. from \div g \in Int /\ (to - 1) \div g \in Int
  <2>1. to - 1 \in Int
    BY <1>6
  <2>. QED
    BY <1>5, <2>1, Quotient
<1>9. ASSUME NEW b \in Int PROVE b * g \in Int
  BY Multiples
<1>10. ASSUME NEW b \in Int, from < to, from \div g <= b, b <= (to - 1) \div g
       PROVE  /\ first <= b /\ b <= last
              /\ \E u \in lo..hi - 1 : u \div g = b
  <2>0. to - 1 \in Int
    BY <1>6
  <2>1. first <= b
    <3>1. first = start \div g
      <4>1. first * g <= start /\ start < first * g + g
        BY <1>2, <1>3
      <4>. QED
        BY <1>1, <1>4, <4>1, Quotient
    <3>2. start \div g <= from \div g
      BY <1>4, <1>5, QuotientRises
    <3>. QED
      BY <1>8, <1>9, <1>1, <1>10, <3>1, <3>2
  <2>2. b <= last
    <3>1. last = (end - 1) \div g
      <4>1. last * g <= end - 1 /\ end - 1 < last * g + g /\ end - 1 \in Int
        BY <1>2, <1>3
      <4>. QED
        BY <1>1, <4>1, Quotient
    <3>2. (to - 1) \div g <= (end - 1) \div g
      <4>1. to - 1 <= end - 1 /\ end - 1 \in Int
        BY <1>4, <1>6
      <4>. QED
        BY <2>0, <4>1, QuotientRises
    <3>. QED
      BY <1>8, <1>9, <1>1, <1>10, <3>1, <3>2
  <2>3. b * g <= to - 1
    <3>1. b * g <= ((to - 1) \div g) * g
      BY <1>8, <1>9, <1>10, Multiples
    <3>2. ((to - 1) \div g) * g <= to - 1 /\ ((to - 1) \div g) * g \in Int
      BY <1>8, <2>0, Quotient, Multiples
    <3>. QED
      BY <1>9, <2>0, <3>1, <3>2
  <2>4. from < b * g + g
    <3>1. (from \div g) * g <= b * g
      BY <1>8, <1>9, <1>10, Multiples
    <3>2. from < (from \div g) * g + g /\ (from \div g) * g \in Int
      BY <1>5, <1>8, Quotient, Multiples
    <3>. QED
      BY <1>5, <1>9, <3>1, <3>2
  <2>5. PICK u \in Int : u = Larger(from, b * g)
    BY <1>5, <1>9 DEF Larger
  <2>6. u >= from /\ u >= b * g /\ u <= to - 1 /\ u < b * g + g
    BY <1>5, <1>6, <1>9, <1>10, <2>3, <2>4, <2>5 DEF Larger
  <2>7. u \div g = b
    BY <1>9, <2>6, Quotient
  <2>8. u \in lo..hi - 1
    BY <1>5, <1>6, <2>6
  <2>. QED
    BY <2>1, <2>2, <2>7, <2>8
<1>11. ASSUME NEW b \in Int, first <= b, b <= last, NEW u \in lo..hi - 1, u \div g = b
       PROVE  from < to /\ from \div g <= b /\ b <= (to - 1) \div g
  <2>1. u \in Int /\ b * g <= u /\ u < b * g + g
    BY <1>11, Quotient
  <2>2. first * g <= b * g
    BY <1>1, <1>9, <1>11, Multiples
  <2>3. b * g <= last * g
    BY <1>1, <1>9, <1>11, Multiples
  <2>4. start <= u /\ u < end
    BY <1>2, <1>3, <1>9, <2>1, <2>2, <2>3
  <2>5. from <= u /\ u <= to - 1 /\ to - 1 \in Int
    BY <1>4, <1>5, <1>6, <2>1, <2>4
  <2>6. from \div g <= b /\ b <= (to - 1) \div g
    BY <1>5, <1>11, <2>1, <2>5, QuotientRises
  <2>. QED
    BY <1>5, <1>6, <2>1, <2>5, <2>6
<1>12. ASSUME NEW i \in Int
       PROVE  (from < to /\ i \in ((from - start) \div g)..((to - 1 - start) \div g))
                <=> i \in BlocksOf(lo..hi - 1, off, len, g)
  <2>1. PICK b \in Int : b = first + i
    BY <1>1
  <2>2. (i \in ((from - start) \div g)..((to - 1 - start) \div g))
          <=> (from \div g <= b /\ b <= (to - 1) \div g)
    BY <1>1, <1>7, <1>8, <2>1
  <2>3. i \in 0..(last - first) <=> (first <= b /\ b <= last)
    BY <1>1, <2>1
  <2>4. i \in BlocksOf(lo..hi - 1, off, len, g)
          <=> (i \in 0..(last - first) /\ \E u \in lo..hi - 1 : u \div g = b)
    BY <2>1 DEF BlocksOf, first, last
  <2>. QED
    BY <1>10, <1>11, <2>2, <2>3, <2>4
<1>13. ExtentBits(lo, hi, off, len, g) =
         IF to <= from THEN {} ELSE ((from - start) \div g)..((to - 1 - start) \div g)
  BY DEF ExtentBits, from, to, start, end
<1>14. \A i \in ExtentBits(lo, hi, off, len, g) : i \in Int
  BY <1>1, <1>7, <1>8, <1>13
<1>15. \A i \in BlocksOf(lo..hi - 1, off, len, g) : i \in Int
  BY <1>1 DEF BlocksOf, first, last
<1>16. from < to <=> ~(to <= from)
  BY <1>5, <1>6
<1>17. ASSUME NEW i \in Int
       PROVE  i \in ExtentBits(lo, hi, off, len, g) <=> i \in BlocksOf(lo..hi - 1, off, len, g)
  <2>1. CASE from < to
    BY <1>12, <1>13, <1>16, <2>1
  <2>2. CASE ~(from < to)
    BY <1>12, <1>13, <1>16, <2>2
  <2>. QED
    BY <2>1, <2>2
<1>. QED
  BY <1>14, <1>15, <1>17

\* What _pack_extents_to_bitmap computes (volume.py:1165-1201).
LEMMA PackIsBlocks ==
  ASSUME NEW extents \in SUBSET Extent,
         NEW off \in Nat, NEW len \in Nat \ {0}, NEW g \in Nat \ {0}
  PROVE  PackExtents(extents, off, len, g) = BlocksOf(Cover(extents), off, len, g)
<1> DEFINE Bits(e) == ExtentBits(e.off, e.off + e.len, off, len, g)
<1>1. PackExtents(extents, off, len, g) = UNION {Bits(e) : e \in extents}
  BY DEF PackExtents, ExtentBits
<1>2. ASSUME NEW e \in extents
      PROVE  Bits(e) = BlocksOf(e.off..(e.off + e.len) - 1, off, len, g)
  <2>1. e.off \in Int /\ e.off + e.len \in Int /\ e.off < e.off + e.len
    BY BlocksAssumption DEF Extent, Units
  <2>2. \A lo, hi \in Int : lo < hi =>
          ExtentBits(lo, hi, off, len, g) = BlocksOf(lo..hi - 1, off, len, g)
    BY OneExtent
  <2>. QED
    BY <2>1, <2>2, Zenon
<1>3. BlocksOf(Cover(extents), off, len, g)
        = UNION {BlocksOf(e.off..(e.off + e.len) - 1, off, len, g) : e \in extents}
  <2>1. ASSUME NEW i
        PROVE  i \in BlocksOf(Cover(extents), off, len, g)
                 <=> \E e \in extents : i \in BlocksOf(e.off..(e.off + e.len) - 1, off, len, g)
    BY DEF BlocksOf, Cover
  <2>. QED
    BY <2>1
<1> HIDE DEF Bits
<1>. QED
  BY <1>1, <1>2, <1>3

\* More dirty units mean more blocks.
LEMMA BlocksRise ==
  ASSUME NEW dirty, NEW more, dirty \subseteq more, NEW off, NEW len, NEW g
  PROVE  BlocksOf(dirty, off, len, g) \subseteq BlocksOf(more, off, len, g)
BY DEF BlocksOf


LEMMA CoverFacts ==
  /\ Cover({}) = {}
  /\ \A a, b : Cover(a \cup b) = Cover(a) \cup Cover(b)
  /\ \A o, n : Cover({[off |-> o, len |-> n]}) = o..((o + n) - 1)
BY DEF Cover

-----------------------------------------------------------------------------
(* Types.                                                                  *)


LEMMA KeyFacts ==
  /\ Snaps \subseteq Nat \ {0} /\ Keys \subseteq Nat /\ Head \in Keys /\ Head \notin Snaps
  /\ Keys = {Head} \cup Snaps /\ Head = 0
  /\ Daemon \in Qemus /\ Domains \subseteq Qemus /\ Qemus = {Daemon} \cup Domains
  /\ \A m \in Modes : /\ Limits[m].snaps \in Nat /\ Limits[m].writes \in Nat
                      /\ Limits[m].exits \in Nat /\ 1..Limits[m].snaps \subseteq Snaps
                      /\ Limits[m].asked \subseteq Units \X (1..Size)
BY CbtAssumption DEF Snaps, Keys, Head, Qemus

LEMMA NameFacts ==
  /\ \A q \in Qemus, k \in Keys : <<q, k>> \in Names
  /\ \A n \in Names : n[1] \in Qemus /\ n[2] \in Keys /\ n = <<n[1], n[2]>>
  /\ \A q, k : <<q, k>>[1] = q /\ <<q, k>>[2] = k
BY DEF Names

LEMMA BlockUnits ==
  ASSUME NEW u PROVE Block(u) \subseteq Units
BY DEF Block

LEMMA IdleCall == Idle \in Call
BY BlocksAssumption DEF Idle, Call, Nobody

LEMMA ConfigStays == Next => UNCHANGED config
BY DEF Next, Write, WriteDirect, Wrote, Lifecycle, Exit, Ended, Boot, Attach, Collect, Detach,
       TakeSnapshot, Capture, CapRest, CapFind, CapDisable, CapAdd, CapMerge, CapClear, CapEnable,
       CapFreeze, CapExport, CapSave, CapFails, DestroySnapshot, Datapath, DeactRest, Activate,
       Deactivate, DeactFreeze, DeactExport, DeactSave, DeactFails, List, ListRest

\* Whatever the walk does with the list keeps its type.
LEMMA ListTyped ==
  ASSUME list \in Call, bitmap \in Bitmaps, \A k \in Keys : Payload(k, file[k]), gran \in {1, 2},
         List \/ ListFetchFails, mode \in Modes, alive \subseteq Keys
  PROVE  list' \in Call
<1> USE BlocksAssumption DEF Call
<1>1. ASSUME NEW k \in Keys, NEW off \in Units, NEW len \in 1..Size, Listing(k, off, len)
      PROVE  list' \in Call
  <2>1. k \in Int /\ off \in 0..Size /\ len \in 0..Size /\ file[k] \in SUBSET Names
    BY KeyFacts, NameFacts DEF Units, Payload
  <2>2. list' = [Idle EXCEPT !.pc = "next", !.key = k, !.names = file[k], !.todo = file[k],
                             !.off = off, !.len = len]
    BY <1>1 DEF Listing, ListBegin
  <2>. QED
    BY <2>1, <2>2, IdleCall
<1>2. ASSUME NEW served, ListConnect(served) PROVE list' \in Call
  <2>1. PICK b \in list.todo :
          list' = IF b \in served
                  THEN [list EXCEPT !.todo = @ \ {b}, !.pc = "request", !.bitmap = b,
                                    !.at = 0, !.got = {}]
                  ELSE [list EXCEPT !.todo = @ \ {b}, !.omitted = TRUE]
    BY <1>2 DEF ListConnect
  <2>2. b \in Names /\ list.todo \ {b} \in SUBSET Names /\ 0 \in 0..Size
    <3>1. list.todo \in SUBSET Names
      OBVIOUS
    <3>. QED
      BY <3>1
  <2>3. CASE b \in served
    <3>1. list' = [list EXCEPT !.todo = list.todo \ {b}, !.pc = "request", !.bitmap = b,
                               !.at = 0, !.got = {}]
      BY <2>1, <2>3
    <3>. QED
      BY <2>2, <3>1
  <2>4. CASE b \notin served
    BY <2>1, <2>2, <2>4
  <2>. QED
    BY <2>3, <2>4
<1>3. CASE ListRequest
  BY <1>3 DEF ListRequest
<1>4. ASSUME NEW dirty, ListReply(dirty) PROVE list' \in Call
  <2>1. PICK n \in 1..(list.at + Chunk - list.cur) : list' = ReadDescriptor(n, dirty)
    BY <1>4 DEF ListReply
  <2>2. Chunk \in Int /\ list.at + Chunk <= Size
    BY DEF Chunk, Smaller
  <2>3. list.cur \in Units /\ n \in 1..Size /\ list.cur + n \in 0..Size
    BY <2>1, <2>2 DEF Units
  <2>4. [off |-> list.cur, len |-> n] \in Extent
    BY <2>3 DEF Extent
  <2>. QED
    BY <2>1, <2>3, <2>4 DEF ReadDescriptor
<1>5. CASE ListChunkDone
  <2>1. Chunk \in Int /\ list.at + Chunk \in 0..Size
    BY DEF Chunk, Smaller
  <2>. QED
    BY <1>5, <2>1 DEF ListChunkDone
<1>6. CASE ListFetchFails
  BY <1>6 DEF ListFetchFails
<1>7. CASE ListFetched
  BY <1>7 DEF ListFetched
<1>8. ASSUME NEW g \in Nat \ {0}, list' = [list EXCEPT !.pc = "done", !.gran = g,
                                !.bits = PackExtents(list.all, list.off, list.len, g)]
      PROVE  list' \in Call
  <2>1. PackExtents(list.all, list.off, list.len, g) \subseteq Int
    <3>1. AlignedStart(list.off, g) \in Int /\ AlignedEnd(list.off, list.len, g) \in Int
      <4>1. list.off \div g \in Int /\ (-(list.off + list.len)) \div g \in Int
        BY Quotient
      <4>. QED
        BY <4>1 DEF AlignedStart, AlignedEnd
    <3>2. \A e \in list.all : e.off \in Int /\ e.len \in Int
      BY DEF Extent, Units
    <3>. QED
      BY <3>1, <3>2 DEF PackExtents, Larger, Smaller
  <2>. QED
    BY <1>8, <2>1
<1>9. ASSUME NEW grans \in SUBSET (Nat \ {0}), grans = {} \/ \E g \in Nat : grans = {g},
             ListPack(grans)
      PROVE  list' \in Call
  <2>1. CASE grans = {}
    BY <1>8, <1>9, <2>1 DEF ListPack
  <2>2. CASE \E g \in Nat : grans = {g}
    <3>1. PICK g \in Nat \ {0} : grans = {g}
      BY <1>9, <2>2
    <3>2. (CHOOSE a \in grans : \A b \in grans : a >= b) = g
      BY <3>1
    <3>. QED
      BY <1>8, <1>9, <3>1, <3>2 DEF ListPack
  <2>. QED
    BY <1>9, <2>1, <2>2
<1>10. CASE ListReturn
  BY <1>10, IdleCall DEF ListReturn
<1>11. CASE ListStep
  <2>1. (IF file[list.key] = {} THEN {} ELSE {gran}) \in SUBSET (Nat \ {0})
    OBVIOUS
  <2>. QED
    BY <1>2, <1>3, <1>4, <1>5, <1>6, <1>7, <1>9, <1>11, <2>1 DEF ListStep
<1>. QED
  BY <1>1, <1>6, <1>10, <1>11, KeyFacts DEF List, ListReturns, Limit


\* What TypeOK says of the bitmaps.
BitmapsOK ==
    /\ bitmap \in Bitmaps /\ up \subseteq Qemus
    /\ \A n \in Names : n[1] \notin up => bitmap[n] = None
    /\ exported \subseteq {n \in Names : bitmap[n].st = "off"}

\* A command on a bitmap that is not exported.
LEMMA BitmapStep ==
  ASSUME BitmapsOK, UNCHANGED <<up, exported>>, NEW n \in Names, n[1] \in up, n \notin exported,
         \/ \E st \in {"on", "off"} : SetState(n, st)
         \/ \E b \in SUBSET Units : bitmap' = [bitmap EXCEPT ![n].bits = b]
         \/ bitmap' = [bitmap EXCEPT ![n] = Empty("on")]
  PROVE  BitmapsOK'
<1> USE DEF BitmapsOK, Bitmaps
<1>1. ASSUME NEW b \in [st : {"none", "on", "off"}, bits : SUBSET Units],
             bitmap' = [bitmap EXCEPT ![n] = b]
      PROVE  BitmapsOK'
  BY <1>1
<1>2. ASSUME NEW st \in {"on", "off"}, SetState(n, st)
      PROVE  /\ [bitmap[n] EXCEPT !.st = st] \in [st : {"none", "on", "off"}, bits : SUBSET Units]
             /\ bitmap' = [bitmap EXCEPT ![n] = [bitmap[n] EXCEPT !.st = st]]
  BY <1>2 DEF SetState
<1>3. ASSUME NEW b \in SUBSET Units, bitmap' = [bitmap EXCEPT ![n].bits = b]
      PROVE  /\ [bitmap[n] EXCEPT !.bits = b] \in [st : {"none", "on", "off"}, bits : SUBSET Units]
             /\ bitmap' = [bitmap EXCEPT ![n] = [bitmap[n] EXCEPT !.bits = b]]
  BY <1>3
<1>4. Empty("on") \in [st : {"none", "on", "off"}, bits : SUBSET Units]
  BY DEF Empty
<1>. QED
  BY <1>1, <1>2, <1>3, <1>4

LEMMA PayloadStep ==
  ASSUME \A j \in Keys : Payload(j, file[j]), file \in [Keys -> SUBSET Names],
         NEW k \in Keys, NEW names \in SUBSET Names, Payload(k, names)
  PROVE  LET f == [file EXCEPT ![k] = names]
         IN  /\ f \in [Keys -> SUBSET Names]
             /\ \A j \in Keys : Payload(j, f[j]) /\ f[j] \subseteq Qemus \X {j}
BY DEF Payload

\* The bitmaps a capture or a deactivate works on have names; that of the snapshot
\* is not the active one.
LEMMA SnapFacts ==
  TypeInv => /\ cap.pc # "idle" => cap.snap \in Snaps /\ cap.snap # Head
             /\ cap.snap \in Keys /\ cap.qemu \in Qemus /\ deact.qemu \in Qemus
             /\ Active \in Names /\ Frozen \in Names /\ DeactActive \in Names
             /\ Active[1] = cap.qemu /\ Frozen[1] = cap.qemu /\ DeactActive[1] = deact.qemu
             /\ Active[2] = Head /\ Frozen[2] = cap.snap /\ DeactActive[2] = Head
             /\ Found \subseteq Qemus /\ BitmapsOK
<1> SUFFICES ASSUME TypeInv
             PROVE  /\ cap.pc # "idle" => cap.snap \in Snaps /\ cap.snap # Head
                    /\ cap.snap \in Keys /\ cap.qemu \in Qemus /\ deact.qemu \in Qemus
                    /\ Active \in Names /\ Frozen \in Names /\ DeactActive \in Names
                    /\ Active[1] = cap.qemu /\ Frozen[1] = cap.qemu /\ DeactActive[1] = deact.qemu
                    /\ Active[2] = Head /\ Frozen[2] = cap.snap /\ DeactActive[2] = Head
                    /\ Found \subseteq Qemus /\ BitmapsOK
  OBVIOUS
<1>1. /\ cap.snap \in Keys /\ cap.qemu \in Qemus /\ deact.qemu \in Qemus
      /\ cap.pc # "idle" => cap.snap \in Snaps /\ cap.snap # Head
  BY KeyFacts DEF TypeInv, TypeOK
<1>2. Found \subseteq Qemus /\ BitmapsOK
  BY KeyFacts DEF TypeInv, TypeOK, Found, Matched, BitmapsOK, Bitmaps
<1>. QED
  BY <1>1, <1>2, KeyFacts, NameFacts DEF Active, Frozen, DeactActive

LEMMA TypeStep == TypeInv /\ Next => TypeInv'
<1> SUFFICES ASSUME TypeInv, Next PROVE TypeInv'
  OBVIOUS
<1>0. mode' = mode /\ gran' = gran
  BY ConfigStays DEF config
<1>t. /\ mode \in Modes /\ gran \in {1, 2} /\ BitmapsOK
      /\ taken \in Nat /\ alive \subseteq Keys /\ list \in Call
      /\ \A k \in Keys : Payload(k, file[k]) /\ file \in [Keys -> SUBSET Names]
      /\ cap \in [pc : CapPcs, snap : Keys, qemu : Qemus]
      /\ interval \in [Snaps -> [all : SUBSET Units, told : [Qemus -> SUBSET Units]]]
      /\ late \in [Snaps -> SUBSET Units]
      /\ told \in [Qemus -> SUBSET changed] /\ changed \subseteq Units
      /\ saved \in [Keys -> Owed] /\ owed \in Owed
      /\ Limit.writes \in Nat /\ Limit.snaps \in Nat /\ Limit.exits \in Nat
  <2>1. mode \in Modes /\ alive \subseteq 1..taken /\ taken \in 0..Limits[mode].snaps
    BY DEF TypeInv, TypeOK, Limit
  <2>2. alive \subseteq Keys
    BY <2>1, KeyFacts
  <2>3. Limit.writes \in Nat /\ Limit.snaps \in Nat /\ Limit.exits \in Nat
    BY <2>1, KeyFacts DEF Limit
  <2>4. BitmapsOK
    BY SnapFacts
  <2>5. taken \in Nat
    BY <2>1, <2>3 DEF Limit
  <2>. QED
    BY <2>1, <2>2, <2>3, <2>4, <2>5 DEF TypeInv, TypeOK
\* A step says what it does to each part of the state.
<1>r. ASSUME UNCHANGED <<changed, told, interval, late, alive, taken, writes>>,
             UNCHANGED <<reg, fresh, up, exits>>, BitmapsOK',
             file' \in [Keys -> SUBSET Names],
             \A k \in Keys : Payload(k, file'[k]) /\ file'[k] \subseteq Qemus \X {k},
             legacy' \in BOOLEAN, saved' \in [Keys -> Owed], owed' \in Owed, list' \in Call,
             cap' \in [pc : CapPcs, snap : Keys, qemu : Qemus],
             cap'.pc # "idle" => cap'.snap = taken /\ taken >= 1,
             deact' \in [pc : {"idle", "freeze", "export", "save"}, qemu : Qemus]
      PROVE  TypeInv'
  BY <1>0, <1>r DEF TypeInv, TypeOK, BitmapsOK, Bitmaps, Limit, Call
<1>f. /\ file \in [Keys -> SUBSET Names]
      /\ \A k \in Keys : Payload(k, file[k]) /\ file[k] \subseteq Qemus \X {k}
      /\ legacy \in BOOLEAN
      /\ deact \in [pc : {"idle", "freeze", "export", "save"}, qemu : Qemus]
      /\ cap.pc # "idle" => cap.snap = taken /\ taken >= 1
  BY DEF TypeInv, TypeOK
<1>w. ASSUME NEW u \in Units, Wrote(u), BitmapsOK', told' \in [Qemus -> SUBSET changed']
      PROVE  TypeInv'
  <2>1. late' \in [Snaps -> SUBSET Units]
    BY <1>t, <1>w, SnapFacts DEF Wrote
  <2>2. changed' \subseteq Units /\ writes' \in 0..Limit'.writes
    BY <1>0, <1>t, <1>w DEF Wrote, TypeInv, TypeOK, Limit
  <2>3. UNCHANGED <<reg, fresh, up, exits, exported, file, legacy, interval, alive, taken, saved,
                    owed, cap, deact, list>>
    BY <1>w DEF Wrote, ledger
  <2>. QED
    BY <1>0, <1>w, <2>1, <2>2, <2>3 DEF TypeInv, TypeOK, BitmapsOK, Bitmaps, Limit
<1>1. ASSUME NEW u \in Units, NEW q \in up, Write(u, q) PROVE TypeInv'
  <2>1. BitmapsOK'
    <3>1. \A n \in Names : bitmap[n].st = "on" =>
            [bitmap[n] EXCEPT !.bits = @ \cup Block(u)]
               \in [st : {"none", "on", "off"}, bits : SUBSET Units]
      BY <1>t, BlockUnits DEF BitmapsOK, Bitmaps
    <3>2. UNCHANGED <<up, exported>>
      BY <1>1 DEF Write, Wrote
    <3>3. bitmap' = [n \in Names |-> IF n[1] = q /\ bitmap[n].st = "on"
                                     THEN [bitmap[n] EXCEPT !.bits = @ \cup Block(u)]
                                     ELSE bitmap[n]]
      BY <1>1 DEF Write
    <3>. QED
      BY <1>t, <3>1, <3>2, <3>3 DEF BitmapsOK, Bitmaps, None
  <2>2. told' \in [Qemus -> SUBSET changed']
    <3>1. changed' = changed \cup {u} /\ q \in Qemus
      BY <1>t, <1>1 DEF Write, Wrote, BitmapsOK
    <3>2. told' = [told EXCEPT ![q] = @ \cup {u}] \/ told' = told
      BY <1>1 DEF Write
    <3>. QED
      BY <1>t, <3>1, <3>2
  <2>. QED
    BY <1>1, <1>w, <2>1, <2>2 DEF Write
<1>2. ASSUME NEW u \in Units, WriteDirect(u) PROVE TypeInv'
  <2>1. BitmapsOK' /\ told' \in [Qemus -> SUBSET changed']
    BY <1>t, <1>2 DEF WriteDirect, Wrote, BitmapsOK
  <2>. QED
    BY <1>2, <1>w, <2>1 DEF WriteDirect
<1>3. ASSUME NEW q \in up, Ended(q), reg' \in BOOLEAN, Daemon \in up' => reg' PROVE TypeInv'
  <2>0. q \in Qemus
    BY <1>t DEF BitmapsOK
  <2>1. list' \in Call
    <3>1. ListFetchFails => list' \in Call
      BY <1>t, ListTyped DEF BitmapsOK
    <3>. QED
      BY <1>t, <1>3, <3>1 DEF Ended
  <2>2. BitmapsOK'
    BY <1>t, <1>3 DEF BitmapsOK, Bitmaps, Ended, None
  <2>3. saved' \in [Keys -> Owed] /\ owed' \in Owed
    <3>1. /\ \A k \in Keys : [saved[k] EXCEPT !.live = {}] \in Owed
          /\ [owed EXCEPT !.live = {}] \in Owed
      BY <1>t DEF Owed
    <3>. QED
      BY <1>t, <1>3, <3>1 DEF Ended
  <2>4. interval' \in [Snaps -> [all : SUBSET Units, told : [Qemus -> SUBSET Units]]]
    <3>1. \A s \in Snaps : [interval[s] EXCEPT !.told = [@ EXCEPT ![q] = {}]]
                             \in [all : SUBSET Units, told : [Qemus -> SUBSET Units]]
      BY <1>t
    <3>. QED
      BY <1>3, <3>1 DEF Ended
  <2>5. told' \in [Qemus -> SUBSET changed'] /\ changed' = changed
    <3>1. told' = [told EXCEPT ![q] = {}] /\ changed' = changed
      BY <1>3 DEF Ended
    <3>. QED
      BY <1>t, <3>1
  <2>6. exits' \in 0..Limit'.exits /\ exits' \in Nat
    BY <1>0, <1>t, <1>3 DEF Ended, Limit, TypeInv
  <2>7. /\ up' = up \ {q}
        /\ UNCHANGED <<fresh, file, legacy, late, alive, taken, writes, cap, deact>>
    BY <1>3 DEF Ended
  <2>8. list'.got \subseteq Extent /\ list'.all \subseteq Extent
    BY <2>1 DEF Call
  <2>. QED
    BY <1>0, <1>3, <2>1, <2>2, <2>3, <2>4, <2>5, <2>6, <2>7, <2>8
    DEF TypeInv, TypeOK, BitmapsOK, Bitmaps, Limit
<1>4. ASSUME up' \subseteq Qemus \ fresh', up \subseteq up', fresh' \subseteq fresh,
             \A d, e \in up' \ {Daemon} : d = e, reg' \in BOOLEAN, Daemon \in up' => reg',
             UNCHANGED <<exits, bitmap, exported, file, legacy, disk, ledger, cap, deact, list>>
      PROVE  TypeInv'
  BY <1>0, <1>4 DEF TypeInv, TypeOK, Limit, disk, ledger
<1>5. CASE Lifecycle
  <2>1. ASSUME NEW q \in up, Exit(q) PROVE TypeInv'
    BY <1>3, <2>1 DEF Exit, Ended, TypeInv, TypeOK
  <2>2. ASSUME NEW d \in fresh, Boot(d) PROVE TypeInv'
    <3>1. /\ up' = up \cup {d} /\ fresh' = fresh \ {d} /\ reg' = reg /\ up \subseteq {Daemon}
          /\ UNCHANGED <<exits, bitmap, exported, file, legacy, disk, ledger, cap, deact, list>>
      BY <2>2 DEF Boot
    <3>2. d \in Domains /\ d # Daemon /\ d \in Qemus
      BY KeyFacts, CbtAssumption DEF TypeInv, TypeOK
    <3>. QED
      BY <1>4, <3>1, <3>2 DEF TypeInv, TypeOK
  <2>3. CASE Attach
    <3>1. Daemon \in Qemus \ fresh
      BY KeyFacts, CbtAssumption DEF TypeInv, TypeOK
    <3>. QED
      BY <1>4, <2>3, <3>1 DEF Attach, TypeInv, TypeOK
  <2>4. CASE Collect
    BY <1>4, <2>4 DEF Collect, TypeInv, TypeOK
  <2>5. CASE Detach
    <3>1. Daemon \in up /\ Ended(Daemon) /\ reg' = FALSE /\ up' = {}
      BY <2>5 DEF Detach, Ended
    <3>. QED
      BY <1>3, <3>1
  <2>. QED
    BY <1>5, <2>1, <2>2, <2>3, <2>4, <2>5 DEF Lifecycle
<1>6. CASE TakeSnapshot
  <2>1. taken + 1 \in Snaps /\ taken + 1 \in Keys /\ taken + 1 \in 0..Limit'.snaps
    <3>1. taken < Limits[mode].snaps /\ Limits[mode].snaps \in Nat
      BY <1>t, <1>6, KeyFacts DEF TakeSnapshot, Limit
    <3>2. taken + 1 \in 1..Limits[mode].snaps
      BY <1>t, <3>1
    <3>. QED
      BY <1>0, <1>t, <3>1, <3>2, KeyFacts DEF Limit
  <2>2. /\ taken' = taken + 1 /\ alive' = alive \cup {taken + 1}
        /\ interval' = [interval EXCEPT ![taken + 1] = [all |-> changed, told |-> told]]
        /\ cap' = [pc |-> "find", snap |-> taken + 1, qemu |-> Daemon]
        /\ changed' = {} /\ told' = [q \in Qemus |-> {}]
        /\ UNCHANGED <<reg, fresh, up, exits, bitmap, exported, file, legacy, writes, late, saved,
                       owed, deact, list>>
    BY <1>6 DEF TakeSnapshot, qemu, ledger
  <2>3. alive' \subseteq 1..taken'
    <3>1. alive \subseteq 1..taken
      BY DEF TypeInv, TypeOK
    <3>. QED
      BY <1>t, <2>2, <3>1
  <2>4. told \in [Qemus -> SUBSET Units]
    BY <1>t
  <2>5. [all |-> changed, told |-> told] \in [all : SUBSET Units, told : [Qemus -> SUBSET Units]]
    BY <1>t, <2>4
  <2>6. cap' \in [pc : CapPcs, snap : Keys, qemu : Qemus] /\ cap'.snap = taken'
    BY <2>1, <2>2, KeyFacts DEF CapPcs
  <2>7. interval' \in [Snaps -> [all : SUBSET Units, told : [Qemus -> SUBSET Units]]]
    BY <1>t, <2>1, <2>2, <2>5
  <2>8. taken' \in 0..Limit'.snaps /\ taken' >= 1 /\ writes' \in 0..Limit'.writes
    BY <1>0, <1>t, <2>1, <2>2 DEF TypeInv, TypeOK, Limit
  <2>9. exits' \in 0..Limit'.exits
    BY <1>0, <2>2 DEF TypeInv, TypeOK, Limit
  <2>. QED
    BY <1>0, <2>2, <2>3, <2>6, <2>7, <2>8, <2>9 DEF TypeInv, TypeOK
<1>7. CASE Capture
  <2>0. /\ ~CapSave => file' = file /\ saved' = saved
        /\ UNCHANGED <<reg, fresh, up, exits, legacy, changed, told, interval, late, alive, taken,
                       writes, owed, deact, list>>
    BY <1>7 DEF Capture, CapRest, CapFind, CapDisable, CapAdd, CapMerge, CapClear, CapEnable,
                CapFreeze, CapExport, CapSave, CapFails, disk, ledger, qemu
  <2>1. /\ cap' \in [pc : CapPcs, snap : Keys, qemu : Qemus]
        /\ cap'.pc # "idle" => cap'.snap = taken /\ taken >= 1
    <3>1. CASE CapFind
      <4>1. cap' = CapIdle \/ \E q \in Found : cap' = [cap EXCEPT !.pc = "disable", !.qemu = q]
        BY <3>1 DEF CapFind
      <4>2. CapIdle \in [pc : CapPcs, snap : Keys, qemu : Qemus] /\ CapIdle.pc = "idle"
        BY KeyFacts DEF CapIdle, CapPcs
      <4>3. ASSUME NEW q \in Qemus
            PROVE  /\ [cap EXCEPT !.pc = "disable", !.qemu = q]
                        \in [pc : CapPcs, snap : Keys, qemu : Qemus]
                   /\ [cap EXCEPT !.pc = "disable", !.qemu = q].snap = cap.snap
        BY <1>t DEF CapPcs
      <4>4. Found \subseteq Qemus /\ cap.pc = "find"
        BY <3>1, SnapFacts DEF CapFind
      <4>. QED
        BY <1>f, <4>1, <4>2, <4>3, <4>4
    <3>2. CASE CapSave \/ CapFails
      BY <1>t, <3>2, KeyFacts DEF CapSave, CapFails, CapIdle, CapPcs
    <3>3. CASE ~CapFind /\ ~CapSave /\ ~CapFails
      <4>1. cap.pc # "idle" /\ \E pc \in CapPcs : cap' = [cap EXCEPT !.pc = pc]
        BY <1>7, <3>3 DEF Capture, CapDisable, CapAdd, CapMerge, CapClear, CapEnable, CapFreeze,
                          CapExport, CapGoto, CapPcs
      <4>. QED
        BY <1>t, <1>f, <4>1
    <3>. QED
      BY <3>1, <3>2, <3>3
  <2>2. BitmapsOK'
    <3> USE <1>t, SnapFacts
    <3>1. CASE CapFind \/ CapSave \/ CapFails
      <4>1. UNCHANGED <<up, bitmap, exported>>
        BY <3>1 DEF CapFind, CapSave, CapFails, CapRest, qemu
      <4>. QED
        BY <4>1 DEF BitmapsOK
    <3>2. CASE CapDisable
      BY <3>2, BitmapStep DEF CapDisable, CapRest, Usable
    <3>3. CASE CapAdd
      <4>1. Frozen \notin exported
        BY <3>3 DEF CapAdd, BitmapsOK
      <4>. QED
        BY <3>3, <4>1, BitmapStep DEF CapAdd, CapRest
    <3>4. CASE CapMerge
      <4>1. bitmap[Frozen].bits \cup bitmap[Active].bits \in SUBSET Units
        BY DEF BitmapsOK, Bitmaps
      <4>2. bitmap' = [bitmap EXCEPT ![Frozen].bits = bitmap[Frozen].bits \cup bitmap[Active].bits]
        BY <3>4 DEF CapMerge
      <4>3. Frozen[1] \in up /\ Frozen \notin exported /\ UNCHANGED <<up, exported>>
        BY <3>4 DEF CapMerge, CapRest, Usable
      <4>. QED
        BY <4>1, <4>2, <4>3, BitmapStep
    <3>5. CASE CapClear
      <4>1. {} \in SUBSET Units /\ bitmap' = [bitmap EXCEPT ![Active].bits = {}]
        BY <3>5 DEF CapClear
      <4>. QED
        BY <3>5, <4>1, BitmapStep DEF CapClear, CapRest, Usable
    <3>6. CASE CapEnable
      BY <3>6, BitmapStep DEF CapEnable, CapRest, Usable
    <3>7. CASE CapFreeze
      BY <3>7, BitmapStep DEF CapFreeze, CapRest, Usable
    <3>8. CASE CapExport
      BY <3>8 DEF CapExport, CapRest, Exportable, Usable, BitmapsOK
    <3>. QED
      BY <1>7, <3>1, <3>2, <3>3, <3>4, <3>5, <3>6, <3>7, <3>8 DEF Capture
  <2>3. /\ file' \in [Keys -> SUBSET Names]
        /\ \A k \in Keys : Payload(k, file'[k]) /\ file'[k] \subseteq Qemus \X {k}
        /\ saved' \in [Keys -> Owed]
    <3>1. CASE CapSave
      <4>1. {Frozen} \in SUBSET Names /\ Payload(cap.snap, {Frozen}) /\ cap.snap \in Keys
        BY SnapFacts DEF Payload, Frozen
      <4>2. file' = [file EXCEPT ![cap.snap] = {Frozen}]
        BY <3>1 DEF CapSave, WritePayload
      <4>3. saved' \in [Keys -> Owed]
        <5>1. cap.snap \in Snaps
          BY <3>1, SnapFacts DEF CapSave
        <5>2. interval[cap.snap].told[cap.qemu] \in SUBSET Units
          BY <1>t, <5>1, SnapFacts
        <5>. QED
          BY <1>t, <3>1, <4>1, <5>2 DEF CapSave, Save, Owed
      <4>. QED
        BY <1>f, <4>1, <4>2, <4>3, PayloadStep
    <3>2. CASE ~CapSave
      BY <1>t, <1>f, <2>0, <3>2
    <3>. QED
      BY <3>1, <3>2
  <2>4. legacy' \in BOOLEAN /\ owed' \in Owed /\ list' \in Call
        /\ deact' \in [pc : {"idle", "freeze", "export", "save"}, qemu : Qemus]
    BY <1>t, <1>f, <2>0
  <2>. QED
    BY <1>r, <2>0, <2>1, <2>2, <2>3, <2>4
<1>8. ASSUME NEW s \in Snaps, DestroySnapshot(s) PROVE TypeInv'
  <2>1. /\ file' \in [Keys -> SUBSET Names]
        /\ \A k \in Keys : Payload(k, file'[k]) /\ file'[k] \subseteq Qemus \X {k}
    <3>1. s \in Keys /\ {} \in SUBSET Names /\ Payload(s, {}) /\ file' = [file EXCEPT ![s] = {}]
      BY <1>8, KeyFacts DEF DestroySnapshot, RemovePayload, WritePayload, Payload
    <3>. QED
      BY <1>f, <3>1, PayloadStep
  <2>2. alive' \subseteq alive
    BY <1>8 DEF DestroySnapshot
  <2>3. UNCHANGED <<reg, fresh, up, exits, bitmap, exported, legacy, changed, told, interval, late,
                    taken, writes, saved, owed, cap, deact, list>>
    BY <1>8 DEF DestroySnapshot, qemu, ledger
  <2>. QED
    BY <1>0, <1>f, <2>1, <2>2, <2>3 DEF TypeInv, TypeOK, Limit
<1>9. CASE Datapath
  <2>0. UNCHANGED <<reg, fresh, up, exits, changed, told, interval, late, alive, taken, writes, owed,
                    cap, list>>
    BY <1>9 DEF Datapath, Activate, Deactivate, DeactFreeze, DeactExport, DeactSave, DeactFails,
                DeactRest, disk, ledger
  <2>1. /\ Migrated \in [Keys -> SUBSET Names]
        /\ \A k \in Keys : Payload(k, Migrated[k]) /\ Migrated[k] \subseteq Qemus \X {k}
    <3>1. {<<Daemon, Head>>} \in SUBSET Names /\ Payload(Head, {<<Daemon, Head>>}) /\ Head \in Keys
      BY KeyFacts, NameFacts DEF Payload
    <3>2. CASE Migrated = file
      BY <1>f, <3>2
    <3>3. CASE Migrated = [file EXCEPT ![Head] = {<<Daemon, Head>>}]
      BY <1>f, <3>1, <3>3, PayloadStep
    <3>. QED
      BY <3>2, <3>3 DEF Migrated
  <2>2. /\ file' \in [Keys -> SUBSET Names]
        /\ \A k \in Keys : Payload(k, file'[k]) /\ file'[k] \subseteq Qemus \X {k}
        /\ saved' \in [Keys -> Owed] /\ legacy' \in BOOLEAN
    <3>1. CASE Activate \/ Deactivate
      BY <1>t, <2>1, <3>1 DEF Activate, Deactivate, DeactRest, ledger
    <3>2. CASE DeactSave
      <4>1. {DeactActive} \in SUBSET Names /\ Payload(Head, {DeactActive}) /\ Head \in Keys
        BY SnapFacts, KeyFacts DEF Payload, DeactActive
      <4>2. file' = [file EXCEPT ![Head] = {DeactActive}] /\ legacy' = legacy
        BY <3>2 DEF DeactSave, WritePayload
      <4>3. saved' \in [Keys -> Owed]
        <5>1. told[deact.qemu] \in SUBSET Units
          BY <1>t, SnapFacts
        <5>. QED
          BY <1>t, <3>2, <4>1, <5>1 DEF DeactSave, Save, Owed
      <4>. QED
        BY <1>f, <4>1, <4>2, <4>3, PayloadStep
    <3>3. CASE DeactFreeze \/ DeactExport \/ DeactFails
      BY <1>t, <1>f, <3>3 DEF DeactFreeze, DeactExport, DeactFails
    <3>. QED
      BY <1>9, <3>1, <3>2, <3>3 DEF Datapath
  <2>3. deact' \in [pc : {"idle", "freeze", "export", "save"}, qemu : Qemus]
    <3>1. CASE Deactivate
      BY <3>1, SnapFacts DEF Deactivate
    <3>2. CASE ~Deactivate
      <4>1. deact' = deact \/ deact' = DeactIdle \/ \E pc \in {"export", "save"} : DeactGoto(pc)
        BY <1>9, <3>2 DEF Datapath, Activate, DeactFreeze, DeactExport, DeactSave, DeactFails
      <4>. QED
        BY <1>f, <4>1, KeyFacts DEF DeactGoto, DeactIdle
    <3>. QED
      BY <3>1, <3>2
  <2>4. BitmapsOK'
    <3> USE <1>t, SnapFacts
    <3>1. CASE Deactivate \/ DeactSave \/ DeactFails
      BY <2>0, <3>1 DEF Deactivate, DeactSave, DeactFails, BitmapsOK
    <3>2. CASE DeactFreeze
      BY <2>0, <3>2, BitmapStep DEF DeactFreeze, Usable
    <3>3. CASE DeactExport
      BY <2>0, <3>3 DEF DeactExport, Exportable, Usable, BitmapsOK
    <3>4. CASE Activate
      <4>1. PICK q \in Found : bitmap' = bitmap \/ bitmap' = Prepared(q)
        BY <3>4 DEF Activate
      <4>2. exported' = exported
        BY <3>4 DEF Activate
      <4>3. CASE bitmap' = bitmap
        BY <2>0, <4>2, <4>3 DEF BitmapsOK
      <4>4. CASE bitmap' # bitmap
        <5>1. /\ <<q, Head>> \in Names /\ q \in up /\ bitmap[<<q, Head>>].st = "none"
              /\ bitmap' = [bitmap EXCEPT ![<<q, Head>>] = Empty("on")]
          BY <4>1, <4>4, KeyFacts, NameFacts DEF Prepared, BitmapsOK
        <5>2. <<q, Head>> \notin exported /\ <<q, Head>>[1] = q
          BY <5>1 DEF BitmapsOK
        <5>. QED
          BY <2>0, <4>2, <5>1, <5>2, BitmapStep
      <4>. QED
        BY <4>3, <4>4
    <3>. QED
      BY <1>9, <3>1, <3>2, <3>3, <3>4 DEF Datapath
  <2>5. /\ cap' \in [pc : CapPcs, snap : Keys, qemu : Qemus]
        /\ cap'.pc # "idle" => cap'.snap = taken /\ taken >= 1
        /\ owed' \in Owed /\ list' \in Call
    BY <1>t, <1>f, <2>0
  <2>. QED
    BY <1>r, <2>0, <2>2, <2>3, <2>4, <2>5
<1>10. CASE List
  <2>1. list' \in Call
    BY <1>t, <1>10, ListTyped DEF BitmapsOK
  <2>2. owed' \in Owed
    <3>1. Nothing \in Owed /\ \A k \in Keys : saved[k] \in Owed
      BY <1>t DEF Nothing, Owed
    <3>2. owed' = owed \/ owed' = Nothing \/ \E k \in {Head} \cup alive : owed' = saved[k]
      BY <1>10 DEF List, Listing, ListReturns
    <3>. QED
      BY <1>t, <3>1, <3>2, KeyFacts
  <2>3. UNCHANGED <<reg, fresh, up, exits, bitmap, exported, file, legacy, changed, told, interval,
                    late, alive, taken, writes, saved, cap, deact>>
    BY <1>10 DEF List, ListRest, qemu, disk
  <2>4. BitmapsOK'
    BY <1>t, <2>3 DEF BitmapsOK
  <2>. QED
    BY <1>r, <1>t, <1>f, <2>1, <2>2, <2>3, <2>4
<1>. QED
  BY <1>1, <1>2, <1>5, <1>6, <1>7, <1>8, <1>9, <1>10 DEF Next

LEMMA TypeInit == Init => TypeInv
<1> SUFFICES ASSUME Init PROVE TypeInv
  OBVIOUS
<1> USE KeyFacts, IdleCall
<1>1. mode \in Modes /\ gran \in {1, 2} /\ legacy \in BOOLEAN
  <2>1. mode \in Modes /\ gran \in Limits[mode].grans /\ legacy \in BOOLEAN
    BY DEF Init, Limit
  <2>. QED
    BY <2>1, CbtAssumption
<1>2. PICK s \in Limits[mode].starts :
         /\ up = s[1] /\ reg = (Daemon \in up) /\ fresh = Domains \ up
         /\ bitmap = [n \in Names |-> IF n[1] \in s[2] /\ n[2] = Head THEN Empty("on") ELSE None]
  BY DEF Init, Limit
<1>3. /\ up \subseteq Qemus \ fresh /\ fresh \subseteq Domains /\ reg \in BOOLEAN
      /\ Daemon \in up => reg
      /\ \A d, e \in up \ {Daemon} : d = e
      /\ bitmap \in Bitmaps /\ \A n \in Names : n[1] \notin up => bitmap[n] = None
  <2>1. /\ s[2] \subseteq s[1] /\ s[1] \subseteq {Daemon} \cup Domains
        /\ \A d, e \in s[1] \ {Daemon} : d = e
    BY <1>1, <1>2, CbtAssumption
  <2>2. /\ up \subseteq Qemus \ fresh /\ fresh \subseteq Domains /\ reg \in BOOLEAN
        /\ Daemon \in up => reg
    <3>1. up \subseteq {Daemon} \cup Domains
      BY <1>2, <2>1
    <3>2. up \subseteq Qemus \ fresh /\ fresh \subseteq Domains
      BY <1>2, <3>1, CbtAssumption
    <3>3. reg = (Daemon \in up)
      BY <1>2
    <3>4. reg \in BOOLEAN
      <4>1. (Daemon \in up) \in BOOLEAN
        OBVIOUS
      <4>. QED
        BY <3>3, <4>1
    <3>5. ASSUME Daemon \in up PROVE reg
      <4>1. reg = TRUE
        BY <3>3, <3>5
      <4>. QED
        BY <4>1
    <3>. QED
      BY <3>2, <3>4, <3>5
  <2>3. \A d, e \in up \ {Daemon} : d = e
    BY <1>2, <2>1
  <2>4. /\ Empty("on") \in [st : {"none", "on", "off"}, bits : SUBSET Units]
        /\ None \in [st : {"none", "on", "off"}, bits : SUBSET Units]
    BY DEF Empty, None
  <2>5. bitmap \in Bitmaps
    BY <1>2, <2>4 DEF Bitmaps
  <2>6. \A n \in Names : n[1] \notin up => bitmap[n] = None
    BY <1>2, <2>1
  <2>. QED
    BY <2>2, <2>3, <2>5, <2>6
<1>4. list \in Call /\ list.got = {} /\ list.all = {}
  BY DEF Init, Idle
<1>5. /\ told \in [Qemus -> SUBSET changed] /\ changed \subseteq Units
      /\ interval \in [Snaps -> [all : SUBSET Units, told : [Qemus -> SUBSET Units]]]
      /\ late \in [Snaps -> SUBSET Units]
  BY DEF Init
<1>6. saved \in [Keys -> Owed] /\ owed \in Owed
  BY DEF Init, Nothing, Owed
<1>7. /\ file \in [Keys -> SUBSET Names]
      /\ \A k \in Keys : Payload(k, file[k]) /\ file[k] \subseteq Qemus \X {k}
  BY DEF Init, Payload
<1>8. /\ cap \in [pc : CapPcs, snap : Keys, qemu : Qemus] /\ cap.pc = "idle"
      /\ deact \in [pc : {"idle", "freeze", "export", "save"}, qemu : Qemus]
  BY DEF Init, CapIdle, DeactIdle, CapPcs
<1>9. /\ exits \in Nat /\ exits \in 0..Limit.exits /\ exported = {}
      /\ alive \subseteq 1..taken /\ taken \in 0..Limit.snaps /\ writes \in 0..Limit.writes
  BY <1>1 DEF Init, Limit
<1>. QED
  BY <1>1, <1>3, <1>4, <1>5, <1>6, <1>7, <1>8, <1>9 DEF TypeInv, TypeOK, Bitmaps


-----------------------------------------------------------------------------
(* The bitmaps.                                                            *)

\* The steps that leave the QEMUs and their bitmaps alone.
Apart ==
    \/ \E u \in Units : WriteDirect(u)
    \/ CapFind \/ CapSave \/ CapFails \/ \E s \in Snaps : DestroySnapshot(s)
    \/ Deactivate \/ DeactSave \/ DeactFails \/ List

LEMMA ApartFrame == Apart => UNCHANGED <<config, qemu, taken>>
BY DEF Apart, config, qemu, WriteDirect, Wrote, CapRest, CapFind, CapSave, CapFails,
       DestroySnapshot, DeactRest, Deactivate, DeactSave, DeactFails, List, ListRest, disk

\* The steps that begin or end a QEMU.
Ends == \E q \in up : Ended(q)

LEMMA LifecycleSteps ==
  Lifecycle => Ends \/ (mode = "restarts" /\ UNCHANGED <<config, exits, bitmap, exported, file, disk,
                                                         ledger, cap, deact, list>>)
                    \/ Collect
BY DEF Lifecycle, Ends, Exit, Detach, Boot, Attach

\* What a write does to the bitmaps.
LEMMA WriteFacts ==
  ASSUME BitmapsOK, NEW u \in Units, NEW q \in up, Write(u, q)
  PROVE  /\ \A n \in Names :
              /\ bitmap'[n].st = bitmap[n].st
              /\ bitmap'[n].bits = IF n[1] = q /\ bitmap[n].st = "on"
                                   THEN bitmap[n].bits \cup Block(u) ELSE bitmap[n].bits
              /\ bitmap[n].st # "on" => bitmap'[n] = bitmap[n]
         /\ UNCHANGED <<config, reg, up, exits, exported, file, interval, taken, saved, owed, cap,
                        deact, list>>
BY DEF Write, Wrote, BitmapsOK, Bitmaps, ledger

LEMMA QemuStep == TypeInv /\ QemuInv /\ Next => QemuInv'
<1> SUFFICES ASSUME TypeInv, QemuInv, Next PROVE QemuInv'
  OBVIOUS
<1>0. /\ bitmap \in Bitmaps /\ Head \in Keys /\ Keys \subseteq Nat /\ taken \in Nat /\ Head = 0
      /\ \A n \in exported : n \in Names /\ bitmap[n].st = "off"
      /\ \A n \in Names : n[2] \in Nat
      /\ mode' = mode
      /\ BitmapsOK /\ Active \in Names /\ Frozen \in Names /\ DeactActive \in Names
      /\ cap.pc # "idle" => cap.snap = taken
      /\ Active[2] = Head /\ Frozen[2] = cap.snap
  <2>1. BitmapsOK /\ Keys \subseteq Nat /\ \A n \in Names : n[2] \in Keys
    BY KeyFacts, NameFacts, SnapFacts
  <2>2. taken \in Nat
    <3>1. mode \in Modes /\ taken \in 0..Limits[mode].snaps /\ Limits[mode].snaps \in Nat
      BY KeyFacts DEF TypeInv, TypeOK, Limit
    <3>. QED
      BY <3>1
  <2>3. mode' = mode
    BY ConfigStays DEF config
  <2>. QED
    BY <2>1, <2>2, <2>3, KeyFacts, SnapFacts DEF TypeInv, BitmapsOK
<1>h. /\ \A n \in Names : bitmap[n].st = "none" => bitmap[n].bits = {}
      /\ \A n \in Names : n[2] > taken => bitmap[n].st = "none"
      /\ mode # "restarts" => /\ reg => Daemon \in up
                              /\ deact.pc = "idle"
                              /\ \A q \in Qemus : <<q, Head>> \notin exported
      /\ deact.pc = "save" => DeactActive \in exported \/ bitmap[DeactActive].st = "none"
  BY DEF QemuInv
\* Commands of a capture change bitmaps of snapshots taken and active ones only.
<1>c. ASSUME UNCHANGED <<reg, up, deact, taken>>,
             \A n \in Names : bitmap'[n].st = "none" => bitmap[n].st = "none",
             \A n \in Names : bitmap'[n].st = "none" => bitmap'[n].bits = {},
             \A n \in Names : n[2] > taken => bitmap'[n].st = bitmap[n].st,
             mode = "restarts" \/ \A q \in Qemus : <<q, Head>> \notin exported',
             deact.pc = "save" => DeactActive \in exported' \/ bitmap'[DeactActive].st = "none"
      PROVE  QemuInv'
  BY <1>0, <1>h, <1>c DEF QemuInv, DeactActive
<1>1. ASSUME NEW u \in Units, NEW q \in up, Write(u, q) PROVE QemuInv'
  <2>1. /\ \A n \in Names : /\ bitmap'[n].st = bitmap[n].st
                            /\ bitmap[n].st = "none" => bitmap'[n].bits = bitmap[n].bits
        /\ UNCHANGED <<reg, up, deact, taken, exported>>
    BY <1>0, <1>1, WriteFacts
  <2>. QED
    BY <1>0, <1>h, <1>c, <2>1
<1>2. CASE Apart
  <2>1. UNCHANGED <<reg, up, bitmap, exported, taken>>
    BY <1>2, ApartFrame DEF qemu
  <2>2. CASE deact' = deact
    BY <1>h, <1>c, <2>1, <2>2
  <2>3. CASE deact' # deact
    <3>1. Deactivate \/ DeactSave \/ DeactFails
      BY <1>2, <2>3 DEF Apart, WriteDirect, Wrote, CapFind, CapSave, CapFails, CapRest, DestroySnapshot,
                        List, ListRest
    <3>2. mode = "restarts" /\ deact'.pc \in {"idle", "freeze"}
      BY <1>h, <3>1 DEF Deactivate, DeactSave, DeactFails, DeactIdle
    <3>. QED
      BY <1>0, <1>h, <2>1, <3>2 DEF QemuInv
  <2>. QED
    BY <2>2, <2>3
<1>3. CASE Ends
  <2>1. PICK q \in up : Ended(q)
    BY <1>3 DEF Ends
  <2>2. /\ mode = "restarts" /\ taken' = taken /\ deact' = deact
        /\ \A n \in Names : bitmap'[n] = IF n[1] = q THEN None ELSE bitmap[n]
        /\ exported' = {n \in exported : n[1] # q}
    BY <2>1 DEF Ended
  <2>3. deact.pc = "save" => DeactActive' \in exported' \/ bitmap'[DeactActive'].st = "none"
    BY <1>0, <1>h, <2>2 DEF DeactActive, None
  <2>. QED
    BY <1>0, <1>h, <2>2, <2>3 DEF QemuInv, None
<1>4. CASE Lifecycle /\ ~Ends
  <2>1. /\ mode = "restarts" \/ (reg /\ Daemon \notin up)
        /\ UNCHANGED <<bitmap, exported, deact, taken>>
    BY <1>4, LifecycleSteps DEF Collect, disk
  <2>2. mode = "restarts"
    BY <1>h, <2>1
  <2>. QED
    BY <1>0, <1>h, <2>1, <2>2 DEF QemuInv, DeactActive
<1>5. CASE TakeSnapshot
  <2>1. UNCHANGED <<reg, up, bitmap, exported, deact>> /\ taken' = taken + 1
    BY <1>5 DEF TakeSnapshot, qemu
  <2>. QED
    BY <1>0, <1>h, <2>1 DEF QemuInv, DeactActive
<1>6. CASE CapDisable \/ CapAdd \/ CapMerge \/ CapClear \/ CapEnable \/ CapFreeze
  <2>1. UNCHANGED <<reg, up, deact, taken, exported>>
    BY <1>6 DEF CapDisable, CapAdd, CapMerge, CapClear, CapEnable, CapFreeze, CapRest, disk
  <2>2. cap.pc # "idle" /\ Frozen[2] <= taken /\ Active[2] <= taken
    BY <1>0, <1>6 DEF CapDisable, CapAdd, CapMerge, CapClear, CapEnable, CapFreeze
  <2>3. /\ \A n \in Names : n # Active /\ n # Frozen => bitmap'[n] = bitmap[n]
        /\ bitmap'[Active].st # "none" \/ bitmap'[Active] = bitmap[Active]
        /\ bitmap'[Frozen].st # "none" \/ bitmap'[Frozen] = bitmap[Frozen]
    <3>1. CASE CapDisable
      BY <1>0, <3>1 DEF CapDisable, SetState, Bitmaps
    <3>2. CASE CapAdd
      BY <1>0, <3>2 DEF CapAdd, Empty, Bitmaps
    <3>3. CASE CapMerge
      BY <1>0, <3>3 DEF CapMerge, Usable, Bitmaps
    <3>4. CASE CapClear
      BY <1>0, <3>4 DEF CapClear, Usable, Bitmaps
    <3>5. CASE CapEnable
      BY <1>0, <3>5 DEF CapEnable, SetState, Bitmaps
    <3>6. CASE CapFreeze
      BY <1>0, <3>6 DEF CapFreeze, SetState, Bitmaps
    <3>. QED
      BY <1>6, <3>1, <3>2, <3>3, <3>4, <3>5, <3>6
  <2>4. \A n \in Names : bitmap[n].st = "none" \/ bitmap'[n].st # "none"
    BY <1>0, <1>6 DEF CapDisable, CapAdd, CapMerge, CapClear, CapEnable, CapFreeze, SetState,
                      Usable, Empty, Bitmaps
  <2>5. deact.pc = "save" => DeactActive \in exported' \/ bitmap'[DeactActive].st = "none"
    <3>1. bitmap[DeactActive].st = "none" => bitmap'[DeactActive].st = "none"
      BY <1>0, <1>6, SnapFacts DEF CapDisable, CapAdd, CapMerge, CapClear, CapEnable, CapFreeze,
                      SetState, Usable, Empty, Bitmaps
    <3>. QED
      BY <1>h, <2>1, <3>1
  <2>6. \A n \in Names : bitmap'[n].st = "none" => bitmap'[n].bits = {}
    BY <1>h, <2>3
  <2>7. \A n \in Names : n[2] > taken => bitmap'[n].st = bitmap[n].st
    <3>1. \A n \in Names : n[2] > taken => n # Active /\ n # Frozen
      BY <1>0, <2>2
    <3>. QED
      BY <2>3, <3>1
  <2>. QED
    BY <1>h, <1>c, <2>1, <2>4, <2>5, <2>6, <2>7
<1>7. CASE CapExport
  <2>1. UNCHANGED <<reg, up, deact, taken, bitmap>> /\ exported' = exported \cup {Frozen}
    BY <1>7 DEF CapExport, CapRest, disk
  <2>2. \A q \in Qemus : <<q, Head>> # Frozen
    BY <1>7, SnapFacts, KeyFacts, NameFacts DEF CapExport, Frozen
  <2>. QED
    BY <1>h, <1>c, <2>1, <2>2
<1>8. CASE Activate \/ DeactFreeze \/ DeactExport
  <2>1. mode = "restarts"
    BY <1>8, <1>h DEF Activate, DeactFreeze, DeactExport
  <2>2. UNCHANGED <<reg, up, taken>>
    BY <1>8 DEF Activate, DeactFreeze, DeactExport, DeactRest, disk
  <2>3. CASE Activate
    <3>1. PICK q \in Found : bitmap' = bitmap \/ bitmap' = Prepared(q)
      BY <2>3 DEF Activate
    <3>2. <<q, Head>> \in Names /\ <<q, Head>>[2] = Head
      BY SnapFacts, NameFacts, KeyFacts
    <3>3. \A n \in Names : bitmap'[n] = bitmap[n] \/ (n = <<q, Head>> /\ bitmap'[n] = Empty("on"))
      BY <1>0, <3>1, <3>2 DEF Prepared, Bitmaps
    <3>4. UNCHANGED <<exported, deact>> /\ deact.pc = "idle"
      BY <2>3 DEF Activate
    <3>5. ~(Head > taken)
      BY <1>0
    <3>. QED
      BY <1>0, <1>h, <2>1, <2>2, <3>2, <3>3, <3>4, <3>5 DEF QemuInv, Empty
  <2>4. CASE DeactFreeze
    <3>1. /\ \A n \in Names : bitmap'[n] = IF n = DeactActive THEN [bitmap[n] EXCEPT !.st = "off"]
                                           ELSE bitmap[n]
          /\ bitmap[DeactActive].st # "none"
      BY <1>0, <2>4 DEF DeactFreeze, SetState, Usable, Bitmaps
    <3>2. deact'.pc = "export" /\ exported' = exported
      BY <2>4 DEF DeactFreeze, DeactGoto, TypeInv, TypeOK
    <3>3. bitmap'[DeactActive].st = "off" /\ DeactActive[2] <= taken
      <4>1. bitmap[DeactActive] \in [st : {"none", "on", "off"}, bits : SUBSET Units]
        BY <1>0 DEF Bitmaps
      <4>2. bitmap'[DeactActive] = [bitmap[DeactActive] EXCEPT !.st = "off"]
        BY <1>0, <3>1
      <4>3. DeactActive[2] = 0
        BY <1>0, SnapFacts
      <4>. QED
        BY <1>0, <4>1, <4>2, <4>3
    <3>. QED
      BY <1>0, <1>h, <2>1, <2>2, <3>1, <3>2, <3>3 DEF QemuInv
  <2>5. CASE DeactExport
    <3>1. /\ bitmap' = bitmap /\ deact'.pc = "save" /\ DeactActive \in exported'
          /\ deact'.qemu = deact.qemu
      BY <2>5 DEF DeactExport, DeactGoto, TypeInv, TypeOK
    <3>. QED
      BY <1>0, <1>h, <2>1, <2>2, <3>1 DEF QemuInv, DeactActive
  <2>. QED
    BY <1>8, <2>3, <2>4, <2>5
<1>. QED
  BY <1>1, <1>2, <1>3, <1>4, <1>5, <1>6, <1>7, <1>8 DEF Next, Apart, Capture, Datapath


\* Without failures no step of a capture is refused, and only "find" turns it down.
LEMMA NoneRefused == TypeInv /\ QemuInv /\ OrderInv /\ mode = "destroys" => ~Refused
<1> SUFFICES ASSUME TypeInv, QemuInv, OrderInv, mode = "destroys" PROVE ~Refused
  OBVIOUS
<1>1. Active \notin exported /\ (Busy => cap.qemu \in up)
  BY SnapFacts DEF QemuInv, OrderInv, Found, Matched, Active
<1>2. cap.pc \in CapPcs
  BY DEF TypeInv
<1>. QED
  BY <1>1, <1>2, SnapFacts DEF Refused, OrderInv, Busy, Usable, Exportable, CapPcs

\* In this mode the QEMUs stay, and nobody activates.
LEMMA CalmSteps ==
  TypeInv /\ QemuInv /\ mode = "destroys" => ~Lifecycle /\ ~Ends /\ ~Datapath
BY DEF QemuInv, Lifecycle, Ends, Exit, Detach, Ended, Boot, Attach, Collect, Datapath, Activate,
       Deactivate, DeactFreeze, DeactExport, DeactSave, DeactFails

\* The bitmaps of two names are two bitmaps.
LEMMA TwoNames ==
  TypeInv => /\ cap.pc # "idle" => Active # Frozen
             /\ \A q \in Qemus, k \in Keys :
                   /\ <<q, k>> \in Names
                   /\ <<q, k>> = Active <=> q = cap.qemu /\ k = Head
                   /\ <<q, k>> = Frozen <=> q = cap.qemu /\ k = cap.snap
BY SnapFacts, NameFacts DEF Active, Frozen

LEMMA OrderStep == TypeInv /\ QemuInv /\ OrderInv /\ Next => OrderInv'
<1> SUFFICES ASSUME TypeInv, QemuInv, OrderInv, Next, mode = "destroys", mode' = mode
             PROVE  OrderInv'
  BY ConfigStays DEF OrderInv, config
<1>0. /\ bitmap \in Bitmaps /\ BitmapsOK
      /\ Head \in Keys /\ Head \notin Snaps /\ Snaps \subseteq Keys
      /\ \A n \in exported : bitmap[n].st = "off"
      /\ cap \in [pc : CapPcs, snap : Keys, qemu : Qemus]
      /\ cap.pc # "idle" => cap.snap \in Snaps /\ cap.snap # Head
      /\ Active \in Names /\ Frozen \in Names
      /\ Active = <<cap.qemu, Head>> /\ Frozen = <<cap.qemu, cap.snap>>
      /\ cap.pc # "idle" => Active # Frozen
      /\ \A q \in Qemus, k \in Keys :
            /\ <<q, k>> \in Names
            /\ <<q, k>> = Active <=> q = cap.qemu /\ k = Head
            /\ <<q, k>> = Frozen <=> q = cap.qemu /\ k = cap.snap
  BY KeyFacts, SnapFacts, TwoNames DEF TypeInv, BitmapsOK, Active, Frozen
<1>h. /\ Busy => cap.qemu \in Found /\ bitmap[Active].st # "none"
      /\ \A q \in Qemus : bitmap[<<q, Head>>].st = "off" =>
             q = cap.qemu /\ cap.pc \in {"add", "merge", "clear", "enable"}
      /\ cap.pc = "find" => \A q \in Qemus : bitmap[<<q, cap.snap>>].st = "none"
      /\ cap.pc \in {"disable", "add"} => bitmap[Frozen].st = "none"
      /\ cap.pc \in {"merge", "clear", "enable", "freeze"} => bitmap[Frozen].st = "on"
      /\ cap.pc \in {"export", "save"} => bitmap[Frozen].st = "off"
      /\ cap.pc \notin {"idle", "find", "save"} => Frozen \notin exported
      /\ \A q \in Qemus, k \in Snaps :
             bitmap[<<q, k>>].st = "on" => Busy /\ q = cap.qemu /\ k = cap.snap
  BY DEF OrderInv
<1>1. ASSUME NEW u \in Units, NEW q \in up, Write(u, q) PROVE OrderInv'
  <2>1. /\ \A n \in Names : bitmap'[n].st = bitmap[n].st
        /\ UNCHANGED <<cap, exported, reg, up>>
    BY <1>0, <1>1, WriteFacts
  <2>2. UNCHANGED <<Active, Frozen, Found, Busy>>
    BY <2>1 DEF Active, Frozen, Found, Matched, Busy
  <2>. QED
    BY <1>0, <1>h, <2>1, <2>2 DEF OrderInv
<1>2. ASSUME UNCHANGED <<cap, qemu>> PROVE OrderInv'
  BY <1>2, <1>h DEF OrderInv, Busy, Active, Frozen, Found, Matched, qemu
<1>3. CASE TakeSnapshot
  <2>1. /\ UNCHANGED <<bitmap, exported, Found>> /\ cap.pc = "idle"
        /\ cap' = [pc |-> "find", snap |-> taken + 1, qemu |-> Daemon]
    BY <1>3 DEF TakeSnapshot, qemu, Found, Matched
  <2>2. taken + 1 \in Keys /\ taken + 1 > taken
    <3>1. /\ taken < Limits[mode].snaps /\ Limits[mode].snaps \in Nat
          /\ taken \in 0..Limits[mode].snaps /\ mode \in Modes
      BY <1>3, KeyFacts DEF TakeSnapshot, Limit, TypeInv, TypeOK
    <3>2. taken + 1 \in 1..Limits[mode].snaps /\ taken + 1 > taken
      BY <3>1
    <3>. QED
      BY <3>1, <3>2, KeyFacts
  <2>3. \A q \in Qemus : bitmap[<<q, taken + 1>>].st = "none"
    BY <1>0, <2>2, NameFacts DEF QemuInv
  <2>4. ~Busy /\ ~Busy'
    BY <2>1 DEF Busy
  <2>. QED
    BY <1>0, <1>h, <2>1, <2>3, <2>4 DEF OrderInv
\* A command of the capture.
<1>4. ASSUME NEW pc \in CapPcs, CapGoto(pc), CapRest, Busy, pc \notin {"idle", "find"},
             \A n \in Names : n # Active /\ n # Frozen => bitmap'[n] = bitmap[n],
             bitmap'[Active].st # "none",
             pc \in {"add", "merge", "clear", "enable"} \/ bitmap'[Active].st = "on",
             bitmap'[Frozen].st = IF pc \in {"disable", "add"} THEN "none"
                                  ELSE IF pc \in {"export", "save"} THEN "off" ELSE "on",
             pc # "save" => Frozen \notin exported'
      PROVE  OrderInv'
  <2>1. /\ cap'.pc = pc /\ cap'.snap = cap.snap /\ cap'.qemu = cap.qemu
        /\ UNCHANGED <<Active, Frozen, Found>>
    BY <1>0, <1>4 DEF CapGoto, CapRest, Active, Frozen, Found, Matched
  <2>2. \A q \in Qemus : bitmap'[<<q, Head>>].st = "off" =>
           q = cap.qemu /\ pc \in {"add", "merge", "clear", "enable"}
    <3>1. SUFFICES ASSUME NEW q \in Qemus, bitmap'[<<q, Head>>].st = "off"
                   PROVE  q = cap.qemu /\ pc \in {"add", "merge", "clear", "enable"}
      OBVIOUS
    <3>2. <<q, Head>> # Frozen
      BY <1>0, <1>4 DEF Busy
    <3>3. q = cap.qemu
      BY <1>0, <1>h, <1>4, <3>1, <3>2
    <3>. QED
      BY <1>0, <1>4, <3>1, <3>3
  <2>3. \A q \in Qemus, k \in Snaps : bitmap'[<<q, k>>].st = "on" => q = cap.qemu /\ k = cap.snap
    <3>1. \A q \in Qemus, k \in Snaps : <<q, k>> \in Names /\ <<q, k>> # Active
      BY <1>0
    <3>. QED
      BY <1>0, <1>h, <1>4, <3>1
  <2>. QED
    BY <1>h, <1>4, <2>1, <2>2, <2>3 DEF OrderInv, Busy
<1>5. CASE Capture
  <2>i. ASSUME cap'.pc = "idle", UNCHANGED <<bitmap, exported, up, reg>>,
               \A q \in Qemus : bitmap[<<q, Head>>].st # "off",
               \A q \in Qemus, k \in Snaps : bitmap[<<q, k>>].st # "on"
        PROVE  OrderInv'
    BY <2>i, <1>h DEF OrderInv, Busy
  <2>a. /\ \A n \in Names : bitmap[n] \in [st : {"none", "on", "off"}, bits : SUBSET Units]
        /\ Busy => bitmap[Active].st # "none"
        /\ cap.pc \in {"freeze", "export", "save"} => bitmap[Active].st = "on"
    <3>1. \A n \in Names : bitmap[n] \in [st : {"none", "on", "off"}, bits : SUBSET Units]
      BY <1>0 DEF Bitmaps
    <3>2. Busy => bitmap[Active].st # "none"
      BY <1>h
    <3>3. cap.pc \in {"freeze", "export", "save"} => bitmap[Active].st # "off"
      BY <1>0, <1>h
    <3>. QED
      BY <1>0, <3>1, <3>2, <3>3 DEF Busy
  <2>1. CASE CapFind
    <3>1. ASSUME NEW q \in Found, Tracked(q), cap' = [cap EXCEPT !.pc = "disable", !.qemu = q]
          PROVE  OrderInv'
      <4>1. /\ cap'.pc = "disable" /\ cap'.snap = cap.snap /\ cap'.qemu = q /\ cap.pc = "find"
            /\ UNCHANGED <<bitmap, exported, Found>> /\ q \in Qemus
            /\ Active' = <<q, Head>> /\ Frozen' = <<q, cap.snap>>
        BY <1>0, <2>1, <3>1, SnapFacts DEF CapFind, CapRest, Found, Matched, Active, Frozen
      <4>2. bitmap[<<q, Head>>].st # "none" /\ bitmap[<<q, cap.snap>>].st = "none"
        BY <1>h, <3>1, <4>1 DEF Tracked
      <4>3. <<q, cap.snap>> \notin exported
        BY <1>0, <4>2
      <4>4. \A j \in Qemus : bitmap[<<j, Head>>].st # "off"
        BY <1>h, <4>1
      <4>5. \A j \in Qemus, k \in Snaps : bitmap[<<j, k>>].st # "on"
        BY <1>h, <4>1 DEF Busy
      <4>. QED
        BY <3>1, <4>1, <4>2, <4>3, <4>4, <4>5 DEF OrderInv
    <3>2. ASSUME cap' = CapIdle PROVE OrderInv'
      <4>1. /\ cap'.pc = "idle" /\ cap.pc = "find" /\ ~Busy
            /\ UNCHANGED <<bitmap, exported, up, reg>>
        BY <2>1, <3>2 DEF CapFind, CapRest, CapIdle, Busy
      <4>. QED
        BY <1>h, <2>i, <4>1
    <3>. QED
      BY <2>1, <3>1, <3>2 DEF CapFind
  <2>2. CASE CapDisable
    <3>1. CapGoto("add") /\ CapRest /\ cap.pc = "disable" /\ exported' = exported
          /\ bitmap' = [bitmap EXCEPT ![Active].st = "off"]
      BY <2>2 DEF CapDisable, SetState
    <3>2. /\ bitmap'[Active].st = "off" /\ bitmap'[Frozen].st = "none"
          /\ \A n \in Names : n # Active => bitmap'[n] = bitmap[n]
      BY <1>0, <1>h, <2>a, <3>1 DEF Bitmaps
    <3>. QED
      BY <1>h, <1>4, <3>1, <3>2 DEF CapPcs, Busy
  <2>3. CASE CapAdd
    <3>1. CapGoto("merge") /\ CapRest /\ cap.pc = "add" /\ exported' = exported
          /\ bitmap' = [bitmap EXCEPT ![Frozen] = Empty("on")]
      BY <2>3 DEF CapAdd
    <3>2. /\ bitmap'[Active] = bitmap[Active] /\ bitmap'[Frozen].st = "on"
          /\ \A n \in Names : n # Frozen => bitmap'[n] = bitmap[n]
      BY <1>0, <3>1 DEF Bitmaps, Empty
    <3>. QED
      BY <1>h, <1>4, <2>a, <3>1, <3>2 DEF CapPcs, Busy
  <2>4. CASE CapMerge
    <3>1. CapGoto("clear") /\ CapRest /\ cap.pc = "merge" /\ exported' = exported
          /\ bitmap' = [bitmap EXCEPT ![Frozen].bits = @ \cup bitmap[Active].bits]
      BY <2>4 DEF CapMerge
    <3>2. /\ bitmap'[Active] = bitmap[Active] /\ bitmap'[Frozen].st = bitmap[Frozen].st
          /\ \A n \in Names : n # Frozen => bitmap'[n] = bitmap[n]
      BY <1>0, <3>1 DEF Bitmaps
    <3>. QED
      BY <1>h, <1>4, <2>a, <3>1, <3>2 DEF CapPcs, Busy
  <2>5. CASE CapClear
    <3>1. CapGoto("enable") /\ CapRest /\ cap.pc = "clear" /\ exported' = exported
          /\ bitmap' = [bitmap EXCEPT ![Active].bits = {}]
      BY <2>5 DEF CapClear
    <3>2. /\ bitmap'[Active].st = bitmap[Active].st
          /\ \A n \in Names : n # Active => bitmap'[n] = bitmap[n]
      BY <1>0, <3>1 DEF Bitmaps
    <3>. QED
      BY <1>0, <1>h, <1>4, <2>a, <3>1, <3>2 DEF CapPcs, Busy
  <2>6. CASE CapEnable
    <3>1. CapGoto("freeze") /\ CapRest /\ cap.pc = "enable" /\ exported' = exported
          /\ bitmap' = [bitmap EXCEPT ![Active].st = "on"]
      BY <2>6 DEF CapEnable, SetState
    <3>2. /\ bitmap'[Active].st = "on"
          /\ \A n \in Names : n # Active => bitmap'[n] = bitmap[n]
      BY <1>0, <3>1 DEF Bitmaps
    <3>. QED
      BY <1>0, <1>h, <1>4, <3>1, <3>2 DEF CapPcs, Busy
  <2>7. CASE CapFreeze
    <3>1. CapGoto("export") /\ CapRest /\ cap.pc = "freeze" /\ exported' = exported
          /\ bitmap' = [bitmap EXCEPT ![Frozen].st = "off"]
      BY <2>7 DEF CapFreeze, SetState
    <3>2. /\ bitmap'[Frozen].st = "off" /\ bitmap'[Active] = bitmap[Active]
          /\ \A n \in Names : n # Frozen => bitmap'[n] = bitmap[n]
      BY <1>0, <3>1 DEF Bitmaps
    <3>. QED
      BY <1>h, <1>4, <2>a, <3>1, <3>2 DEF CapPcs, Busy
  <2>8. CASE CapExport
    <3>1. CapGoto("save") /\ CapRest /\ cap.pc = "export" /\ bitmap' = bitmap
      BY <2>8 DEF CapExport
    <3>. QED
      BY <1>h, <1>4, <2>a, <3>1 DEF CapPcs, Busy
  <2>9. CASE CapSave
    <3>1. cap.pc = "save" /\ cap'.pc = "idle" /\ UNCHANGED <<bitmap, exported, up, reg>>
      BY <2>9 DEF CapSave, CapIdle, qemu
    <3>2. /\ \A q \in Qemus : bitmap[<<q, Head>>].st # "off"
          /\ \A q \in Qemus, k \in Snaps : bitmap[<<q, k>>].st # "on"
      <4>1. bitmap[<<cap.qemu, cap.snap>>].st = "off"
        BY <1>0, <1>h, <3>1
      <4>. QED
        BY <1>h, <3>1, <4>1
    <3>. QED
      BY <2>i, <3>1, <3>2
  <2>10. CASE CapFails
    BY <2>10, NoneRefused DEF CapFails
  <2>. QED
    BY <1>5, <2>1, <2>2, <2>3, <2>4, <2>5, <2>6, <2>7, <2>8, <2>9, <2>10 DEF Capture
<1>6. CASE (\E s \in Snaps : DestroySnapshot(s)) \/ List \/ \E u \in Units : WriteDirect(u)
  <2>1. UNCHANGED <<cap, qemu>>
    BY <1>6, ApartFrame DEF Apart, DestroySnapshot, List, ListRest, WriteDirect, Wrote
  <2>. QED
    BY <1>2, <2>1
<1>. QED
  BY <1>1, <1>3, <1>5, <1>6, CalmSteps DEF Next


-----------------------------------------------------------------------------
(* Where the writes are that a QEMU has recorded.                          *)

\* What a step can do to one bitmap.
LEMMA BitmapSteps ==
  TypeInv /\ Next =>
    \/ UNCHANGED <<bitmap, exported>>
    \/ \E u \in Units, q \in up : Write(u, q)
    \/ Ends
    \/ /\ exported' = exported
       /\ \E n \in Names :
            /\ n \notin exported
            /\ \/ \E st \in {"on", "off"} : SetState(n, st)
               \/ n = Active /\ CapClear /\ bitmap' = [bitmap EXCEPT ![n].bits = {}]
               \/ n = Frozen /\ CapMerge
                    /\ bitmap' = [bitmap EXCEPT ![n].bits = @ \cup bitmap[Active].bits]
               \/ bitmap[n].st = "none" /\ bitmap' = [bitmap EXCEPT ![n] = Empty("on")]
    \/ bitmap' = bitmap /\ exported \subseteq exported'
<1> SUFFICES ASSUME TypeInv, Next
             PROVE  \/ UNCHANGED <<bitmap, exported>>
                    \/ \E u \in Units, q \in up : Write(u, q)
                    \/ Ends
                    \/ /\ exported' = exported
                       /\ \E n \in Names :
                            /\ n \notin exported
                            /\ \/ \E st \in {"on", "off"} : SetState(n, st)
                               \/ n = Active /\ CapClear /\ bitmap' = [bitmap EXCEPT ![n].bits = {}]
                               \/ n = Frozen /\ CapMerge
                                    /\ bitmap' = [bitmap EXCEPT ![n].bits = @ \cup bitmap[Active].bits]
                               \/ bitmap[n].st = "none" /\ bitmap' = [bitmap EXCEPT ![n] = Empty("on")]
                    \/ bitmap' = bitmap /\ exported \subseteq exported'
  OBVIOUS
<1>0. Active \in Names /\ Frozen \in Names /\ DeactActive \in Names /\ BitmapsOK
      /\ Found \subseteq Qemus
  BY SnapFacts
<1>1. CASE Apart \/ TakeSnapshot
  BY <1>1, ApartFrame DEF TakeSnapshot, qemu
<1>2. CASE Lifecycle
  BY <1>2, LifecycleSteps DEF Collect
<1>3. CASE CapDisable \/ CapEnable
  BY <1>0, <1>3 DEF CapDisable, CapEnable, Usable
<1>4. CASE CapFreeze \/ DeactFreeze
  BY <1>0, <1>4 DEF CapFreeze, DeactFreeze, Usable
<1>5. CASE CapAdd
  <2>1. Frozen \notin exported
    BY <1>0, <1>5 DEF CapAdd, BitmapsOK
  <2>. QED
    BY <1>0, <1>5, <2>1 DEF CapAdd
<1>6. CASE CapMerge
  BY <1>0, <1>6 DEF CapMerge, Usable
<1>7. CASE CapClear
  BY <1>0, <1>7 DEF CapClear, Usable
<1>8. CASE CapExport \/ DeactExport
  BY <1>8 DEF CapExport, DeactExport
<1>9. CASE Activate
  <2>1. PICK q \in Found : bitmap' = bitmap \/ bitmap' = Prepared(q)
    BY <1>9 DEF Activate
  <2>2. exported' = exported /\ <<q, Head>> \in Names
    BY <1>0, <1>9, KeyFacts, NameFacts DEF Activate
  <2>3. bitmap[<<q, Head>>].st = "none" => <<q, Head>> \notin exported
    BY <1>0, <2>2 DEF BitmapsOK
  <2>. QED
    BY <2>1, <2>2, <2>3 DEF Prepared
<1>. QED
  BY <1>1, <1>2, <1>3, <1>4, <1>5, <1>6, <1>7, <1>8, <1>9 DEF Next, Capture, Datapath, Apart

\* What an exported bitmap says does not change while its QEMU lives.
LEMMA ExportsStay ==
  TypeInv /\ Next =>
    \A n \in exported : Ended(n[1]) \/ (n \in exported' /\ bitmap'[n] = bitmap[n])
<1> SUFFICES ASSUME TypeInv, Next, NEW n \in exported, ~Ended(n[1])
             PROVE  n \in exported' /\ bitmap'[n] = bitmap[n]
  OBVIOUS
<1>0. n \in Names /\ bitmap[n].st = "off" /\ bitmap \in Bitmaps /\ BitmapsOK
  BY SnapFacts DEF BitmapsOK
<1>1. CASE \E u \in Units, q \in up : Write(u, q)
  BY <1>0, <1>1, WriteFacts
<1>2. CASE Ends
  <2>1. PICK q \in up : Ended(q)
    BY <1>2 DEF Ends
  <2>2. n[1] # q
    BY <2>1
  <2>3. /\ bitmap' = [m \in Names |-> IF m[1] = q THEN None ELSE bitmap[m]]
        /\ exported' = {m \in exported : m[1] # q}
    BY <2>1 DEF Ended
  <2>. QED
    BY <1>0, <2>2, <2>3
<1>3. ASSUME NEW m \in Names, m \notin exported, exported' = exported,
             \/ \E st \in {"on", "off"} : SetState(m, st)
             \/ bitmap' = [bitmap EXCEPT ![m].bits = {}]
             \/ bitmap' = [bitmap EXCEPT ![m].bits = @ \cup bitmap[Active].bits]
             \/ bitmap' = [bitmap EXCEPT ![m] = Empty("on")]
      PROVE  n \in exported' /\ bitmap'[n] = bitmap[n]
  BY <1>0, <1>3 DEF SetState, Bitmaps
<1>. QED
  BY <1>1, <1>2, <1>3, BitmapSteps

\* The bits of an active bitmap go with a clear or with their QEMU, those of a
\* snapshot with their QEMU only.
LEMMA BitsStay ==
  TypeInv /\ QemuInv /\ Next =>
    \A n \in Names : \/ Ended(n[1])
                     \/ CapClear /\ n = Active
                     \/ bitmap[n].bits \subseteq bitmap'[n].bits
<1> SUFFICES ASSUME TypeInv, QemuInv, Next, NEW n \in Names, ~Ended(n[1]), ~(CapClear /\ n = Active)
             PROVE  bitmap[n].bits \subseteq bitmap'[n].bits
  OBVIOUS
<1>0. /\ bitmap \in Bitmaps /\ BitmapsOK
      /\ \A j \in Names : bitmap[j].st = "none" => bitmap[j].bits = {}
  BY SnapFacts DEF BitmapsOK, QemuInv
<1>1. CASE \E u \in Units, q \in up : Write(u, q)
  BY <1>0, <1>1, WriteFacts
<1>2. CASE Ends
  <2>1. PICK q \in up : Ended(q)
    BY <1>2 DEF Ends
  <2>2. n[1] # q
    BY <2>1
  <2>3. /\ bitmap' = [m \in Names |-> IF m[1] = q THEN None ELSE bitmap[m]]
        /\ exported' = {m \in exported : m[1] # q}
    BY <2>1 DEF Ended
  <2>. QED
    BY <1>0, <2>2, <2>3
<1>3. ASSUME NEW m \in Names,
             \/ \E st \in {"on", "off"} : SetState(m, st)
             \/ bitmap' = [bitmap EXCEPT ![m].bits = {}] /\ m # n
             \/ bitmap' = [bitmap EXCEPT ![m].bits = @ \cup bitmap[Active].bits]
             \/ bitmap[m].st = "none" /\ bitmap' = [bitmap EXCEPT ![m] = Empty("on")]
      PROVE  bitmap[n].bits \subseteq bitmap'[n].bits
  BY <1>0, <1>3 DEF SetState, Bitmaps
<1>4. CASE bitmap' = bitmap
  BY <1>4
<1>. QED
  BY <1>1, <1>2, <1>3, <1>4, BitmapSteps

\* The steps that lose bits are told apart.
LEMMA Losses ==
  TypeInv => /\ \A q : Ended(q) => q \in up /\ exits' # exits /\ cap' = cap
             /\ CapClear => cap.pc = "clear" /\ exits' = exits
BY DEF TypeInv, Ended, CapClear, CapRest

LEMMA NoEnd ==
  TypeInv /\ exits' = exits => \A q : ~Ended(q)
BY Losses

LEMMA MissStep == TypeInv /\ QemuInv /\ OrderInv /\ MissInv /\ Next => MissInv'
<1> SUFFICES ASSUME TypeInv, QemuInv, OrderInv, MissInv, Next PROVE MissInv'
  OBVIOUS
<1>0. /\ bitmap \in Bitmaps /\ BitmapsOK /\ Head \in Keys /\ Head \notin Snaps
      /\ Snaps \subseteq Keys /\ up \subseteq Qemus
      /\ cap \in [pc : CapPcs, snap : Keys, qemu : Qemus]
      /\ cap.pc # "idle" => cap.snap \in Snaps /\ Active # Frozen
      /\ Active \in Names /\ Frozen \in Names
      /\ Active = <<cap.qemu, Head>> /\ Frozen = <<cap.qemu, cap.snap>>
      /\ \A q \in Qemus, k \in Keys : <<q, k>> \in Names /\ <<q, k>>[1] = q
      /\ \A n \in Names : n[1] \in Qemus
      /\ interval \in [Snaps -> [all : SUBSET Units, told : [Qemus -> SUBSET Units]]]
      /\ told \in [Qemus -> SUBSET changed]
      /\ saved \in [Keys -> Owed]
      /\ file \in [Keys -> SUBSET Names]
      /\ mode' = mode /\ mode \in {"destroys", "failures", "restarts"}
  <2>1. mode' = mode /\ mode \in {"destroys", "failures", "restarts"}
    BY ConfigStays, CbtAssumption DEF TypeInv, TypeOK, config
  <2>2. \A q \in Qemus, k \in Keys : <<q, k>> \in Names /\ <<q, k>>[1] = q
    BY NameFacts
  <2>3. cap.pc # "idle" => cap.snap \in Snaps /\ Active # Frozen
    BY SnapFacts, TwoNames
  <2>. QED
    BY <2>1, <2>2, <2>3, KeyFacts, SnapFacts, NameFacts
    DEF TypeInv, TypeOK, BitmapsOK, Active, Frozen
<1>h. Recording /\ Carried /\ Saved
  BY DEF MissInv
<1>x. ASSUME NEW q, Ended(q) PROVE exits' # exits /\ cap' = cap /\ q \in up /\ ~CapClear
  BY <1>x, Losses
\* Steps that do not change what is saved.
<1>s. ASSUME UNCHANGED <<file, saved>>, \A q : ~Ended(q) PROVE Saved'
  <2>1. \A n \in exported : n \in exported' /\ bitmap'[n] = bitmap[n]
    BY <1>s, ExportsStay
  <2>2. \A k \in Keys : Held(saved[k].live, file[k])
    BY <1>h DEF Saved
  <2>3. \A k \in Keys : Held(saved[k].live, file[k])'
    BY <1>s, <2>1, <2>2 DEF Held
  <2>. QED
    BY <1>h, <1>s, <2>3 DEF Saved
\* Steps that leave the writes and the intervals alone, and do not clear a bitmap.
<1>m. ASSUME UNCHANGED <<told, interval>>, \A q : ~Ended(q), ~CapClear,
             cap' = cap \/ cap'.pc = "idle", exported \subseteq exported'
      PROVE  Recording' /\ Carried'
  <2>1. \A n \in Names : bitmap[n].bits \subseteq bitmap'[n].bits
    BY <1>m, BitsStay
  <2>2. CASE cap' = cap
    BY <1>0, <1>h, <1>m, <2>1, <2>2 DEF Recording, Carried, Whole, Moving, Active, Frozen
  <2>3. CASE cap'.pc = "idle"
    BY <1>0, <1>h, <1>m, <2>1, <2>3 DEF Recording, Carried, Whole, Moving
  <2>. QED
    BY <1>m, <2>2, <2>3
<1>1. ASSUME NEW u \in Units, NEW q \in up, Write(u, q) PROVE MissInv'
  <2>1. /\ UNCHANGED <<mode, exits, exported, file, interval, saved, cap>> /\ q \in Qemus
        /\ told' = IF Records(q) THEN [told EXCEPT ![q] = @ \cup {u}] ELSE told
    BY <1>0, <1>1, WriteFacts DEF Write, config
  <2>2. (\A r : ~Ended(r)) /\ ~CapClear
    BY <2>1, NoEnd DEF CapClear, CapGoto, TypeInv
  <2>3. \A n \in Names : bitmap[n].bits \subseteq bitmap'[n].bits
    BY <2>2, BitsStay
  <2>4. Saved'
    BY <1>s, <2>1, <2>2
  <2>5. Carried'
    BY <1>0, <1>h, <2>1, <2>3 DEF Carried, Whole, Active, Frozen
  <2>6. CASE Records(q)
    <3>1. bitmap[<<q, Head>>].st = "on" /\ ~Moving(q)
      BY <1>0, <2>1, <2>6 DEF Records, OrderInv, Moving, Bitmaps
    <3>2. u \in bitmap'[<<q, Head>>].bits
      <4>1. u \in Block(u)
        BY DEF Block
      <4>2. bitmap'[<<q, Head>>].bits = bitmap[<<q, Head>>].bits \cup Block(u)
        <5>1. <<q, Head>> \in Names /\ <<q, Head>>[1] = q
          BY <1>0, <2>1
        <5>2. \A n \in Names : bitmap'[n].bits = IF n[1] = q /\ bitmap[n].st = "on"
                                                THEN bitmap[n].bits \cup Block(u) ELSE bitmap[n].bits
          <6>1. BitmapsOK /\ u \in Units /\ q \in up /\ Write(u, q)
            BY <1>0, <1>1
          <6>. QED
            BY <6>1, WriteFacts
        <5>. QED
          BY <3>1, <5>1, <5>2
      <4>. QED
        BY <4>1, <4>2
    <3>3. \A r \in Qemus : told'[r] = IF r = q THEN told[r] \cup {u} ELSE told[r]
      BY <1>0, <2>1, <2>6
    <3>4. \A r : Moving(r)' = Moving(r)
      BY <2>1 DEF Moving
    <3>5. Recording'
      BY <1>0, <1>h, <2>1, <2>3, <3>1, <3>2, <3>3, <3>4 DEF Recording
    <3>. QED
      BY <2>4, <2>5, <3>5 DEF MissInv
  <2>7. CASE ~Records(q)
    <3>1. told' = told
      BY <2>1, <2>7
    <3>. QED
      BY <1>m, <2>1, <2>2, <2>4, <3>1 DEF MissInv
  <2>. QED
    BY <2>6, <2>7
<1>2. ASSUME NEW q, Ended(q) PROVE MissInv'
  <2>1. /\ cap' = cap /\ q \in Qemus /\ file' = file
        /\ \A r \in Qemus : told'[r] = IF r = q THEN {} ELSE told[r]
        /\ \A s \in Snaps, r \in Qemus : interval'[s].told[r] = IF r = q THEN {} ELSE interval[s].told[r]
        /\ \A n \in Names : bitmap'[n] = IF n[1] = q THEN None ELSE bitmap[n]
        /\ exported' = {n \in exported : n[1] # q}
        /\ \A k \in Keys : saved'[k] = IF \E n \in file[k] : n[1] = q
                                       THEN [saved[k] EXCEPT !.live = {}] ELSE saved[k]
    <3>1. /\ cap' = cap /\ q \in Qemus /\ file' = file
          /\ told' = [told EXCEPT ![q] = {}]
          /\ interval' = [s \in Snaps |-> [interval[s] EXCEPT !.told = [@ EXCEPT ![q] = {}]]]
          /\ bitmap' = [n \in Names |-> IF n[1] = q THEN None ELSE bitmap[n]]
          /\ exported' = {n \in exported : n[1] # q}
          /\ saved' = [k \in Keys |-> IF \E n \in file[k] : n[1] = q
                                      THEN [saved[k] EXCEPT !.live = {}] ELSE saved[k]]
      BY <1>0, <1>2 DEF Ended
    <3>2. \A r \in Qemus : told'[r] = IF r = q THEN {} ELSE told[r]
      BY <1>0, <3>1
    <3>3. ASSUME NEW s \in Snaps, NEW r \in Qemus
          PROVE  interval'[s].told[r] = IF r = q THEN {} ELSE interval[s].told[r]
      <4>1. interval'[s] = [interval[s] EXCEPT !.told = [@ EXCEPT ![q] = {}]]
        BY <3>1
      <4>2. interval[s] \in [all : SUBSET Units, told : [Qemus -> SUBSET Units]]
        BY <1>0
      <4>3. interval'[s].told = [interval[s].told EXCEPT ![q] = {}]
        BY <4>1, <4>2
      <4>. QED
        BY <4>2, <4>3
    <3>. QED
      BY <3>1, <3>2, <3>3
  <2>2. \A r : Moving(r)' = Moving(r)
    BY <2>1 DEF Moving
  <2>3. Recording'
    BY <1>0, <1>h, <2>1, <2>2 DEF Recording
  <2>4. Carried'
    <3>1. cap.pc # "idle" => \A r \in Qemus : Whole(r)' = IF r = q THEN {} ELSE Whole(r)
      BY <1>0, <2>1 DEF Whole
    <3>2. UNCHANGED <<Active, Frozen>>
      BY <2>1 DEF Active, Frozen
    <3>3. \A r \in Qemus, k \in Keys : r # q => bitmap'[<<r, k>>] = bitmap[<<r, k>>]
      BY <1>0, <2>1
    <3>4. cap.qemu # q /\ Frozen \in exported => Frozen \in exported'
      BY <1>0, <2>1
    <3>5. CASE cap.pc = "idle"
      BY <2>1, <3>5 DEF Carried
    <3>6. CASE cap.pc = "find"
      <4>1. \A r \in Qemus : Whole(r)' \subseteq bitmap'[<<r, Head>>].bits
        BY <1>0, <1>h, <3>1, <3>3, <3>6 DEF Carried
      <4>. QED
        BY <2>1, <3>6, <4>1 DEF Carried
    <3>7. CASE cap.pc \notin {"idle", "find"} /\ cap.qemu = q
      <4>1. Whole(cap.qemu)' = {}
        BY <1>0, <3>1, <3>7, <2>1
      <4>. QED
        BY <2>1, <3>7, <4>1 DEF Carried
    <3>8. CASE cap.pc \notin {"idle", "find"} /\ cap.qemu # q
      <4>1. /\ Whole(cap.qemu)' = Whole(cap.qemu)
            /\ bitmap'[Active] = bitmap[Active] /\ bitmap'[Frozen] = bitmap[Frozen]
        BY <1>0, <2>1, <3>1, <3>3, <3>8 DEF Active, Frozen
      <4>2. cap' = cap /\ UNCHANGED <<Active, Frozen>>
        BY <2>1, <3>2
      <4>. QED
        BY <1>h, <3>4, <3>8, <4>1, <4>2 DEF Carried
    <3>. QED
      BY <3>5, <3>6, <3>7, <3>8
  <2>5. Saved'
    <3>1. ASSUME NEW k \in Keys PROVE Held(saved[k].live, file[k])'
      <4>1. CASE \E n \in file[k] : n[1] = q
        <5>1. saved'[k].live = {}
          <6>1. saved'[k] = [saved[k] EXCEPT !.live = {}] /\ saved[k] \in Owed
            BY <1>0, <2>1, <4>1
          <6>. QED
            BY <6>1 DEF Owed
        <5>. QED
          BY <5>1 DEF Held
      <4>2. CASE ~\E n \in file[k] : n[1] = q
        <5>1. saved'[k] = saved[k] /\ Held(saved[k].live, file[k])
          BY <1>h, <2>1, <4>2 DEF Saved
        <5>2. \A n \in file[k] : n \in Names /\ n[1] # q
          BY <1>0, <4>2
        <5>. QED
          BY <2>1, <5>1, <5>2 DEF Held
      <4>. QED
        BY <4>1, <4>2
    <3>2. file'[Head] = {} => saved'[Head].live = {}
      BY <1>0, <1>h, <2>1 DEF Saved
    <3>. QED
      BY <3>1, <3>2 DEF Saved
  <2>. QED
    BY <2>3, <2>4, <2>5 DEF MissInv
<1>3. CASE Lifecycle
  <2>1. CASE Ends
    BY <1>2, <2>1 DEF Ends
  <2>2. CASE ~Ends
    <3>1. UNCHANGED <<exits, exported, file, told, interval, saved, cap>>
      BY <1>3, <2>2, LifecycleSteps DEF Collect, disk, ledger
    <3>2. (\A r : ~Ended(r)) /\ ~CapClear
      BY <3>1, NoEnd DEF CapClear, CapGoto, TypeInv
    <3>. QED
      BY <1>m, <1>s, <3>1, <3>2 DEF MissInv
  <2>. QED
    BY <2>1, <2>2
<1>4. CASE TakeSnapshot
  <2>1. /\ UNCHANGED <<bitmap, exported, file, saved, exits>> /\ cap.pc = "idle"
        /\ cap' = [pc |-> "find", snap |-> taken + 1, qemu |-> Daemon]
        /\ told' = [q \in Qemus |-> {}]
        /\ interval' = [interval EXCEPT ![taken + 1] = [all |-> changed, told |-> told]]
    BY <1>4 DEF TakeSnapshot, qemu, ledger
  <2>2. taken + 1 \in Snaps
    <3>1. /\ taken < Limits[mode].snaps /\ Limits[mode].snaps \in Nat
          /\ taken \in 0..Limits[mode].snaps /\ mode \in Modes
      BY <1>4, KeyFacts DEF TakeSnapshot, Limit, TypeInv, TypeOK
    <3>2. taken + 1 \in 1..Limits[mode].snaps
      BY <3>1
    <3>. QED
      BY <3>1, <3>2, KeyFacts
  <2>3. \A q \in Qemus : Whole(q)' = told[q]
    BY <1>0, <2>1, <2>2 DEF Whole
  <2>4. Saved'
    BY <1>s, <2>1, NoEnd
  <2>5. Recording'
    BY <2>1 DEF Recording
  <2>6. Carried'
    BY <1>h, <2>1, <2>3 DEF Carried, Recording
  <2>. QED
    BY <2>4, <2>5, <2>6 DEF MissInv
<1>5. CASE Capture
  <2>0. UNCHANGED <<told, interval, exits>> /\ \A r : ~Ended(r)
    BY <1>5, NoEnd DEF Capture, CapRest, CapFind, CapDisable, CapAdd, CapMerge, CapClear, CapEnable,
                       CapFreeze, CapExport, CapSave, CapFails, disk, qemu
  <2>1. ~CapSave => Saved'
    BY <1>5, <1>s, <2>0 DEF Capture, CapRest, CapFind, CapDisable, CapAdd, CapMerge, CapClear,
                            CapEnable, CapFreeze, CapExport, CapFails, ledger
  <2>2. \A n \in Names : (CapClear /\ n = Active) \/ bitmap[n].bits \subseteq bitmap'[n].bits
    BY <2>0, BitsStay
  \* A command moves the capture on.
  <2>g. ASSUME NEW pc \in CapPcs, cap' = [cap EXCEPT !.pc = pc], cap.pc # "idle"
        PROVE  /\ cap'.pc = pc /\ cap'.snap = cap.snap /\ cap'.qemu = cap.qemu
               /\ UNCHANGED <<Active, Frozen>> /\ \A q : Whole(q)' = Whole(q)
    BY <1>0, <2>0, <2>g DEF Active, Frozen, Whole
  <2>3. CASE CapFind
    <3>1. ASSUME NEW q \in Found, cap' = [cap EXCEPT !.pc = "disable", !.qemu = q] PROVE MissInv'
      <4>1. /\ cap'.pc = "disable" /\ cap'.snap = cap.snap /\ cap'.qemu = q /\ q \in Qemus
            /\ cap.pc = "find" /\ Active' = <<q, Head>> /\ UNCHANGED <<bitmap, exported>>
        BY <1>0, <2>3, <3>1, SnapFacts DEF CapFind, Active
      <4>2. \A r \in Qemus : told[r] = {}
        BY <1>h, <4>1 DEF Recording, Moving
      <4>3. Recording'
        BY <2>0, <4>1, <4>2 DEF Recording
      <4>4. Whole(q)' = Whole(q)
        BY <2>0, <4>1 DEF Whole
      <4>5. Carried'
        BY <1>h, <4>1, <4>4 DEF Carried
      <4>6. ~CapSave
        BY <2>3 DEF CapFind, CapSave
      <4>. QED
        BY <2>1, <4>3, <4>5, <4>6 DEF MissInv
    <3>2. ASSUME cap' = CapIdle PROVE MissInv'
      <4>1. cap'.pc = "idle" /\ exported' = exported /\ ~CapClear /\ ~CapSave
        BY <2>3, <3>2 DEF CapFind, CapIdle, CapClear, CapSave
      <4>. QED
        BY <1>m, <2>0, <2>1, <4>1 DEF MissInv
    <3>. QED
      BY <2>3, <3>1, <3>2 DEF CapFind
  <2>4. CASE CapDisable \/ CapAdd
    <3>1. /\ cap.pc \in {"disable", "add"} /\ ~CapClear /\ ~CapSave
          /\ \E pc \in {"add", "merge"} : cap' = [cap EXCEPT !.pc = pc]
      BY <2>4 DEF CapDisable, CapAdd, CapGoto, CapClear, CapSave
    <3>2. /\ cap'.pc \in {"add", "merge"} /\ cap'.snap = cap.snap /\ cap'.qemu = cap.qemu
          /\ UNCHANGED <<Active, Frozen>> /\ \A q : Whole(q)' = Whole(q)
      BY <2>g, <3>1 DEF CapPcs
    <3>3. Recording'
      BY <1>0, <1>h, <2>0, <2>2, <3>1, <3>2 DEF Recording, Moving
    <3>4. Carried'
      BY <1>0, <1>h, <2>2, <3>1, <3>2 DEF Carried
    <3>. QED
      BY <2>1, <3>1, <3>3, <3>4 DEF MissInv
  <2>5. CASE CapMerge
    <3>1. /\ cap.pc = "merge" /\ ~CapClear /\ ~CapSave /\ cap' = [cap EXCEPT !.pc = "clear"]
          /\ bitmap[Active].bits \subseteq bitmap'[Frozen].bits
      BY <1>0, <2>5 DEF CapMerge, CapGoto, CapClear, CapSave, Bitmaps
    <3>2. /\ cap'.pc = "clear" /\ cap'.snap = cap.snap /\ cap'.qemu = cap.qemu
          /\ UNCHANGED <<Active, Frozen>> /\ \A q : Whole(q)' = Whole(q)
      BY <2>g, <3>1 DEF CapPcs
    <3>3. Recording'
      BY <1>0, <1>h, <2>0, <2>2, <3>1, <3>2 DEF Recording, Moving
    <3>4. Carried'
      BY <1>0, <1>h, <3>1, <3>2 DEF Carried
    <3>. QED
      BY <2>1, <3>1, <3>3, <3>4 DEF MissInv
  <2>6. CASE CapClear
    <3>1. cap.pc = "clear" /\ ~CapSave /\ cap' = [cap EXCEPT !.pc = "enable"]
      BY <2>6 DEF CapClear, CapGoto, CapSave
    <3>2. /\ cap'.pc = "enable" /\ cap'.snap = cap.snap /\ cap'.qemu = cap.qemu
          /\ UNCHANGED <<Active, Frozen>> /\ \A q : Whole(q)' = Whole(q)
      BY <2>g, <3>1 DEF CapPcs
    <3>3. Recording'
      <4>1. told[cap.qemu] = {}
        BY <1>0, <1>h, <3>1 DEF Recording, Moving
      <4>2. \A q \in Qemus : q # cap.qemu => bitmap[<<q, Head>>].bits \subseteq bitmap'[<<q, Head>>].bits
        BY <1>0, <2>2, TwoNames
      <4>3. \A q : Moving(q)' = Moving(q)
        BY <3>1, <3>2 DEF Moving
      <4>. QED
        BY <1>h, <2>0, <4>1, <4>2, <4>3 DEF Recording
    <3>4. Carried'
      BY <1>0, <1>h, <2>2, <3>1, <3>2 DEF Carried
    <3>. QED
      BY <2>1, <3>1, <3>3, <3>4 DEF MissInv
  <2>7. CASE CapEnable \/ CapFreeze
    <3>1. /\ cap.pc \in {"enable", "freeze"} /\ ~CapClear /\ ~CapSave
          /\ \E pc \in {"freeze", "export"} : cap' = [cap EXCEPT !.pc = pc]
      BY <2>7 DEF CapEnable, CapFreeze, CapGoto, CapClear, CapSave
    <3>2. /\ cap'.pc \in {"freeze", "export"} /\ cap'.snap = cap.snap /\ cap'.qemu = cap.qemu
          /\ UNCHANGED <<Active, Frozen>> /\ \A q : Whole(q)' = Whole(q)
      BY <2>g, <3>1 DEF CapPcs
    <3>3. Recording'
      BY <1>0, <1>h, <2>0, <2>2, <3>1, <3>2 DEF Recording, Moving
    <3>4. Carried'
      BY <1>0, <1>h, <2>2, <3>1, <3>2 DEF Carried
    <3>. QED
      BY <2>1, <3>1, <3>3, <3>4 DEF MissInv
  <2>8. CASE CapExport
    <3>1. /\ cap.pc = "export" /\ ~CapClear /\ ~CapSave /\ cap' = [cap EXCEPT !.pc = "save"]
          /\ Frozen \in exported'
      BY <2>8 DEF CapExport, CapGoto, CapClear, CapSave
    <3>2. /\ cap'.pc = "save" /\ cap'.snap = cap.snap /\ cap'.qemu = cap.qemu
          /\ UNCHANGED <<Active, Frozen>> /\ \A q : Whole(q)' = Whole(q)
      BY <2>g, <3>1 DEF CapPcs
    <3>3. Recording'
      BY <1>0, <1>h, <2>0, <2>2, <3>1, <3>2 DEF Recording, Moving
    <3>4. Carried'
      BY <1>0, <1>h, <2>2, <3>1, <3>2 DEF Carried
    <3>. QED
      BY <2>1, <3>1, <3>3, <3>4 DEF MissInv
  <2>9. CASE CapSave
    <3>1. /\ cap.pc = "save" /\ cap'.pc = "idle" /\ UNCHANGED <<bitmap, exported>> /\ ~CapClear
          /\ file' = [file EXCEPT ![cap.snap] = {Frozen}]
          /\ saved' = [saved EXCEPT ![cap.snap] =
                         [ever |-> Whole(cap.qemu), live |-> Whole(cap.qemu)]]
      BY <2>9 DEF CapSave, CapIdle, Save, Whole, qemu, CapClear, WritePayload
    <3>2. Recording' /\ Carried'
      BY <1>m, <2>0, <3>1
    <3>3. Held(Whole(cap.qemu), {Frozen})
      BY <1>h, <3>1 DEF Carried, Held
    <3>4. \A units, names : Held(units, names)' <=> Held(units, names)
      BY <3>1 DEF Held
    <3>5. Saved'
      <4>1. cap.snap \in Snaps /\ cap.snap # Head /\ cap.snap \in Keys
        BY <1>0, <3>1
      <4>2. \A k \in Keys : /\ saved'[k].live = IF k = cap.snap THEN Whole(cap.qemu) ELSE saved[k].live
                            /\ file'[k] = IF k = cap.snap THEN {Frozen} ELSE file[k]
        BY <1>0, <3>1, <4>1
      <4>3. \A k \in Keys : Held(saved'[k].live, file'[k])
        BY <1>h, <3>3, <4>2 DEF Saved
      <4>4. \A k \in Keys : Held(saved[k].live, file[k])'
        BY <3>1, <4>3 DEF Held
      <4>. QED
        BY <1>0, <1>h, <4>1, <4>2, <4>4 DEF Saved
    <3>. QED
      BY <3>2, <3>5 DEF MissInv
  <2>10. CASE CapFails
    <3>1. cap' = CapIdle /\ UNCHANGED <<exported, file, saved>>
      BY <2>10 DEF CapFails, CapRest, ledger
    <3>2. cap'.pc = "idle" /\ ~CapClear
      BY <3>1 DEF CapClear, CapGoto, CapIdle, TypeInv
    <3>. QED
      BY <1>m, <1>s, <2>0, <3>1, <3>2 DEF MissInv
  <2>. QED
    BY <1>5, <2>3, <2>4, <2>5, <2>6, <2>7, <2>8, <2>9, <2>10 DEF Capture
<1>6. ASSUME NEW s \in Snaps, DestroySnapshot(s) PROVE MissInv'
  <2>1. /\ UNCHANGED <<told, interval, saved, bitmap, exported, cap, exits>>
        /\ file' = [file EXCEPT ![s] = {}]
    BY <1>6 DEF DestroySnapshot, RemovePayload, WritePayload, qemu, ledger
  <2>2. (\A r : ~Ended(r)) /\ ~CapClear
    BY <2>1, NoEnd DEF CapClear, CapGoto, TypeInv
  <2>3. \A k \in Keys : file'[k] = file[k] \/ file'[k] = {}
    BY <1>0, <2>1
  <2>4. \A k \in Keys : Held(saved[k].live, file[k])'
    BY <1>h, <2>1, <2>3 DEF Saved, Held
  <2>5. file'[Head] = file[Head]
    BY <1>0, <2>1
  <2>6. Saved'
    BY <1>h, <2>1, <2>4, <2>5 DEF Saved
  <2>. QED
    BY <1>m, <2>1, <2>2, <2>6 DEF MissInv
<1>7. CASE Datapath
  <2>0. /\ UNCHANGED <<told, interval, cap, exits>> /\ exported \subseteq exported'
        /\ (\A r : ~Ended(r)) /\ ~CapClear
    <3>1. UNCHANGED <<told, interval, cap, exits>> /\ exported \subseteq exported'
      BY <1>7 DEF Datapath, Activate, Deactivate, DeactFreeze, DeactExport, DeactSave, DeactFails,
                  DeactRest, disk
    <3>. QED
      BY <3>1, NoEnd DEF CapClear, CapGoto, TypeInv
  <2>1. Recording' /\ Carried'
    BY <1>m, <2>0
  <2>2. \A n \in exported : n \in exported' /\ bitmap'[n] = bitmap[n]
    BY <2>0, ExportsStay
  <2>3. CASE Activate \/ Deactivate
    <3>1. saved' = saved /\ file' = Migrated
      BY <2>3 DEF Activate, Deactivate, DeactRest, ledger
    <3>2. \A k \in Keys : file'[k] = file[k] \/ (k = Head /\ file[Head] = {} /\ file'[Head] # {})
      BY <1>0, <3>1 DEF Migrated
    <3>3. \A k \in Keys : Held(saved[k].live, file'[k])
      BY <1>0, <1>h, <3>2 DEF Saved, Held
    <3>4. \A k \in Keys : Held(saved[k].live, file[k])'
      BY <2>2, <3>1, <3>3 DEF Held
    <3>. QED
      BY <1>0, <1>h, <2>1, <3>1, <3>2, <3>4 DEF MissInv, Saved
  <2>4. CASE DeactSave
    <3>1. /\ saved' = [saved EXCEPT ![Head] = [ever |-> told[deact.qemu], live |-> told[deact.qemu]]]
          /\ file' = [file EXCEPT ![Head] = {DeactActive}]
          /\ UNCHANGED <<bitmap, exported>> /\ deact.pc = "save"
      BY <2>4 DEF DeactSave, Save, WritePayload
    <3>2. told[deact.qemu] \subseteq bitmap[DeactActive].bits
      BY <1>h, SnapFacts DEF Recording, DeactActive
    <3>3. Held(told[deact.qemu], {DeactActive})
      <4>1. bitmap[DeactActive].st = "none" => bitmap[DeactActive].bits = {}
        BY SnapFacts DEF QemuInv
      <4>. QED
        BY <3>1, <3>2, <4>1 DEF QemuInv, Held
    <3>4. \A k \in Keys : /\ saved'[k].live = IF k = Head THEN told[deact.qemu] ELSE saved[k].live
                          /\ file'[k] = IF k = Head THEN {DeactActive} ELSE file[k]
      BY <1>0, <3>1
    <3>5. \A k \in Keys : Held(saved'[k].live, file'[k])
      BY <1>h, <3>3, <3>4 DEF Saved
    <3>6. \A k \in Keys : Held(saved[k].live, file[k])'
      BY <3>1, <3>5 DEF Held
    <3>. QED
      BY <1>0, <2>1, <3>4, <3>6 DEF MissInv, Saved
  <2>5. CASE DeactFreeze \/ DeactExport \/ DeactFails
    <3>1. UNCHANGED <<file, saved>>
      BY <2>5 DEF DeactFreeze, DeactExport, DeactFails
    <3>. QED
      BY <1>s, <2>0, <2>1, <3>1 DEF MissInv
  <2>. QED
    BY <1>7, <2>3, <2>4, <2>5 DEF Datapath
<1>8. CASE List \/ \E u \in Units : WriteDirect(u)
  <2>1. UNCHANGED <<told, interval, file, saved, exported, cap, exits>>
    BY <1>8 DEF List, ListRest, WriteDirect, Wrote, qemu, disk, ledger
  <2>2. (\A r : ~Ended(r)) /\ ~CapClear
    BY <2>1, NoEnd DEF CapClear, CapGoto, TypeInv
  <2>. QED
    BY <1>m, <1>s, <2>1, <2>2 DEF MissInv
<1>. QED
  BY <1>1, <1>3, <1>4, <1>5, <1>6, <1>7, <1>8 DEF Next


-----------------------------------------------------------------------------
(* The list.                                                               *)

LEMMA ListFrame == List => UNCHANGED <<config, qemu, file, disk, saved, cap>>
BY DEF List, ListRest

\* Steps of others: the bitmap that is read does not change, and what the end of
\* its QEMU takes is owed no more.
LEMMA OthersWalk ==
  ASSUME TypeInv, WalkInv, Next, ~List
  PROVE  WalkInv'
<1>0. /\ taken \in Nat /\ list \in Call /\ owed \in Owed
      /\ mode' = mode /\ \A n \in exported : n \in Names
  <2>1. taken \in Nat
    BY KeyFacts DEF TypeInv, TypeOK, Limit
  <2>. QED
    BY <2>1, ConfigStays DEF TypeInv, TypeOK, config
<1>w. /\ list.pc # "idle" => /\ list.key \in Keys /\ list.len >= 1
                             /\ list.off + list.len <= Size
                             /\ list.key \in 0..taken
                             /\ Payload(list.key, list.names) /\ list.todo \subseteq list.names
                             /\ Held(owed.live, list.names)
      /\ Fetching => /\ list.todo = {} /\ list.bitmap \in list.names /\ list.bitmap \in exported
                     /\ Cover(list.got) = bitmap[list.bitmap].bits \cap (0..Position - 1)
      /\ list.pc = "reply" => list.at < Size /\ list.cur \in list.at..list.at + Chunk
      /\ list.omitted => list.todo = {} /\ ~Fetching
      /\ list.all # {} => ReadAll
      /\ ReadAll => /\ owed.live \subseteq Cover(list.all)
                    /\ mode # "restarts" =>
                           \A n \in list.names : /\ n \in exported
                                                 /\ Cover(list.all) = bitmap[n].bits
      /\ list.pc = "done" =>
             /\ list.todo = {}
             /\ list.bits = BlocksOf(Cover(list.all), list.off, list.len, list.gran)
  BY DEF WalkInv
\* The list stays: what it reads has to.
<1>s. ASSUME list' = list, owed' = owed \/ owed'.live = {}, taken <= taken', taken' \in Nat,
             list.pc # "idle" => Held(owed.live, list.names)',
             Fetching => list.bitmap \in exported' /\ bitmap'[list.bitmap] = bitmap[list.bitmap],
             mode # "restarts" => \A n \in exported : n \in exported' /\ bitmap'[n] = bitmap[n]
      PROVE  WalkInv'
  <2>1. UNCHANGED <<Fetching, Position, Chunk, ReadAll>>
    BY <1>s DEF Fetching, Position, Chunk, ReadAll
  <2>2. list.pc # "idle" => list.key \in 0..taken'
    BY <1>0, <1>w, <1>s
  <2>3. ReadAll => owed'.live \subseteq Cover(list.all)
    BY <1>w, <1>s
  <2>5. mode # "restarts" /\ ReadAll =>
          \A n \in list.names : n \in exported' /\ Cover(list.all) = bitmap'[n].bits
    BY <1>w, <1>s
  <2>6. Fetching => /\ list.bitmap \in exported'
                    /\ Cover(list.got) = bitmap'[list.bitmap].bits \cap (0..Position - 1)
    BY <1>w, <1>s
  <2>. QED
    BY <1>0, <1>w, <1>s, <2>1, <2>2, <2>3, <2>5, <2>6 DEF WalkInv
<1>1. CASE Ends
  <2>1. PICK q \in up : Ended(q)
    BY <1>1 DEF Ends
  <2>2. /\ mode = "restarts" /\ taken' = taken
        /\ owed' = IF \E n \in list.names : n[1] = q THEN [owed EXCEPT !.live = {}] ELSE owed
        /\ \A n \in exported : n[1] # q => n \in exported' /\ bitmap'[n] = bitmap[n]
    <3>1. /\ mode = "restarts" /\ taken' = taken
          /\ owed' = IF \E n \in list.names : n[1] = q THEN [owed EXCEPT !.live = {}] ELSE owed
          /\ exported' = {n \in exported : n[1] # q}
          /\ bitmap' = [n \in Names |-> IF n[1] = q THEN None ELSE bitmap[n]]
      BY <2>1 DEF Ended
    <3>. QED
      BY <1>0, <3>1
  <2>3. (\E n \in list.names : n[1] = q) => owed'.live = {}
    BY <1>0, <2>2 DEF Owed
  <2>4. list.pc # "idle" /\ list' = list => Held(owed.live, list.names)'
    <3>1. CASE \E n \in list.names : n[1] = q
      BY <2>3, <3>1 DEF Held
    <3>2. CASE ~\E n \in list.names : n[1] = q
      BY <1>w, <2>2, <3>2 DEF Held
    <3>. QED
      BY <3>1, <3>2
  <2>5. CASE Fetching /\ list.bitmap[1] = q
    <3>1. list' = [list EXCEPT !.pc = "next", !.omitted = TRUE, !.got = {}]
      BY <2>1, <2>5 DEF Ended, Fetching, ListFetchFails
    <3>2. /\ list'.pc = "next" /\ list'.omitted /\ list'.all = list.all /\ list'.key = list.key
          /\ list'.names = list.names /\ list'.todo = list.todo /\ list'.off = list.off
          /\ list'.len = list.len
      BY <1>0, <3>1 DEF Call
    <3>3. list.all = {} /\ list.todo = {} /\ list.pc # "idle" /\ list.bitmap \in list.names
      BY <1>w, <2>5 DEF Fetching, ReadAll
    <3>4. owed'.live = {}
      BY <2>3, <2>5, <3>3
    <3>. QED
      BY <1>0, <1>w, <2>2, <3>2, <3>3, <3>4 DEF WalkInv, ReadAll, Fetching, Held
  <2>6. CASE ~(Fetching /\ list.bitmap[1] = q)
    <3>1. list' = list
      BY <2>1, <2>6 DEF Ended, Fetching
    <3>2. Fetching => list.bitmap \in exported' /\ bitmap'[list.bitmap] = bitmap[list.bitmap]
      BY <1>w, <2>2, <2>6
    <3>3. list.pc # "idle" => Held(owed.live, list.names)'
      BY <2>4, <3>1
    <3>4. owed' = owed \/ owed'.live = {}
      BY <2>2, <2>3
    <3>. QED
      BY <1>0, <1>s, <2>2, <3>1, <3>2, <3>3, <3>4
  <2>. QED
    BY <2>5, <2>6
<1>2. CASE ~Ends
  <2>1. UNCHANGED <<list, owed>> /\ (taken' = taken \/ taken' = taken + 1)
    <3>1. CASE Lifecycle
      BY <1>2, <3>1, LifecycleSteps DEF Collect, disk, ledger
    <3>2. CASE ~Lifecycle
      BY <3>2 DEF Next, Write, WriteDirect, Wrote, TakeSnapshot, Capture, CapRest, CapFind,
                  CapDisable, CapAdd, CapMerge, CapClear, CapEnable, CapFreeze, CapExport, CapSave,
                  CapFails, DestroySnapshot, Datapath, DeactRest, Activate, Deactivate, DeactFreeze,
                  DeactExport, DeactSave, DeactFails, disk, ledger
    <3>. QED
      BY <3>1, <3>2
  <2>2. \A q : ~Ended(q)
    BY <1>2, Losses DEF Ends
  <2>3. \A n \in exported : n \in exported' /\ bitmap'[n] = bitmap[n]
    BY <2>2, ExportsStay
  <2>4. list.pc # "idle" => Held(owed.live, list.names)'
    BY <1>w, <2>1, <2>3 DEF Held
  <2>. QED
    BY <1>0, <1>w, <1>s, <2>1, <2>3, <2>4
<1>. QED
  BY <1>1, <1>2

LEMMA WalkStep == TypeInv /\ MissInv /\ WalkInv /\ Next => WalkInv'
<1> SUFFICES ASSUME TypeInv, MissInv, WalkInv, Next, List PROVE WalkInv'
  BY OthersWalk
<1>0. /\ UNCHANGED <<mode, gran, bitmap, exported, file, taken, saved>>
      /\ list \in Call /\ mode \in Modes /\ taken \in Nat /\ gran \in {1, 2}
      /\ bitmap \in Bitmaps /\ \A n \in exported : n \in Names
      /\ Head \in Keys /\ Head = 0
  <2>1. UNCHANGED <<mode, gran, bitmap, exported, file, taken, saved>>
    BY ListFrame DEF config, qemu, disk
  <2>2. mode \in Modes /\ taken \in 0..Limits[mode].snaps /\ Limits[mode].snaps \in Nat
    BY KeyFacts DEF TypeInv, TypeOK, Limit
  <2>. QED
    BY <2>1, <2>2, KeyFacts DEF TypeInv, TypeOK, Bitmaps
<1>1. ASSUME NEW k \in {Head} \cup alive, NEW e \in Limit.asked, Listing(k, e[1], e[2])
      PROVE  WalkInv'
  <2>1. k \in Keys /\ k \in 0..taken /\ Payload(k, file[k])
    <3>1. alive \subseteq 1..taken /\ taken \in 0..Limits[mode].snaps
      BY DEF TypeInv, TypeOK, Limit
    <3>2. Limits[mode].snaps \in Nat /\ 1..Limits[mode].snaps \subseteq Keys
      BY <1>0, KeyFacts
    <3>3. k \in Keys /\ k \in 0..taken
      <4>1. CASE k = Head
        BY <1>0, <4>1
      <4>2. CASE k \in alive
        <5>1. k \in 1..taken
          BY <3>1, <4>2
        <5>2. k \in 1..Limits[mode].snaps /\ k \in 0..taken
          BY <3>1, <3>2, <5>1
        <5>. QED
          BY <3>2, <5>2
      <4>. QED
        BY <4>1, <4>2
    <3>4. Payload(k, file[k])
      BY <3>3 DEF TypeInv
    <3>. QED
      BY <3>3, <3>4
  <2>2. e[1] \in Nat /\ e[2] \in Nat \ {0}
    BY <1>0, KeyFacts, BlocksAssumption DEF Limit, Units
  <2>3. /\ list'.pc = "next" /\ list'.key = k /\ list'.names = file[k] /\ list'.todo = file[k]
        /\ list'.off = e[1] /\ list'.len = e[2] /\ list'.all = {} /\ list'.omitted = FALSE
        /\ owed' = saved[k] /\ e[1] + e[2] <= Size
    BY <1>1 DEF Listing, ListBegin, Idle
  <2>4. Held(owed.live, list.names)'
    <3>1. Held(saved[k].live, file[k])
      BY <2>1 DEF MissInv, Saved
    <3>. QED
      BY <1>0, <2>3, <3>1 DEF Held
  <2>. QED
    BY <1>0, <2>1, <2>2, <2>3, <2>4 DEF WalkInv, ReadAll, Fetching
\* Steps on the list alone.
<1>h. ASSUME UNCHANGED owed, list'.names = list.names, Held(owed.live, list.names)
      PROVE  Held(owed.live, list.names)'
  BY <1>0, <1>h DEF Held
<1>2. CASE ListConnect(exported) /\ UNCHANGED owed
  <2>1. PICK b \in list.todo :
          list' = IF b \in exported
                  THEN [list EXCEPT !.todo = @ \ {b}, !.pc = "request", !.bitmap = b,
                                    !.at = 0, !.got = {}]
                  ELSE [list EXCEPT !.todo = @ \ {b}, !.omitted = TRUE]
    BY <1>2 DEF ListConnect
  <2>2. /\ list.pc = "next" /\ b \in list.names /\ list.all = {} /\ ~list.omitted
        /\ list.todo \ {b} = {} /\ list.names # {} /\ Held(owed.live, list.names)
    BY <1>2, <2>1 DEF ListConnect, WalkInv, ReadAll, Payload
  <2>3. CASE b \in exported
    <3>1. list' = [list EXCEPT !.todo = {}, !.pc = "request", !.bitmap = b, !.at = 0, !.got = {}]
      BY <2>1, <2>2, <2>3
    <3>2. /\ list'.pc = "request" /\ list'.bitmap = b /\ list'.at = 0 /\ list'.got = {}
          /\ list'.all = {} /\ list'.todo = {} /\ list'.omitted = list.omitted
          /\ list'.key = list.key /\ list'.names = list.names
          /\ list'.off = list.off /\ list'.len = list.len
      BY <1>0, <2>2, <3>1 DEF Call
    <3>3. Cover(list'.got) = bitmap[b].bits \cap (0..0 - 1)
      BY <3>2, CoverFacts
    <3>4. Held(owed.live, list.names)'
      BY <1>2, <1>h, <2>2, <3>2
    <3>. QED
      BY <1>0, <1>2, <2>2, <2>3, <3>2, <3>3, <3>4 DEF WalkInv, ReadAll, Fetching, Position
  <2>4. CASE b \notin exported
    <3>1. /\ list'.pc = "next" /\ list'.omitted /\ list'.all = {} /\ list'.todo = {}
          /\ list'.key = list.key /\ list'.names = list.names
          /\ list'.off = list.off /\ list'.len = list.len
      BY <1>0, <2>1, <2>2, <2>4 DEF Call
    <3>2. Held(owed.live, list.names)'
      BY <1>2, <1>h, <2>2, <3>1
    <3>. QED
      BY <1>0, <1>2, <2>2, <3>1, <3>2 DEF WalkInv, ReadAll, Fetching
  <2>. QED
    BY <2>3, <2>4
<1>3. CASE ListRequest /\ UNCHANGED owed
  <2>1. /\ list.pc = "request" /\ list.at < Size
        /\ list' = [list EXCEPT !.pc = "reply", !.cur = list.at]
    BY <1>3 DEF ListRequest
  <2>2. /\ list'.pc = "reply" /\ list'.at = list.at /\ list'.cur = list.at
        /\ list'.got = list.got /\ list'.bitmap = list.bitmap /\ list'.omitted = list.omitted
        /\ list'.all = list.all /\ list'.todo = list.todo
        /\ list'.key = list.key /\ list'.names = list.names
        /\ list'.off = list.off /\ list'.len = list.len
    BY <1>0, <2>1 DEF Call
  <2>3. list.at \in list.at..list.at + Chunk /\ Chunk' = Chunk
    BY <1>0, <2>1, <2>2, BlocksAssumption DEF Chunk, Smaller, Call
  <2>4. Held(owed.live, list.names)'
    BY <1>3, <1>h, <2>1, <2>2 DEF WalkInv
  <2>. QED
    BY <1>0, <1>3, <2>1, <2>2, <2>3, <2>4 DEF WalkInv, ReadAll, Fetching, Position
<1>4. CASE Fetching /\ ListReply(bitmap[list.bitmap].bits) /\ UNCHANGED owed
  <2> DEFINE dirty == bitmap[list.bitmap].bits
  <2>1. PICK n \in 1..(list.at + Chunk - list.cur) :
          /\ \/ (list.cur..list.cur + n - 1) \subseteq dirty
             \/ (list.cur..list.cur + n - 1) \cap dirty = {}
          /\ list' = ReadDescriptor(n, dirty)
    BY <1>4 DEF ListReply
  <2>2. /\ list.pc = "reply" /\ list.bitmap \in list.names
        /\ Cover(list.got) = dirty \cap (0..list.cur - 1)
        /\ list.cur \in list.at..list.at + Chunk /\ list.at < Size
    BY <1>4 DEF ListReply, WalkInv, Fetching, Position
  <2>3. list.cur \in Nat /\ list.at \in Nat /\ Chunk \in Nat /\ n \in Nat \ {0}
    BY <1>0, <2>1, BlocksAssumption, <2>2 DEF Chunk, Smaller, Call
  <2>4. /\ list'.pc = "reply" /\ list'.at = list.at /\ list'.cur = list.cur + n
        /\ list'.got = IF list.cur \in dirty
                       THEN list.got \cup {[off |-> list.cur, len |-> n]} ELSE list.got
        /\ list'.bitmap = list.bitmap /\ list'.all = list.all /\ list'.todo = list.todo
        /\ list'.key = list.key /\ list'.names = list.names /\ list'.omitted = list.omitted
        /\ list'.off = list.off /\ list'.len = list.len
    BY <1>0, <2>1, <2>2 DEF ReadDescriptor, Call
  <2>5. Chunk' = Chunk /\ list.cur + n \in list.at..list.at + Chunk
    BY <2>1, <2>3, <2>2, <2>4 DEF Chunk
  <2>6. Cover(list'.got) = dirty \cap (0..(list.cur + n) - 1)
    <3> HIDE DEF dirty
    <3>1. 0..(list.cur + n) - 1 = (0..list.cur - 1) \cup (list.cur..(list.cur + n) - 1)
      BY <2>3
    <3>2. list.cur..list.cur + n - 1 = list.cur..(list.cur + n) - 1
      BY <2>3
    <3>3. list.cur \in list.cur..(list.cur + n) - 1
      BY <2>3
    <3>4. CASE list.cur \in dirty
      <4>1. list.cur..(list.cur + n) - 1 \subseteq dirty
        BY <2>1, <3>2, <3>3, <3>4
      <4>2. Cover(list'.got) = Cover(list.got) \cup (list.cur..(list.cur + n) - 1)
        <5>1. Cover(list'.got) = Cover(list.got) \cup Cover({[off |-> list.cur, len |-> n]})
          BY <2>4, <3>4, CoverFacts
        <5>. QED
          BY <5>1, CoverFacts
      <4>. QED
        BY <2>2, <3>1, <4>1, <4>2
    <3>5. CASE list.cur \notin dirty
      <4>1. (list.cur..(list.cur + n) - 1) \cap dirty = {}
        BY <2>1, <3>2, <3>3, <3>5
      <4>. QED
        BY <2>2, <2>4, <3>1, <3>5, <4>1
    <3>. QED
      BY <3>4, <3>5
  <2>7. Held(owed.live, list.names)'
    BY <1>4, <1>h, <2>2, <2>4 DEF WalkInv
  <2>. QED
    BY <1>0, <1>4, <2>2, <2>4, <2>5, <2>6, <2>7 DEF WalkInv, ReadAll, Fetching, Position
<1>5. CASE ListChunkDone /\ UNCHANGED owed
  <2>1. /\ list.pc = "reply" /\ list.cur = list.at + Chunk
        /\ list' = [list EXCEPT !.pc = "request", !.at = list.at + Chunk]
    BY <1>5 DEF ListChunkDone
  <2>2. /\ list'.pc = "request" /\ list'.at = list.cur
        /\ list'.got = list.got /\ list'.bitmap = list.bitmap /\ list'.omitted = list.omitted
        /\ list'.all = list.all /\ list'.todo = list.todo
        /\ list'.key = list.key /\ list'.names = list.names
        /\ list'.off = list.off /\ list'.len = list.len
    BY <1>0, <2>1 DEF Call
  <2>3. Held(owed.live, list.names)'
    BY <1>5, <1>h, <2>1, <2>2 DEF WalkInv
  <2>. QED
    BY <1>0, <1>5, <2>1, <2>2, <2>3 DEF WalkInv, ReadAll, Fetching, Position
<1>6. CASE ListFetchFails /\ UNCHANGED owed
  <2>1. /\ list'.pc = "next" /\ list'.omitted /\ list'.all = list.all /\ list'.todo = list.todo
        /\ list'.key = list.key /\ list'.names = list.names
        /\ list'.off = list.off /\ list'.len = list.len
        /\ list.pc \in {"request", "reply"}
    BY <1>0, <1>6 DEF ListFetchFails, Call
  <2>2. Held(owed.live, list.names)'
    BY <1>6, <1>h, <2>1 DEF WalkInv
  <2>. QED
    BY <1>0, <1>6, <2>1, <2>2 DEF WalkInv, ReadAll, Fetching
<1>7. CASE ListFetched /\ UNCHANGED owed
  <2>1. /\ list'.pc = "next" /\ list'.all = list.all \cup list.got /\ list'.todo = list.todo
        /\ list'.key = list.key /\ list'.names = list.names /\ list'.omitted = list.omitted
        /\ list'.off = list.off /\ list'.len = list.len
        /\ list.pc = "request" /\ list.at >= Size
    BY <1>0, <1>7 DEF ListFetched, Call
  <2>2. /\ list.all = {} /\ list.todo = {} /\ list.bitmap \in list.names /\ list.bitmap \in exported
        /\ Cover(list.got) = bitmap[list.bitmap].bits \cap (0..list.at - 1)
        /\ Payload(list.key, list.names) /\ Held(owed.live, list.names)
    BY <2>1 DEF WalkInv, ReadAll, Fetching, Position
  <2>3. Cover(list'.all) = bitmap[list.bitmap].bits
    <3>1. Units \subseteq 0..list.at - 1
      BY <1>0, <2>1, BlocksAssumption DEF Units, Call
    <3>2. bitmap[list.bitmap].bits \subseteq Units
      BY <1>0, <2>2 DEF Bitmaps
    <3>. QED
      BY <2>1, <2>2, <3>1, <3>2
  <2>4. owed.live \subseteq bitmap[list.bitmap].bits
    BY <2>2 DEF Held
  <2>5. list.names = {list.bitmap}
    BY <2>2 DEF Payload
  <2>6. Held(owed.live, list.names)'
    BY <1>7, <1>h, <2>1, <2>2
  <2>. QED
    BY <1>0, <1>7, <2>1, <2>2, <2>3, <2>4, <2>5, <2>6 DEF WalkInv, ReadAll, Fetching
<1>8. CASE /\ ListPack(IF file[list.key] = {} THEN {} ELSE {gran}) /\ UNCHANGED owed
  <2> DEFINE grans == IF file[list.key] = {} THEN {} ELSE {gran}
             g == IF grans = {} THEN Default ELSE CHOOSE a \in grans : \A b \in grans : a >= b
  <2>1. g \in Nat \ {0}
    <3>1. CASE file[list.key] = {}
      BY <3>1, BlocksAssumption
    <3>2. CASE file[list.key] # {}
      <4>1. (CHOOSE a \in {gran} : \A b \in {gran} : a >= b) = gran
        BY <1>0
      <4>. QED
        BY <1>0, <3>2, <4>1
    <3>. QED
      BY <3>1, <3>2
  <2>2. /\ list.pc = "next" /\ list.todo = {}
        /\ list' = [list EXCEPT !.pc = "done", !.gran = g,
                                !.bits = PackExtents(list.all, list.off, list.len, g)]
    BY <1>8 DEF ListPack
  <2> HIDE DEF g, grans
  <2>3. /\ list'.pc = "done" /\ list'.gran = g
        /\ list'.bits = PackExtents(list.all, list.off, list.len, g)
        /\ list'.all = list.all /\ list'.todo = {} /\ list'.omitted = list.omitted
        /\ list'.key = list.key /\ list'.names = list.names
        /\ list'.off = list.off /\ list'.len = list.len
    BY <1>0, <2>2 DEF Call
  <2>4. list'.bits = BlocksOf(Cover(list.all), list.off, list.len, g)
    <3>1. list.all \in SUBSET Extent /\ list.off \in Nat /\ list.len \in Nat \ {0}
      BY <1>0, <2>2 DEF Call, WalkInv
    <3>. QED
      BY <2>1, <2>3, <3>1, PackIsBlocks
  <2>5. Held(owed.live, list.names)'
    BY <1>8, <1>h, <2>2, <2>3 DEF WalkInv
  <2>. QED
    BY <1>0, <1>8, <2>2, <2>3, <2>4, <2>5 DEF WalkInv, ReadAll, Fetching
<1>9. CASE ListReturns
  BY <1>9 DEF ListReturns, ListReturn, Idle, WalkInv, ReadAll, Fetching
<1>. QED
  BY <1>1, <1>2, <1>3, <1>4, <1>5, <1>6, <1>7, <1>8, <1>9 DEF List, ListStep


-----------------------------------------------------------------------------
(* What the bitmaps hold when nothing breaks off.                          *)

LEMMA MarkedFacts ==
  /\ \A a, b : a \subseteq b => Marked(a) \subseteq Marked(b)
  /\ \A a, u : u \in a => Block(u) \subseteq Marked(a)
BY DEF Marked

LEMMA ExtraStep ==
  TypeInv /\ QemuInv /\ OrderInv /\ ExtraInv /\ Next => ExtraInv'
<1> SUFFICES ASSUME TypeInv, QemuInv, OrderInv, ExtraInv, Next, mode' = "destroys"
             PROVE  ExtraInv'
  BY DEF ExtraInv
<1>g. mode' = mode /\ gran' = gran
  BY ConfigStays DEF config
<1>0. /\ bitmap \in Bitmaps /\ BitmapsOK /\ mode = "destroys"
      /\ Head \in Keys /\ Head \notin Snaps /\ Snaps \subseteq Keys /\ Found \subseteq Qemus
      /\ cap \in [pc : CapPcs, snap : Keys, qemu : Qemus]
      /\ cap.pc # "idle" => cap.snap \in Snaps /\ Active # Frozen
      /\ \A n \in Names : bitmap[n].st = "none" => bitmap[n].bits = {}
      /\ interval \in [Snaps -> [all : SUBSET Units, told : [Qemus -> SUBSET Units]]]
      /\ late \in [Snaps -> SUBSET Units]
      /\ Active \in Names /\ Frozen \in Names
      /\ \A q \in Qemus, k \in Keys :
            /\ <<q, k>> \in Names /\ <<q, k>>[1] = q
            /\ <<q, k>> = Active <=> q = cap.qemu /\ k = Head
            /\ <<q, k>> = Frozen <=> q = cap.qemu /\ k = cap.snap
  <2>1. /\ \A q \in Qemus, k \in Keys :
              /\ <<q, k>> \in Names /\ <<q, k>>[1] = q
              /\ <<q, k>> = Active <=> q = cap.qemu /\ k = Head
              /\ <<q, k>> = Frozen <=> q = cap.qemu /\ k = cap.snap
        /\ cap.pc # "idle" => Active # Frozen
    BY TwoNames, NameFacts
  <2>2. /\ BitmapsOK /\ Active \in Names /\ Frozen \in Names /\ Found \subseteq Qemus
        /\ cap.pc # "idle" => cap.snap \in Snaps
    BY SnapFacts
  <2>3. \A n \in Names : bitmap[n].st = "none" => bitmap[n].bits = {}
    BY DEF QemuInv
  <2>4. Head \in Keys /\ Head \notin Snaps /\ Snaps \subseteq Keys
    BY KeyFacts
  <2>. QED
    BY <1>g, <2>1, <2>2, <2>3, <2>4 DEF TypeInv, BitmapsOK
<1>f. \A p, q \in Found : p = q
  BY DEF TypeInv, Found, Matched
<1>h. /\ \A q \in Found : /\ Before(q) => bitmap[<<q, Head>>].bits \subseteq Marked(Recorded(cap.snap))
                          /\ ~Before(q) => bitmap[<<q, Head>>].bits \subseteq Marked(changed)
      /\ \A q \in Qemus, s \in Snaps : bitmap[<<q, s>>].bits \subseteq Marked(Recorded(s))
  BY <1>0 DEF ExtraInv
\* It suffices to state the bits of the next state under the marks of this one.
<1>e. ASSUME Found' = Found,
             \A q \in Found : Before(q)' => bitmap'[<<q, Head>>].bits \subseteq Marked(Recorded(cap.snap)'),
             \A q \in Found : ~Before(q)' => bitmap'[<<q, Head>>].bits \subseteq Marked(changed'),
             \A q \in Qemus, s \in Snaps : bitmap'[<<q, s>>].bits \subseteq Marked(Recorded(s)')
      PROVE  ExtraInv'
  <2>1. /\ Marked(Recorded(cap.snap))' = Marked(Recorded(cap.snap)')
        /\ Marked(changed)' = Marked(changed')
        /\ \A s : Marked(Recorded(s))' = Marked(Recorded(s)')
    BY <1>g DEF Marked, Block
  <2>. QED
    BY <1>e, <2>1 DEF ExtraInv
\* A write, that an active bitmap or the snapshot's may record.
<1>1. ASSUME NEW u \in Units, Wrote(u),
             \A n \in Names : \/ bitmap'[n].bits = bitmap[n].bits
                              \/ bitmap[n].st = "on" /\ bitmap'[n].bits = bitmap[n].bits \cup Block(u)
      PROVE  ExtraInv'
  <2>1. /\ changed \subseteq changed' /\ u \in changed' /\ UNCHANGED <<interval, cap, reg, up>>
        /\ late' = IF cap.pc = "idle" THEN late ELSE [late EXCEPT ![cap.snap] = @ \cup {u}]
    BY <1>1 DEF Wrote
  <2>2. /\ \A s \in Snaps : Recorded(s) \subseteq Recorded(s)'
        /\ cap.pc # "idle" => u \in Recorded(cap.snap)'
    BY <1>0, <2>1 DEF Recorded
  <2>3. Marked(changed) \subseteq Marked(changed') /\ Block(u) \subseteq Marked(changed')
    BY <2>1, MarkedFacts
  <2>4. /\ \A s \in Snaps : Marked(Recorded(s)) \subseteq Marked(Recorded(s)')
        /\ cap.pc # "idle" => Block(u) \subseteq Marked(Recorded(cap.snap)')
    BY <2>2, MarkedFacts
  <2>5. /\ \A q : Before(q)' = Before(q) /\ (Before(q) => cap.pc # "idle")
        /\ Found' = Found
    BY <2>1 DEF Before, Found, Matched
  <2>6. cap.pc # "idle" => Recorded(cap.snap)' = Recorded(cap.snap)' /\ cap.snap \in Snaps
    BY <1>0
  <2>7. ASSUME NEW q \in Found, Before(q)
        PROVE  bitmap'[<<q, Head>>].bits \subseteq Marked(Recorded(cap.snap)')
    <3>1. /\ <<q, Head>> \in Names /\ cap.snap \in Snaps /\ cap.pc # "idle"
          /\ bitmap[<<q, Head>>].bits \subseteq Marked(Recorded(cap.snap))
      BY <1>0, <1>h, <2>5, <2>7
    <3>2. Marked(Recorded(cap.snap)) \subseteq Marked(Recorded(cap.snap)')
      <4>1. Recorded(cap.snap) \subseteq Recorded(cap.snap)'
        BY <1>0, <2>1, <3>1 DEF Recorded
      <4>. QED
        BY <4>1, MarkedFacts
    <3>. QED
      BY <1>1, <2>4, <3>1, <3>2
  <2>8. ASSUME NEW q \in Found, ~Before(q) PROVE bitmap'[<<q, Head>>].bits \subseteq Marked(changed')
    <3>1. <<q, Head>> \in Names /\ bitmap[<<q, Head>>].bits \subseteq Marked(changed)
      BY <1>0, <1>h, <2>8
    <3>. QED
      BY <1>1, <2>3, <3>1
  <2>9. ASSUME NEW q \in Qemus, NEW s \in Snaps
        PROVE  bitmap'[<<q, s>>].bits \subseteq Marked(Recorded(s)')
    <3>1. <<q, s>> \in Names /\ bitmap[<<q, s>>].bits \subseteq Marked(Recorded(s)')
      BY <1>0, <1>h, <2>4
    <3>2. CASE bitmap[<<q, s>>].st = "on"
      <4>1. cap.pc # "idle" /\ s = cap.snap
        BY <1>0, <3>2 DEF OrderInv, Busy
      <4>2. u \in Recorded(s)'
        BY <1>0, <2>1, <4>1 DEF Recorded
      <4>3. Block(u) \subseteq Marked(Recorded(s)')
        BY <4>2, MarkedFacts
      <4>. QED
        BY <1>1, <3>1, <4>3
    <3>3. CASE bitmap[<<q, s>>].st # "on"
      BY <1>1, <3>1, <3>3
    <3>. QED
      BY <3>2, <3>3
  <2>. QED
    BY <1>e, <2>5, <2>7, <2>8, <2>9
<1>2. ASSUME NEW u \in Units, NEW q \in up, Write(u, q) PROVE ExtraInv'
  <2>1. \A n \in Names : \/ bitmap'[n].bits = bitmap[n].bits
                         \/ bitmap[n].st = "on" /\ bitmap'[n].bits = bitmap[n].bits \cup Block(u)
    <3>1. BitmapsOK /\ u \in Units /\ q \in up /\ Write(u, q)
      BY <1>0, <1>2
    <3>. QED
      BY <3>1, WriteFacts
  <2>. QED
    BY <1>1, <1>2, <2>1 DEF Write
<1>3. ASSUME NEW u \in Units, WriteDirect(u) PROVE ExtraInv'
  BY <1>1, <1>3 DEF WriteDirect
<1>4. CASE TakeSnapshot
  <2>1. /\ bitmap' = bitmap /\ cap.pc = "idle" /\ UNCHANGED <<reg, up>>
        /\ cap' = [pc |-> "find", snap |-> taken + 1, qemu |-> Daemon]
        /\ interval' = [interval EXCEPT ![taken + 1] = [all |-> changed, told |-> told]]
        /\ late' = late
    BY <1>4 DEF TakeSnapshot, qemu
  <2>2. taken + 1 \in Snaps /\ taken + 1 > taken
    <3>1. taken < Limits[mode].snaps /\ Limits[mode].snaps \in Nat
          /\ taken \in 0..Limits[mode].snaps /\ mode \in Modes
      BY <1>4, KeyFacts DEF TakeSnapshot, Limit, TypeInv, TypeOK
    <3>2. taken + 1 \in 1..Limits[mode].snaps /\ taken + 1 > taken
      BY <3>1
    <3>. QED
      BY <3>1, <3>2, KeyFacts
  <2>3. \A q \in Qemus : bitmap[<<q, taken + 1>>].bits = {}
    <3>1. \A n \in Names : n[2] > taken => bitmap[n].st = "none"
      BY DEF QemuInv
    <3>. QED
      BY <1>0, <2>2, <3>1, NameFacts
  <2>4. \A q : ~Before(q) /\ Before(q)'
    BY <2>1 DEF Before
  <2>5. changed \subseteq Recorded(cap.snap)'
    BY <1>0, <2>1, <2>2 DEF Recorded
  <2>6. \A q \in Found : bitmap'[<<q, Head>>].bits \subseteq Marked(Recorded(cap.snap)')
    BY <1>h, <2>1, <2>4, <2>5, MarkedFacts
  <2>7. \A q \in Qemus, s \in Snaps : bitmap'[<<q, s>>].bits \subseteq Marked(Recorded(s)')
    <3>1. \A s \in Snaps : s # taken + 1 => Recorded(s)' = Recorded(s)
      BY <1>0, <2>1 DEF Recorded
    <3>. QED
      BY <1>h, <2>1, <2>3, <3>1
  <2>8. Found' = Found
    BY <2>1 DEF Found, Matched
  <2>. QED
    BY <1>e, <2>4, <2>6, <2>7, <2>8
\* A step that writes nothing: it clears the one bitmap that captures use, or leaves it.
<1>5. ASSUME UNCHANGED <<changed, interval, late, reg, up>>, cap'.pc # "find",
             \A q \in Qemus, s \in Snaps : bitmap'[<<q, s>>].bits \subseteq Marked(Recorded(s)),
             \A q \in Found : \/ /\ bitmap'[<<q, Head>>].bits = bitmap[<<q, Head>>].bits
                                 /\ (Before(q)' <=> Before(q)) /\ (Before(q) => cap'.snap = cap.snap)
                              \/ ~Before(q)' /\ bitmap'[<<q, Head>>].bits = {}
      PROVE  ExtraInv'
  <2>1. \A s : Recorded(s)' = Recorded(s)
    BY <1>5 DEF Recorded
  <2>2. cap'.snap = cap.snap => Recorded(cap.snap)' = Recorded(cap.snap)
    BY <1>5 DEF Recorded
  <2>3. \A q \in Found : Before(q)' => bitmap'[<<q, Head>>].bits \subseteq Marked(Recorded(cap.snap)')
    BY <1>5, <1>h, <2>2
  <2>4. \A q \in Found : ~Before(q)' => bitmap'[<<q, Head>>].bits \subseteq Marked(changed')
    BY <1>5, <1>h
  <2>5. \A q \in Qemus, s \in Snaps : bitmap'[<<q, s>>].bits \subseteq Marked(Recorded(s)')
    BY <1>5, <2>1
  <2>6. Found' = Found
    BY <1>5 DEF Found, Matched
  <2>. QED
    BY <1>e, <2>3, <2>4, <2>5, <2>6
<1>6. CASE Capture
  <2>0. UNCHANGED <<changed, interval, late, reg, up>>
    BY <1>6 DEF Capture, CapRest, CapFind, CapDisable, CapAdd, CapMerge, CapClear, CapEnable,
                CapFreeze, CapExport, CapSave, CapFails, disk, qemu
  <2>a. Busy => cap.qemu \in Found
    BY <1>0 DEF OrderInv
  <2>1. CASE CapFind
    <3>1. ASSUME NEW q \in Found, cap' = [cap EXCEPT !.pc = "disable", !.qemu = q] PROVE ExtraInv'
      <4>1. /\ cap.pc = "find" /\ cap'.pc = "disable" /\ cap'.qemu = q /\ cap'.snap = cap.snap
            /\ bitmap' = bitmap
        BY <1>0, <2>1, <3>1 DEF CapFind
      <4>2. \A p \in Found : Before(p) /\ Before(p)'
        BY <1>f, <4>1 DEF Before
      <4>. QED
        BY <1>5, <1>h, <2>0, <4>1, <4>2
    <3>2. ASSUME cap' = CapIdle, \A q \in Found : ~Tracked(q) PROVE ExtraInv'
      <4>1. cap.pc = "find" /\ cap'.pc = "idle" /\ bitmap' = bitmap
        BY <2>1, <3>2 DEF CapFind, CapIdle
      <4>2. \A q \in Found : bitmap[<<q, Head>>].bits = {}
        <5>1. SUFFICES ASSUME NEW q \in Found PROVE bitmap[<<q, Head>>].st = "none"
          BY <1>0
        <5>2. q \in up
          BY <1>0 DEF QemuInv, Found, Matched
        <5>. QED
          BY <3>2, <5>2 DEF Tracked
      <4>3. \A q : ~Before(q)'
        BY <4>1 DEF Before
      <4>. QED
        BY <1>5, <1>h, <2>0, <4>1, <4>2, <4>3
    <3>. QED
      BY <2>1, <3>1, <3>2 DEF CapFind
  \* A command that moves no bits.
  <2>2. ASSUME Busy, cap'.pc # "find",
               cap'.pc \in {"disable", "add", "merge", "clear"}
                   <=> cap.pc \in {"disable", "add", "merge", "clear"},
               cap'.pc # "idle" => cap'.snap = cap.snap /\ cap'.qemu = cap.qemu,
               \A n \in Names : bitmap'[n].bits = bitmap[n].bits
        PROVE  ExtraInv'
    <3>1. \A q : (Before(q)' <=> Before(q)) /\ (Before(q) => cap'.snap = cap.snap)
      BY <2>2 DEF Before, Busy
    <3>2. \A q \in Qemus, k \in Keys : bitmap'[<<q, k>>].bits = bitmap[<<q, k>>].bits
      BY <1>0, <2>2
    <3>3. \A q \in Qemus, s \in Snaps : bitmap'[<<q, s>>].bits \subseteq Marked(Recorded(s))
      <4>1. SUFFICES ASSUME NEW q \in Qemus, NEW s \in Snaps
                     PROVE  bitmap'[<<q, s>>].bits \subseteq Marked(Recorded(s))
        OBVIOUS
      <4>2. bitmap'[<<q, s>>].bits = bitmap[<<q, s>>].bits
        <5>1. s \in Keys
          BY <1>0
        <5>. QED
          BY <3>2, <5>1
      <4>. QED
        BY <1>h, <4>2
    <3>. QED
      BY <1>0, <1>5, <2>0, <2>2, <3>1, <3>2, <3>3
  <2>3. CASE CapDisable
    <3>1. /\ cap.pc = "disable" /\ cap'.pc = "add" /\ cap'.snap = cap.snap /\ cap'.qemu = cap.qemu
          /\ bitmap' = [bitmap EXCEPT ![Active].st = "off"]
      BY <1>0, <2>3 DEF CapDisable, SetState, CapGoto
    <3>2. \A n \in Names : bitmap'[n].bits = bitmap[n].bits
      BY <1>0, <3>1 DEF Bitmaps
    <3>. QED
      BY <2>2, <3>1, <3>2 DEF Busy
  <2>4. CASE CapAdd
    <3>1. /\ cap.pc = "add" /\ cap'.pc = "merge" /\ cap'.snap = cap.snap /\ cap'.qemu = cap.qemu
          /\ bitmap[Frozen].st = "none"
          /\ bitmap' = [bitmap EXCEPT ![Frozen] = Empty("on")]
      BY <1>0, <2>4 DEF CapAdd, CapGoto
    <3>2. \A n \in Names : bitmap'[n].bits = bitmap[n].bits
      BY <1>0, <3>1 DEF Bitmaps, Empty
    <3>. QED
      BY <2>2, <3>1, <3>2 DEF Busy
  <2>5. CASE CapMerge
    <3>1. /\ cap.pc = "merge" /\ cap'.pc = "clear" /\ cap'.snap = cap.snap /\ cap'.qemu = cap.qemu
          /\ bitmap' = [bitmap EXCEPT ![Frozen].bits = @ \cup bitmap[Active].bits]
      BY <1>0, <2>5 DEF CapMerge, CapGoto
    <3>2. \A n \in Names : bitmap'[n].bits = IF n = Frozen THEN bitmap[n].bits \cup bitmap[Active].bits
                                             ELSE bitmap[n].bits
      <4>1. \A n \in Names : bitmap'[n] = IF n = Frozen
                                          THEN [bitmap[n] EXCEPT !.bits = @ \cup bitmap[Active].bits]
                                          ELSE bitmap[n]
        BY <1>0, <3>1 DEF Bitmaps
      <4>2. \A n \in Names : bitmap[n] \in [st : {"none", "on", "off"}, bits : SUBSET Units]
        BY <1>0 DEF Bitmaps
      <4>. QED
        BY <4>1, <4>2
    <3>3. bitmap[Active].bits \subseteq Marked(Recorded(cap.snap))
      BY <1>h, <2>a, <3>1 DEF Active, Before, Busy
    <3>4. \A q \in Qemus, s \in Snaps : bitmap'[<<q, s>>].bits \subseteq Marked(Recorded(s))
      <4>1. \A q \in Qemus, s \in Snaps :
              /\ <<q, s>> \in Names
              /\ <<q, s>> = Frozen => s = cap.snap
        BY <1>0
      <4>. QED
        BY <1>h, <3>2, <3>3, <4>1
    <3>5. \A q : Before(q)' = Before(q)
      BY <3>1 DEF Before
    <3>6. \A q \in Found : bitmap'[<<q, Head>>].bits = bitmap[<<q, Head>>].bits
      <4>1. \A q \in Found : <<q, Head>> \in Names /\ <<q, Head>> # Frozen
        BY <1>0, <3>1
      <4>. QED
        BY <3>2, <4>1
    <3>. QED
      BY <1>5, <2>0, <3>1, <3>4, <3>5, <3>6
  <2>6. CASE CapClear
    <3>1. /\ cap.pc = "clear" /\ cap'.pc = "enable" /\ bitmap' = [bitmap EXCEPT ![Active].bits = {}]
      BY <1>0, <2>6 DEF CapClear, CapGoto
    <3>2. \A n \in Names : bitmap'[n].bits = IF n = Active THEN {} ELSE bitmap[n].bits
      BY <1>0, <3>1 DEF Bitmaps
    <3>3. \A q \in Found : bitmap'[<<q, Head>>].bits = {}
      <4>1. \A q \in Found : <<q, Head>> \in Names /\ <<q, Head>> = Active
        BY <1>0, <1>f, <2>a, <3>1 DEF Busy
      <4>. QED
        BY <3>2, <4>1
    <3>4. \A q \in Qemus, s \in Snaps : bitmap'[<<q, s>>].bits = bitmap[<<q, s>>].bits
      <4>1. ASSUME NEW q \in Qemus, NEW s \in Snaps PROVE <<q, s>> \in Names /\ <<q, s>> # Active
        <5>1. s \in Keys /\ s # Head
          BY <1>0
        <5>. QED
          BY <1>0, <5>1
      <4>. QED
        BY <3>2, <4>1
    <3>5. \A q : ~Before(q)'
      BY <3>1 DEF Before
    <3>. QED
      BY <1>5, <1>h, <2>0, <3>1, <3>3, <3>4, <3>5
  <2>7. CASE CapEnable
    <3>1. /\ cap.pc = "enable" /\ cap'.pc = "freeze" /\ cap'.snap = cap.snap /\ cap'.qemu = cap.qemu
          /\ bitmap' = [bitmap EXCEPT ![Active].st = "on"]
      BY <1>0, <2>7 DEF CapEnable, SetState, CapGoto
    <3>2. \A n \in Names : bitmap'[n].bits = bitmap[n].bits
      BY <1>0, <3>1 DEF Bitmaps
    <3>. QED
      BY <2>2, <3>1, <3>2 DEF Busy
  <2>8. CASE CapFreeze
    <3>1. /\ cap.pc = "freeze" /\ cap'.pc = "export" /\ cap'.snap = cap.snap /\ cap'.qemu = cap.qemu
          /\ bitmap' = [bitmap EXCEPT ![Frozen].st = "off"]
      BY <1>0, <2>8 DEF CapFreeze, SetState, CapGoto
    <3>2. \A n \in Names : bitmap'[n].bits = bitmap[n].bits
      BY <1>0, <3>1 DEF Bitmaps
    <3>. QED
      BY <2>2, <3>1, <3>2 DEF Busy
  <2>9. CASE CapExport
    <3>1. cap.pc = "export" /\ cap'.pc = "save" /\ cap'.snap = cap.snap /\ cap'.qemu = cap.qemu /\ bitmap' = bitmap
      BY <1>0, <2>9 DEF CapExport, CapGoto
    <3>. QED
      BY <2>2, <3>1 DEF Busy
  <2>10. CASE CapSave
    <3>1. cap.pc = "save" /\ cap'.pc = "idle" /\ bitmap' = bitmap
      BY <2>10 DEF CapSave, CapIdle, qemu
    <3>. QED
      BY <2>2, <3>1 DEF Busy
  <2>11. CASE CapFails
    BY <1>0, <2>11, NoneRefused DEF CapFails
  <2>. QED
    BY <1>6, <2>1, <2>3, <2>4, <2>5, <2>6, <2>7, <2>8, <2>9, <2>10, <2>11 DEF Capture
<1>7. CASE (\E s \in Snaps : DestroySnapshot(s)) \/ List
  <2>1. UNCHANGED <<changed, interval, late, reg, up, bitmap, cap>>
    BY <1>7, ListFrame DEF DestroySnapshot, qemu, disk
  <2>2. \A q : Before(q)' = Before(q)
    BY <2>1 DEF Before
  <2>3. Recorded(cap.snap)' = Recorded(cap.snap) /\ \A s : Recorded(s)' = Recorded(s)
    BY <2>1 DEF Recorded
  <2>4. Found' = Found
    BY <2>1 DEF Found, Matched
  <2>. QED
    BY <1>e, <1>h, <2>1, <2>2, <2>3, <2>4
<1>. QED
  BY <1>0, <1>2, <1>3, <1>4, <1>6, <1>7, CalmSteps DEF Next


-----------------------------------------------------------------------------
(* The theorems.                                                           *)

CbtInv == TypeInv /\ QemuInv /\ OrderInv /\ MissInv /\ WalkInv /\ ExtraInv

LEMMA CbtInit == Init => CbtInv
<1> SUFFICES ASSUME Init PROVE CbtInv
  OBVIOUS
<1>1. TypeInv
  BY TypeInit
<1>2. /\ taken = 0 /\ exported = {} /\ cap.pc = "idle" /\ deact.pc = "idle"
      /\ list.pc = "idle" /\ ~list.omitted /\ list.all = {}
      /\ \A q \in Qemus : told[q] = {}
      /\ \A k \in Keys : saved[k].live = {} /\ file[k] = {}
  BY DEF Init, Idle, CapIdle, DeactIdle, Nothing
<1>3. \A n \in Names : /\ bitmap[n].bits = {} /\ bitmap[n].st # "off"
                       /\ bitmap[n].st # "none" => n[2] = Head
  <2>1. PICK s \in Limit.starts :
          bitmap = [n \in Names |-> IF n[1] \in s[2] /\ n[2] = Head THEN Empty("on") ELSE None]
    BY DEF Init
  <2>. QED
    BY <2>1 DEF Empty, None
<1>4. reg => Daemon \in up
  <2>1. PICK s \in Limit.starts : reg = (Daemon \in up)
    BY DEF Init
  <2>. QED
    BY <2>1
<1>5. /\ Head \in Keys /\ Head \notin Snaps /\ Snaps \subseteq Keys /\ Head = 0
      /\ \A q \in Qemus, k \in Keys : <<q, k>> \in Names /\ <<q, k>>[2] = k
  BY KeyFacts, NameFacts DEF Head
<1>6. QemuInv
  BY <1>2, <1>3, <1>4, <1>5 DEF QemuInv
<1>7. OrderInv
  <2>1. \A q \in Qemus : bitmap[<<q, Head>>].st # "off"
    BY <1>3, <1>5
  <2>2. \A q \in Qemus, k \in Snaps : bitmap[<<q, k>>].st # "on"
    BY <1>3, <1>5
  <2>. QED
    BY <1>2, <2>1, <2>2 DEF OrderInv, Busy
<1>8. MissInv
  BY <1>2, <1>5 DEF MissInv, Recording, Moving, Carried, Saved, Held
<1>9. WalkInv
  BY <1>2 DEF WalkInv, ReadAll, Fetching
<1>10. ExtraInv
  <2>1. \A q \in Qemus, k \in Keys : bitmap[<<q, k>>].bits = {}
    BY <1>3, <1>5
  <2>2. Found \subseteq Qemus
    BY <1>1, SnapFacts
  <2>3. \A q \in Found : bitmap[<<q, Head>>].bits = {}
    BY <1>5, <2>1, <2>2
  <2>4. \A q \in Qemus, s \in Snaps : bitmap[<<q, s>>].bits = {}
    BY <1>5, <2>1
  <2>. QED
    BY <2>3, <2>4 DEF ExtraInv
<1>. QED
  BY <1>1, <1>6, <1>7, <1>8, <1>9, <1>10 DEF CbtInv

LEMMA CbtStutter == CbtInv /\ UNCHANGED vars => CbtInv'
<1> SUFFICES ASSUME CbtInv, UNCHANGED vars PROVE CbtInv'
  OBVIOUS
<1> USE DEF CbtInv, vars, config, qemu, disk, ledger
<1>1. TypeInv'
  BY DEF TypeInv, TypeOK, Limit
<1>2. QemuInv' /\ OrderInv'
  BY DEF QemuInv, OrderInv, Busy, Found, Matched, Active, Frozen, DeactActive
<1>3. MissInv'
  BY DEF MissInv, Recording, Moving, Carried, Whole, Active, Frozen, Saved, Held
<1>4. WalkInv'
  BY DEF WalkInv, ReadAll, Fetching, Position, Chunk, Held
<1>5. ExtraInv'
  BY DEF ExtraInv, Found, Matched, Before, Recorded, Marked, Block
<1>. QED
  BY <1>1, <1>2, <1>3, <1>4, <1>5

\* What holds of the bitmaps of a VDI, of its payloads and of a list in progress,
\* whatever the QEMUs, the guest and xapi do between any two commands.
THEOREM CbtInvariant == Spec => []CbtInv
<1>1. CbtInv /\ [Next]_vars => CbtInv'
  BY TypeStep, QemuStep, OrderStep, MissStep, WalkStep, ExtraStep, CbtStutter DEF CbtInv
<1>. QED
  BY CbtInit, <1>1, PTL DEF Spec

\* A payload names a bitmap of its own key only, a daemon that runs is registered,
\* and an export has a frozen bitmap behind it (volume.py:1075-1094,
\* qemudisk_raw.py:1317-1353).
THEOREM CbtTypeCorrect == Spec => []TypeOK
<1>1. CbtInv => TypeOK
  BY DEF CbtInv, TypeInv
<1>. QED
  BY <1>1, CbtInvariant, PTL

\* For any disk, chunk, block and set of domains: what the tracking bitmap of the
\* QEMU that a payload names recorded before the key's ZFS snapshot is in every
\* complete reply of list_changed_blocks, while that QEMU lives (volume.py:576-681,
\* 1012-1094).  Writes that reached another QEMU or none are not in its hypothesis.
THEOREM ListsMissNothing == Spec => []NothingMissed
<1>1. CbtInv => NothingMissed
  <2> SUFFICES ASSUME CbtInv, Complete PROVE ReplyOf(owed.live) \subseteq list.bits
    BY DEF NothingMissed
  <2>1. owed.live \subseteq Cover(list.all)
    <3>1. list.todo = {}
      BY DEF CbtInv, WalkInv, Complete, Answered
    <3>. QED
      BY <3>1 DEF CbtInv, WalkInv, ReadAll, Complete, Answered
  <2>2. list.bits = BlocksOf(Cover(list.all), list.off, list.len, list.gran)
    BY DEF CbtInv, WalkInv, Complete, Answered
  <2>. QED
    BY <2>1, <2>2, BlocksRise DEF ReplyOf
<1>. QED
  BY <1>1, CbtInvariant, PTL

\* The chunks of the walk, the descriptors of the replies and the packing lose and
\* add nothing (nbd_client.py:220-287, volume.py:1165-1201).
THEOREM RepliesMatchBitmaps == Spec => []ReportsBitmaps
<1>1. CbtInv => ReportsBitmaps
  <2> SUFFICES ASSUME CbtInv, mode # "restarts", Complete
               PROVE  list.bits = ReplyOf(UNION {bitmap[n].bits : n \in list.names})
    BY DEF ReportsBitmaps
  <2>1. /\ ReadAll /\ Payload(list.key, list.names)
        /\ list.bits = BlocksOf(Cover(list.all), list.off, list.len, list.gran)
    BY DEF CbtInv, WalkInv, ReadAll, Complete, Answered
  <2>2. PICK n \in list.names : list.names = {n}
    BY <2>1 DEF Payload, ReadAll
  <2>3. Cover(list.all) = bitmap[n].bits
    BY <2>1 DEF CbtInv, WalkInv
  <2>4. UNION {bitmap[m].bits : m \in list.names} = bitmap[n].bits
    BY <2>2
  <2>. QED
    BY <2>1, <2>3, <2>4 DEF ReplyOf
<1>. QED
  BY <1>1, CbtInvariant, PTL

\* When no capture breaks off, a snapshot's reply adds only what was written while it
\* was captured, and the rest of a block that was written (volume.py:1049-1094).
THEOREM ListsAddNothing == Spec => []NothingExtra
<1>1. CbtInv => NothingExtra
  <2> SUFFICES ASSUME CbtInv, mode = "destroys", Answered, list.key # Head
               PROVE  list.bits \subseteq ReplyOf(Marked(Recorded(list.key)))
    BY DEF NothingExtra, Marked, Recorded
  <2>1. /\ list.key \in Snaps
        /\ list.bits = BlocksOf(Cover(list.all), list.off, list.len, list.gran)
        /\ Payload(list.key, list.names)
    BY DEF CbtInv, WalkInv, Answered, Keys
  <2>2. Cover(list.all) \subseteq Marked(Recorded(list.key))
    <3>1. CASE list.all = {}
      BY <3>1, CoverFacts
    <3>2. CASE list.all # {}
      <4>1. ReadAll
        BY <3>2 DEF CbtInv, WalkInv
      <4>2. PICK q \in Qemus : list.names = {<<q, list.key>>}
        BY <2>1, <4>1 DEF Payload, ReadAll
      <4>3. Cover(list.all) = bitmap[<<q, list.key>>].bits
        BY <4>1, <4>2 DEF CbtInv, WalkInv
      <4>. QED
        BY <2>1, <4>3 DEF CbtInv, ExtraInv
    <3>. QED
      BY <3>1, <3>2
  <2>. QED
    BY <2>1, <2>2, BlocksRise DEF ReplyOf
<1>. QED
  BY <1>1, CbtInvariant, PTL

=============================================================================
