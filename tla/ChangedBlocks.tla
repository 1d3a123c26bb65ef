---------------------------- MODULE ChangedBlocks ----------------------------
(***************************************************************************)
(* Volume.list_changed_blocks as a reader sees it: the saved payload of a  *)
(* VDI names bitmaps, each is fetched over NBD in one BLOCK_STATUS request *)
(* per chunk, and the extents are packed into one bit per block.           *)
(*                                                                         *)
(* Offsets count the smallest granularity QEMU tracks.  Which bitmaps the  *)
(* NBD server has, and with what in them, is a parameter of the actions.   *)
(***************************************************************************)
EXTENDS Integers, FiniteSets

CONSTANTS
    Size,       \* of the disk
    ChunkSize,  \* _BLOCK_STATUS_CHUNK
    Default     \* _DEFAULT_CBT_GRANULARITY

ASSUME BlocksAssumption ==
    Size \in Nat \ {0} /\ ChunkSize \in Nat \ {0} /\ Default \in Nat \ {0}

VARIABLE list   \* the list_changed_blocks in progress

Units  == 0..Size - 1
Extent == [off : Units, len : 1..Size]
Nobody == -1
Idle   == [pc |-> "idle", key |-> Nobody, names |-> {}, todo |-> {}, bitmap |-> Nobody,
           off |-> 0, len |-> 0, gran |-> 1, at |-> 0, cur |-> 0,
           got |-> {}, all |-> {}, omitted |-> FALSE, bits |-> {}]

-----------------------------------------------------------------------------
(* The bitmap of the reply, as the set of its bits that are 1.             *)

AlignedStart(off, g) == (off \div g) * g
AlignedEnd(off, len, g) == -((-(off + len)) \div g) * g

Larger(a, b)  == IF a > b THEN a ELSE b
Smaller(a, b) == IF a < b THEN a ELSE b

PackShort(extents, off, len, g) ==  \* mutant of PackExtents
    LET start == AlignedStart(off, g)
        end   == AlignedEnd(off, len, g)
    IN UNION {LET from == Larger(e.off, start)
                  to   == Smaller(e.off + e.len, end)
              IN IF to <= from THEN {}
                 ELSE ((from - start) \div g)..(((to - start) \div g) - 1)
              : e \in extents}

PackExtents(extents, off, len, g) ==
    LET start == AlignedStart(off, g)
        end   == AlignedEnd(off, len, g)
    IN UNION {LET from == Larger(e.off, start)
                  to   == Smaller(e.off + e.len, end)
              IN IF to <= from THEN {}
                 ELSE ((from - start) \div g)..((to - 1 - start) \div g)
              : e \in extents}

\* The reference: bit i says that a unit of block i, counted from the block
\* that holds `off` to the one that holds the last byte asked for, is dirty.
BlocksOf(dirty, off, len, g) ==
    {i \in 0..((off + len - 1) \div g) - (off \div g) :
        \E u \in dirty : u \div g = off \div g + i}

-----------------------------------------------------------------------------
(* The walk.                                                               *)

\* `names` is what the file of the VDI holds.
ListBegin(key, names, off, len) ==
    /\ list.pc = "idle"
    /\ off + len <= Size
    /\ list' = [Idle EXCEPT !.pc = "next", !.key = key, !.names = names, !.todo = names,
                            !.off = off, !.len = len]

\* Connecting selects the bitmap as a metadata context; a bitmap that is not
\* exported, or a server that is not there, leaves it out of the result.
ListConnect(served) ==
    /\ list.pc = "next"
    /\ \E b \in list.todo :
         list' = IF b \in served
                 THEN [list EXCEPT !.todo = @ \ {b}, !.pc = "request", !.bitmap = b,
                                   !.at = 0, !.got = {}]
                 ELSE [list EXCEPT !.todo = @ \ {b}, !.omitted = TRUE]

Chunk == Smaller(ChunkSize, Size - list.at)

ListRequest ==
    /\ list.pc = "request" /\ list.at < Size
    /\ list' = [list EXCEPT !.pc = "reply", !.cur = list.at]

ReadDescriptor(n, dirty) ==
    [list EXCEPT !.cur = @ + n,
                 !.got = IF list.cur \in dirty
                         THEN @ \cup {[off |-> list.cur, len |-> n]} ELSE @]

\* A descriptor covers n units of one status.
ListReply(dirty) ==
    /\ list.pc = "reply"
    /\ \E n \in 1..(list.at + Chunk - list.cur) :
         /\ LET run == list.cur..list.cur + n - 1
            IN run \subseteq dirty \/ run \cap dirty = {}
         /\ list' = ReadDescriptor(n, dirty)

\* The walk goes on with the next chunk whatever the last reply covered; QEMU
\* cuts a reply short at 131072 extents only, more than a chunk can have.
ListChunkDone ==
    /\ list.pc = "reply"
    /\ list.cur = list.at + Chunk
    /\ list' = [list EXCEPT !.pc = "request", !.at = @ + Chunk]

\* An error reply, a timeout or a closed socket: what was read is dropped.
ListFetchFails ==
    /\ list.pc \in {"request", "reply"}
    /\ list' = [list EXCEPT !.pc = "next", !.omitted = TRUE, !.got = {}]

ListFetched ==
    /\ list.pc = "request" /\ list.at >= Size
    /\ list' = [list EXCEPT !.pc = "next", !.all = @ \cup list.got, !.got = {}]

\* The file is read a second time for the granularity of its payloads.
ListPack(grans) ==
    /\ list.pc = "next" /\ list.todo = {}
    /\ LET g == IF grans = {} THEN Default ELSE CHOOSE a \in grans : \A b \in grans : a >= b
       IN list' = [list EXCEPT !.pc = "done", !.gran = g,
                               !.bits = PackExtents(list.all, list.off, list.len, g)]

ListReturn ==
    /\ list.pc = "done"
    /\ list' = Idle
=============================================================================
