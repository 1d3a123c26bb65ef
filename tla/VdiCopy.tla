------------------------------ MODULE VdiCopy ------------------------------
(***************************************************************************)
(* One Volume.copy of a VDI to another SR, with a Volume.destroy of the    *)
(* source VDI and the SR.ls of both SRs at any moment.  The copy holds the *)
(* lock of the source SR while it takes the transient snapshot and that of *)
(* the destination SR while it registers the copy, and none in between.    *)
(*                                                                         *)
(* A command of the copy may fail for reasons outside the model; one that  *)
(* cleans up, or that SR.ls runs, fails exactly when ZFS refuses it.       *)
(***************************************************************************)
EXTENDS FiniteSets

CONSTANT LongCopies   \* zfs send | receive may outlast orphan_grace_period_seconds

ASSUME CopyAssumption == LongCopies \in BOOLEAN

VARIABLES
    same,      \* same_pool
    src,       \* the source VDI exists
    snap,      \* the zvol that holds the transient snapshot: the source ("src"),
               \* a VDI that replaced it ("heir"), the copy ("dest"), or "none"
    dest,      \* the zvol of the copy: "none", "partial" while received, "there"
    recv,      \* the snapshot zfs receive has made of it exists
    row,       \* the destination metabase has the row of the copy
    pc,        \* control of Volume.copy
    old,       \* the objects older than the grace period
    scan       \* the SR.ls of each SR

zfs  == <<snap, dest, recv>>
vars == <<same, src, zfs, row, pc, old, scan>>

Objects == {"snap", "dest", "recv"}
SRs     == {"srcSR", "destSR"}
NoScan  == [pc |-> "idle", known |-> FALSE, late |-> FALSE, orphans |-> {}]
Ended   == {"done", "failed", "aborted"}

Init ==
    /\ same \in BOOLEAN /\ src = TRUE
    /\ snap = "none" /\ dest = "none" /\ recv = FALSE /\ row = FALSE
    /\ pc = "snapshot" /\ old = {}
    /\ scan = [s \in SRs |-> NoScan]

-----------------------------------------------------------------------------
(* What ZFS allows.                                                        *)

\* The copy of a same-pool copy is a clone of the snapshot; a promotion has
\* turned that round once the copy holds the snapshot itself.
HasClone == same /\ snap # "dest" /\ dest = "there"
Sending  == pc = "receive"

SnapDestroyable == ~HasClone /\ ~Sending
DestDestroyableAlways == dest = "there"  \* mutant of DestDestroyable
\* destroy_zvol destroys nothing below the zvol: a snapshot on it is refused.
DestDestroyable == dest = "there" /\ ~recv /\ snap # "dest"

SnapGone == snap' = "none" /\ old' = old \ {"snap"}
DestGone == dest' = "none" /\ old' = old \ {"dest"}
RecvGone == recv' = FALSE /\ old' = old \ {"recv"}

-----------------------------------------------------------------------------
(* Volume.copy.                                                            *)

Copying == UNCHANGED <<same, src, row, scan>>

\* Phase 1, under the lock of the source SR.
TakeSnapshot ==
    /\ pc = "snapshot" /\ src
    /\ snap' = "src"
    /\ pc' = "thickness"
    /\ Copying /\ UNCHANGED <<dest, recv, old>>

\* The refreservation of the source is read outside any lock or try.
ReadThickness ==
    /\ pc = "thickness" /\ src
    /\ pc' = IF same THEN "clone" ELSE "send"
    /\ Copying /\ UNCHANGED <<zfs, old>>

\* Phase 2.
CloneSnapshot ==
    /\ pc = "clone" /\ snap = "src"
    /\ dest' = "there"
    /\ \E thick \in BOOLEAN : pc' = IF thick THEN "reserve" ELSE "register"
    /\ Copying /\ UNCHANGED <<snap, recv, old>>

SendReceive ==
    /\ pc = "send" /\ snap = "src"
    /\ dest' = "partial"
    /\ pc' = "receive"
    /\ Copying /\ UNCHANGED <<snap, recv, old>>

\* A received snapshot keeps the creation time of the one sent.
Received ==
    /\ pc = "receive"
    /\ dest' = "there" /\ recv' = TRUE
    /\ old' = IF "snap" \in old THEN old \cup {"recv"} ELSE old
    /\ \E thick \in BOOLEAN : pc' = IF thick THEN "reserve" ELSE "drop_snap"
    /\ Copying /\ UNCHANGED snap

Reserve ==
    /\ pc = "reserve" /\ dest = "there"
    /\ pc' = IF same THEN "register" ELSE "drop_snap"
    /\ Copying /\ UNCHANGED <<zfs, old>>

\* An exception of phase 2; a receive that fails removes what it received.
ReplicationFails ==
    /\ pc \in {"clone", "send", "receive", "reserve"}
    /\ IF dest = "partial" THEN DestGone ELSE UNCHANGED <<dest, old>>
    /\ pc' = "undo_dest"
    /\ Copying /\ UNCHANGED <<snap, recv>>

UndoDest ==
    /\ pc = "undo_dest"
    /\ IF DestDestroyable THEN DestGone ELSE UNCHANGED <<dest, old>>
    /\ pc' = "undo_snap"
    /\ Copying /\ UNCHANGED <<snap, recv>>

UndoSnapForgotten ==  \* mutant of UndoSnap
    /\ pc = "undo_snap"
    /\ pc' = "failed"
    /\ Copying /\ UNCHANGED <<zfs, old>>

UndoSnap ==
    /\ pc = "undo_snap"
    /\ IF snap = "src" /\ SnapDestroyable THEN SnapGone ELSE UNCHANGED <<snap, old>>
    /\ pc' = "failed"
    /\ Copying /\ UNCHANGED <<dest, recv>>

\* Phase 3, between pools only.
DropSnap ==
    /\ pc = "drop_snap" /\ snap = "src"
    /\ SnapGone
    /\ pc' = "drop_recv"
    /\ Copying /\ UNCHANGED <<dest, recv>>

DropRecv ==
    /\ pc = "drop_recv" /\ recv
    /\ RecvGone
    /\ pc' = "register"
    /\ Copying /\ UNCHANGED <<snap, dest>>

DropFails ==
    /\ pc \in {"drop_snap", "drop_recv"}
    /\ pc' = "roll_dest"
    /\ Copying /\ UNCHANGED <<zfs, old>>

RollDest ==
    /\ pc = "roll_dest"
    /\ IF DestDestroyable THEN DestGone ELSE UNCHANGED <<dest, old>>
    /\ pc' = "roll_snap"
    /\ Copying /\ UNCHANGED <<snap, recv>>

RollSnap ==
    /\ pc = "roll_snap"
    /\ IF src /\ snap = "src" THEN SnapGone ELSE UNCHANGED <<snap, old>>
    /\ pc' = "roll_recv"
    /\ Copying /\ UNCHANGED <<dest, recv>>

RollRecv ==
    /\ pc = "roll_recv"
    /\ IF dest = "there" /\ recv THEN RecvGone ELSE UNCHANGED <<recv, old>>
    /\ pc' = "failed"
    /\ Copying /\ UNCHANGED <<snap, dest>>

\* Phase 4, under the lock of the destination SR.
Register ==
    /\ pc = "register"
    /\ row' = TRUE
    /\ pc' = "done"
    /\ UNCHANGED <<same, src, zfs, old, scan>>

\* An exception no handler of Volume.copy cleans up after.
Abort ==
    /\ pc \in {"snapshot", "thickness", "register"}
    /\ pc' = "aborted"
    /\ Copying /\ UNCHANGED <<zfs, old>>

Crash ==
    /\ pc \notin Ended
    /\ IF dest = "partial" THEN DestGone ELSE UNCHANGED <<dest, old>>
    /\ pc' = "aborted"
    /\ Copying /\ UNCHANGED <<snap, recv>>

Copy ==
    \/ TakeSnapshot \/ ReadThickness \/ CloneSnapshot \/ SendReceive \/ Received
    \/ Reserve \/ ReplicationFails \/ UndoDest \/ UndoSnap
    \/ DropSnap \/ DropRecv \/ DropFails \/ RollDest \/ RollSnap \/ RollRecv
    \/ Register \/ Abort \/ Crash

-----------------------------------------------------------------------------
(* Volume.destroy of the source: a snapshot on it goes to the clone that   *)
(* is promoted, the copy if it is one, else one made for the purpose.  ZFS *)
(* promotes nothing while a snapshot is being sent.                        *)

DestroySource ==
    /\ src /\ ~Sending
    /\ src' = FALSE
    /\ snap' = CASE snap = "src" /\ HasClone -> "dest"
                 [] snap = "src" /\ ~HasClone -> "heir"
                 [] OTHER -> snap
    /\ UNCHANGED <<same, dest, recv, row, pc, old, scan>>

-----------------------------------------------------------------------------
(* SR.ls of either SR.                                                     *)

Scanning == UNCHANGED <<same, src, row, pc>>

LsRead(s) ==
    /\ scan[s] = NoScan
    /\ scan' = [scan EXCEPT ![s] = [NoScan EXCEPT !.pc = "find_zvols", !.known = row,
                                                     !.late = pc \in Ended]]
    /\ Scanning /\ UNCHANGED <<zfs, old>>

ZvolOrphans(s) == {x \in {"dest"} : s = "destSR" /\ dest = "there" /\ ~scan[s].known}

SnapOrphans(s) ==
    {x \in {"snap"} : snap \in (IF s = "srcSR" THEN {"src", "heir"} ELSE {"dest"})}
    \cup {x \in {"recv"} : s = "destSR" /\ recv}

LsFind(s) ==
    /\ scan[s].pc \in {"find_zvols", "find_snaps"}
    /\ scan' = [scan EXCEPT
         ![s].orphans = IF scan[s].pc = "find_zvols" THEN ZvolOrphans(s) ELSE SnapOrphans(s),
         ![s].pc = IF scan[s].pc = "find_zvols" THEN "reap_zvols" ELSE "reap_snaps"]
    /\ Scanning /\ UNCHANGED <<zfs, old>>

PastGraceNone(x) == TRUE     \* mutant of PastGrace
PastGraceNever(x) == FALSE   \* mutant of PastGrace
PastGrace(x) == x \in old

\* What `zfs destroy` refuses is logged and left to the next SR.ls.
LsReap(s) ==
    /\ scan[s].pc \in {"reap_zvols", "reap_snaps"}
    /\ \E x \in scan[s].orphans :
         /\ scan' = [scan EXCEPT ![s].orphans = @ \ {x}]
         /\ CASE x = "dest" /\ PastGrace(x) /\ DestDestroyable ->
                   DestGone /\ UNCHANGED <<snap, recv>>
              [] x = "snap" /\ PastGrace(x) /\ SnapDestroyable ->
                   SnapGone /\ UNCHANGED <<dest, recv>>
              [] x = "recv" /\ PastGrace(x) ->
                   RecvGone /\ UNCHANGED <<snap, dest>>
              [] OTHER -> UNCHANGED <<zfs, old>>
    /\ Scanning

LsNext(s) ==
    /\ scan[s].pc \in {"reap_zvols", "reap_snaps"} /\ scan[s].orphans = {}
    /\ scan' = [scan EXCEPT ![s] = IF scan[s].pc = "reap_zvols"
                                   THEN [scan[s] EXCEPT !.pc = "find_snaps"] ELSE NoScan]
    /\ Scanning /\ UNCHANGED <<zfs, old>>

Ls(s) == LsRead(s) \/ LsFind(s) \/ LsReap(s) \/ LsNext(s)

\* The grace period covers a copy and the scans that began before its end;
\* if copies may be long, all but the transfer of the data.
Exists(x) == CASE x = "snap" -> snap # "none" [] x = "dest" -> dest # "none"
               [] x = "recv" -> recv

Age(x) ==
    /\ Exists(x) /\ x \notin old
    /\ \/ pc \in Ended /\ \A s \in SRs : scan[s] = NoScan \/ scan[s].late
       \/ LongCopies /\ Sending
    /\ old' = old \cup {x}
    /\ UNCHANGED <<same, src, zfs, row, pc, scan>>

Next ==
    \/ Copy
    \/ DestroySource
    \/ \E s \in SRs : Ls(s)
    \/ \E x \in Objects : Age(x)

Spec == Init /\ [][Next]_vars

\* xapi scans attached SRs for ever, scans end, and time passes.
FairSpec ==
    /\ Spec
    /\ \A s \in SRs : WF_vars(Ls(s))
    /\ \A x \in Objects : WF_vars(Age(x))

-----------------------------------------------------------------------------
(* Properties.                                                             *)

\* Every variable keeps its type, and what ZFS cannot have never comes about:
\* a snapshot of a zvol that is not there.
TypeOK ==
    /\ same \in BOOLEAN /\ src \in BOOLEAN /\ recv \in BOOLEAN /\ row \in BOOLEAN
    /\ snap \in {"none", "src", "heir", "dest"}
    /\ dest \in {"none", "partial", "there"}
    /\ pc \in {"snapshot", "thickness", "clone", "send", "receive", "reserve",
               "undo_dest", "undo_snap", "drop_snap", "drop_recv", "roll_dest",
               "roll_snap", "roll_recv", "register"} \cup Ended
    /\ old \subseteq Objects
    /\ scan \in [SRs -> [pc : {"idle", "find_zvols", "reap_zvols", "find_snaps", "reap_snaps"},
                         known : BOOLEAN, late : BOOLEAN,
                         orphans : SUBSET Objects]]
    /\ (recv \/ snap = "dest") => dest = "there"
    /\ snap = "src" => src

\* A copy that is registered has its zvol: SR.ls of the destination spares it
\* while nothing but Volume.copy knows of it.
CopyBacked == row => dest = "there"

\* A copy between pools that succeeds leaves neither of its snapshots, as
\* Volume.copy says of phase 3, and one that reports failure has cleaned up the
\* source while that exists, and within a pool the destination too, whatever
\* SR.ls or Volume.destroy do.
CopyTidy ==
    /\ pc = "done" /\ ~same => ~recv /\ snap = "none"
    /\ pc = "failed" /\ src => snap = "none" /\ (same => dest = "none")

\* What a copy that did not succeed leaves behind is destroyed in the end.
CopyReclaimed == (pc \in {"failed", "aborted"}) ~> (dest = "none" /\ ~recv /\ snap = "none")
=============================================================================
