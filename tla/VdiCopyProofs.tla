---------------------------- MODULE VdiCopyProofs ----------------------------
(***************************************************************************)
(* Proofs about VdiCopy.  StageInv relates the control of Volume.copy to   *)
(* what it has made so far; with it the type and CopyTidy hold whatever    *)
(* the age of the objects.  GraceInv adds what the grace period gives when *)
(* no copy outlasts it: a scan that finds an object old enough began after *)
(* the copy had ended, and so knows the row.                               *)
(***************************************************************************)
EXTENDS VdiCopy, TLAPS

Early   == {"snapshot", "thickness", "clone", "send", "receive"}
Between == {"send", "receive", "drop_snap", "drop_recv", "roll_dest", "roll_snap", "roll_recv"}

StageInv ==
    /\ row <=> pc = "done"
    /\ pc \in Early => ~recv
    /\ dest = "partial" => pc = "receive"
    /\ pc = "clone" => same
    /\ same => pc \notin Between /\ ~recv
    /\ src => snap \in {"none", "src"}
    /\ pc = "drop_recv" => snap = "none"
    /\ pc \in {"register", "done"} /\ ~same => ~recv /\ snap = "none"
    /\ pc \in {"undo_snap", "failed"} /\ src /\ same => dest = "none"
    /\ pc \in {"roll_recv", "failed"} /\ src => snap = "none"

TypeInv == TypeOK /\ StageInv

GraceInv ==
    /\ old # {} => pc \in Ended /\ \A s \in SRs : scan[s] = NoScan \/ scan[s].late
    /\ \A s \in SRs : scan[s].late => pc \in Ended /\ scan[s].known = row
    /\ \A s \in SRs : "dest" \in scan[s].orphans => ~scan[s].known
    /\ pc \in {"drop_snap", "drop_recv", "register", "done"} => dest = "there"

-----------------------------------------------------------------------------
(* The type, and the stages of the copy.                                   *)

ScanType == [pc : {"idle", "find_zvols", "reap_zvols", "find_snaps", "reap_snaps"},
             known : BOOLEAN, late : BOOLEAN, orphans : SUBSET Objects]

LEMMA ScanIdle == NoScan \in ScanType
  BY DEF NoScan, ScanType

LEMMA ScanRead ==
  ASSUME NEW k \in BOOLEAN, NEW l \in BOOLEAN
  PROVE  [NoScan EXCEPT !.pc = "find_zvols", !.known = k, !.late = l] \in ScanType
  BY DEF NoScan, ScanType

LEMMA TypeInit == Init => TypeInv
  BY ScanIdle DEF ScanType, Init, TypeInv, TypeOK, StageInv, Ended, Early, Between

LEMMA TypeStep == TypeInv /\ [Next]_vars => TypeInv'
<1> SUFFICES ASSUME TypeInv, [Next]_vars PROVE TypeInv'
  OBVIOUS
<1> USE DEF TypeInv, TypeOK, StageInv, Ended, Early, Between, Objects
<1> USE DEF zfs, Copying, Scanning, SnapGone, DestGone, RecvGone
<1>1. CASE TakeSnapshot
  BY <1>1 DEF TakeSnapshot
<1>2. CASE ReadThickness
  BY <1>2 DEF ReadThickness
<1>3. CASE CloneSnapshot
  BY <1>3 DEF CloneSnapshot
<1>4. CASE SendReceive
  BY <1>4 DEF SendReceive
<1>5. CASE Received
  BY <1>5 DEF Received
<1>6. CASE Reserve
  BY <1>6 DEF Reserve
<1>7. CASE ReplicationFails
  BY <1>7 DEF ReplicationFails
<1>8. CASE UndoDest
  BY <1>8 DEF UndoDest, DestDestroyable
<1>9. CASE UndoSnap
  BY <1>9 DEF UndoSnap, SnapDestroyable, HasClone, Sending
<1>10. CASE DropSnap
  BY <1>10 DEF DropSnap
<1>11. CASE DropRecv
  BY <1>11 DEF DropRecv
<1>12. CASE DropFails
  BY <1>12 DEF DropFails
<1>13. CASE RollDest
  BY <1>13 DEF RollDest, DestDestroyable
<1>14. CASE RollSnap
  BY <1>14 DEF RollSnap
<1>15. CASE RollRecv
  BY <1>15 DEF RollRecv
<1>16. CASE Register
  BY <1>16 DEF Register
<1>17. CASE Abort
  BY <1>17 DEF Abort
<1>18. CASE Crash
  BY <1>18 DEF Crash
<1>19. CASE DestroySource
  BY <1>19 DEF DestroySource, HasClone
<1>20. ASSUME NEW s \in SRs, LsRead(s) PROVE TypeInv'
  <2>1. [NoScan EXCEPT !.pc = "find_zvols", !.known = row, !.late = pc \in Ended] \in ScanType
    <3> DEFINE k == row
               l == pc \in Ended
    <3>1. k \in BOOLEAN /\ l \in BOOLEAN
      OBVIOUS
    <3> HIDE DEF k, l
    <3>2. [NoScan EXCEPT !.pc = "find_zvols", !.known = k, !.late = l] \in ScanType
      BY <3>1, ScanRead
    <3> QED
      BY <3>2, Zenon DEF k, l
  <2> QED
    BY <1>20, <2>1 DEF LsRead, ScanType
<1>21. ASSUME NEW s \in SRs, LsFind(s) PROVE TypeInv'
  <2>1. ZvolOrphans(s) \subseteq Objects /\ SnapOrphans(s) \subseteq Objects
    BY DEF ZvolOrphans, SnapOrphans
  <2> QED
    BY <1>21, <2>1 DEF LsFind
<1>22. ASSUME NEW s \in SRs, LsReap(s) PROVE TypeInv'
  <2>1. PICK x \in scan[s].orphans : LsReap(s)!2!(x)
    BY <1>22 DEF LsReap
  <2>2. scan' \in [SRs -> ScanType]
    BY <2>1 DEF ScanType
  <2>3. UNCHANGED <<same, src, row, pc>>
    BY <1>22 DEF LsReap
  <2>4. CASE DestGone /\ DestDestroyable /\ UNCHANGED <<snap, recv>>
    BY <2>2, <2>3, <2>4 DEF DestDestroyable, ScanType
  <2>5. CASE SnapGone /\ UNCHANGED <<dest, recv>>
    BY <2>2, <2>3, <2>5 DEF ScanType
  <2>6. CASE RecvGone /\ UNCHANGED <<snap, dest>>
    BY <2>2, <2>3, <2>6 DEF ScanType
  <2>7. CASE UNCHANGED <<zfs, old>>
    BY <2>2, <2>3, <2>7 DEF ScanType
  <2> QED
    BY <2>1, <2>4, <2>5, <2>6, <2>7
<1>23. ASSUME NEW s \in SRs, LsNext(s) PROVE TypeInv'
  BY <1>23, ScanIdle DEF LsNext, ScanType
<1>24. ASSUME NEW x \in Objects, Age(x) PROVE TypeInv'
  BY <1>24 DEF Age
<1>25. CASE UNCHANGED vars
  BY <1>25 DEF vars
<1> QED
  BY <1>1, <1>2, <1>3, <1>4, <1>5, <1>6, <1>7, <1>8, <1>9, <1>10, <1>11, <1>12, <1>13,
     <1>14, <1>15, <1>16, <1>17, <1>18, <1>19, <1>20, <1>21, <1>22, <1>23, <1>24, <1>25
     DEF Next, Copy, Ls

\* Every variable keeps its type, and no snapshot is without its zvol.
THEOREM CopyTypeCorrect == Spec => []TypeOK
<1>1. TypeInv => TypeOK
  BY DEF TypeInv
<1> QED
  BY <1>1, TypeInit, TypeStep, PTL DEF Spec

\* Phase 3 of Volume.copy removes both transient snapshots of a copy between
\* pools, and the cleanup of a failed one is complete on the source, and within
\* a pool on the destination, however long the copy takes.
THEOREM CopiesAreTidy == Spec => []CopyTidy
<1>1. TypeInv => CopyTidy
  BY DEF TypeInv, StageInv, CopyTidy
<1> QED
  BY <1>1, TypeInit, TypeStep, PTL DEF Spec

-----------------------------------------------------------------------------
(* What the grace period gives.                                            *)

LEMMA GraceInit == Init => GraceInv
  BY DEF Init, GraceInv, NoScan, Ended

LEMMA GraceStep ==
  ASSUME ~LongCopies
  PROVE  TypeInv /\ GraceInv /\ [Next]_vars => GraceInv'
<1> SUFFICES ASSUME TypeInv, GraceInv, [Next]_vars PROVE GraceInv'
  OBVIOUS
<1> USE DEF TypeInv, StageInv, GraceInv, Ended
<1> USE DEF zfs, Copying, Scanning, SnapGone, DestGone, RecvGone
<1>1. CASE Copy
  <2>1. pc \notin Ended /\ old = {} /\ \A s \in SRs : ~scan[s].late
    BY <1>1 DEF Copy, TakeSnapshot, ReadThickness, CloneSnapshot, SendReceive, Received,
          Reserve, ReplicationFails, UndoDest, UndoSnap, DropSnap, DropRecv, DropFails,
          RollDest, RollSnap, RollRecv, Register, Abort, Crash
  <2>2. scan' = scan /\ old' = {}
    BY <1>1, <2>1 DEF Copy, TakeSnapshot, ReadThickness, CloneSnapshot, SendReceive, Received,
          Reserve, ReplicationFails, UndoDest, UndoSnap, DropSnap, DropRecv, DropFails,
          RollDest, RollSnap, RollRecv, Register, Abort, Crash
  <2>3. (pc \in {"drop_snap", "drop_recv", "register", "done"} => dest = "there")'
    BY <1>1 DEF Copy, TakeSnapshot, ReadThickness, CloneSnapshot, SendReceive, Received,
          Reserve, ReplicationFails, UndoDest, UndoSnap, DropSnap, DropRecv, DropFails,
          RollDest, RollSnap, RollRecv, Register, Abort, Crash
  <2> QED
    BY <2>1, <2>2, <2>3
<1>2. CASE DestroySource
  BY <1>2 DEF DestroySource
<1>3. ASSUME NEW s \in SRs, LsRead(s) PROVE GraceInv'
  BY <1>3 DEF LsRead, NoScan, TypeOK
<1>4. ASSUME NEW s \in SRs, LsFind(s) PROVE GraceInv'
  <2>1. "dest" \in ZvolOrphans(s) => ~scan[s].known
    BY DEF ZvolOrphans
  <2>2. "dest" \notin SnapOrphans(s)
    BY DEF SnapOrphans
  <2> QED
    BY <1>4, <2>1, <2>2 DEF LsFind, TypeOK, NoScan
<1>5. ASSUME NEW s \in SRs, LsReap(s) PROVE GraceInv'
  <2>1. PICK x \in scan[s].orphans : LsReap(s)!2!(x)
    BY <1>5 DEF LsReap
  <2>2. UNCHANGED <<same, src, row, pc>> /\ old' \subseteq old
    BY <1>5 DEF LsReap
  <2>3. \A t \in SRs : /\ scan'[t].late = scan[t].late /\ scan'[t].known = scan[t].known
                       /\ scan'[t].orphans \subseteq scan[t].orphans
                       /\ scan[t] # NoScan \/ scan'[t] = scan[t]
    BY <2>1 DEF TypeOK, NoScan
  <2>4. dest' = dest \/ (x = "dest" /\ "dest" \in old)
    BY <2>1 DEF PastGrace
  <2>5. CASE x = "dest" /\ "dest" \in old
    \* The scan is late, and did not find the row: nothing is registered.
    <3>1. scan[s] # NoScan
      BY <2>5, <2>1 DEF NoScan
    <3>2. pc \in Ended /\ row = FALSE
      BY <2>5, <3>1 DEF TypeOK
    <3> QED
      BY <2>2, <2>3, <3>2
  <2>6. CASE dest' = dest
    BY <2>2, <2>3, <2>6
  <2> QED
    BY <2>4, <2>5, <2>6
<1>6. ASSUME NEW s \in SRs, LsNext(s) PROVE GraceInv'
  <2>1. \A t \in SRs : \/ scan'[t] = NoScan
                       \/ /\ scan'[t].late = scan[t].late /\ scan'[t].known = scan[t].known
                          /\ scan'[t].orphans = scan[t].orphans
                          /\ scan[t] # NoScan \/ scan'[t] = scan[t]
    <3>1. scan[s] # NoScan
      BY <1>6 DEF LsNext, NoScan
    <3>2. scan' = [scan EXCEPT ![s] = NoScan]
          \/ scan' = [scan EXCEPT ![s] = [scan[s] EXCEPT !.pc = "find_snaps"]]
      BY <1>6 DEF LsNext
    <3> QED
      BY <3>1, <3>2 DEF TypeOK
  <2>2. ~NoScan.late /\ "dest" \notin NoScan.orphans
    BY DEF NoScan
  <2> QED
    BY <1>6, <2>1, <2>2 DEF LsNext
<1>7. ASSUME NEW x \in Objects, Age(x) PROVE GraceInv'
  BY <1>7 DEF Age
<1>8. CASE UNCHANGED vars
  BY <1>8 DEF vars
<1> QED
  BY <1>1, <1>2, <1>3, <1>4, <1>5, <1>6, <1>7, <1>8 DEF Next, Ls

\* SR.ls of the destination never destroys the zvol of a registered copy, as
\* long as no copy outlasts the grace period.
THEOREM CopiesAreBacked == ASSUME ~LongCopies PROVE Spec => []CopyBacked
<1>1. TypeInv /\ GraceInv => CopyBacked
  BY DEF TypeInv, StageInv, GraceInv, CopyBacked
<1> QED
  BY <1>1, TypeInit, TypeStep, GraceInit, GraceStep, PTL DEF Spec
=============================================================================
