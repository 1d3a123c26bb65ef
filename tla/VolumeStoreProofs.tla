------------------------- MODULE VolumeStoreProofs -------------------------
(***************************************************************************)
(* Proofs about VolumeStore, for every bound.                              *)
(***************************************************************************)
EXTENDS VolumeStore, TLAPS

(***************************************************************************)
(* Type correctness.                                                       *)
(***************************************************************************)
\* What the ranges of the constants give; the definitions stay folded below.
LEMMA Ranges ==
    /\ Ids \subseteq IdsOrNone /\ None \in IdsOrNone /\ None \notin Ids
    /\ \A x \in IdsOrNone : x # None => x \in Ids
    /\ \A x \in Ids : x \in Stamp /\ x + 1 \in Stamp /\ x < x + 1
    /\ \A x \in Stamp : x \in Int
    /\ 1 \in Stamp /\ 0 \in Version
    /\ \A w \in Version : w < MaxWrites => w + 1 \in Version
BY ConstantsAssumption DEF Ids, IdsOrNone, None, Version, Stamp

LEMMA IdleType == Idle \in OpType /\ NoScan \in LsType /\ NoDeps \in [Ids -> IdsOrNone]
BY Ranges DEF Idle, OpType, NoScan, LsType, NoDeps, Kinds, Pcs

LEMMA InitTypeOK == Init => TypeOK
BY IdleType, Ranges DEF Init, TypeOK

LEMMA BeginType ==
    ASSUME next \in Stamp,
           NEW kind \in Kinds, NEW pc \in Pcs, NEW vdi \in IdsOrNone,
           NEW key \in IdsOrNone, NEW snap \in IdsOrNone, NEW base \in IdsOrNone,
           Begin(kind, pc, vdi, key, snap, base)
    PROVE  op' \in OpType
<1>1. (IF kind = "destroyHead" THEN Held(vdi) ELSE {}) \in SUBSET Ids
  BY DEF Held
<1>2. {key} \ {None} \in SUBSET Ids
  BY Ranges
<1>3. QED
  BY <1>1, <1>2, IdleType DEF Begin, OpType

LEMMA GotoType ==
    ASSUME op \in OpType, NEW pc \in Pcs, Goto(pc)
    PROVE  /\ op' \in OpType /\ op'.pc = pc
           /\ op'.kind = op.kind /\ op'.vdi = op.vdi /\ op'.key = op.key
           /\ op'.snap = op.snap /\ op'.base = op.base /\ op'.since = op.since
           /\ op'.new = op.new /\ op'.todo = op.todo /\ op'.deps = op.deps
BY DEF Goto, OpType

LEMMA OpFields ==
    ASSUME op \in OpType
    PROVE  /\ op.vdi \in IdsOrNone /\ op.key \in IdsOrNone
           /\ op.snap \in IdsOrNone /\ op.base \in IdsOrNone
           /\ op.since \in Stamp /\ op.new \subseteq Ids
           /\ op.todo \subseteq Ids /\ op.deps \in [Ids -> IdsOrNone]
BY DEF OpType

\* PickClone and PromoteClone: what Picked and the update of deps leave alone.
LEMMA PickedType ==
    ASSUME op \in OpType, NEW s \in Ids, NEW c \in Ids, NEW N \in SUBSET Ids,
           op' = [Picked(s, c) EXCEPT !.new = N]
    PROVE  /\ op' \in OpType /\ op'.new = N
           /\ op'.kind = op.kind /\ op'.pc = op.pc /\ op'.vdi = op.vdi
           /\ op'.key = op.key /\ op'.snap = op.snap /\ op'.base = op.base
           /\ op'.since = op.since
<1>1. [op.deps EXCEPT ![s] = c] \in [Ids -> IdsOrNone]
  BY Ranges, OpFields
<1>2. op.todo \ {s} \in SUBSET Ids
  BY OpFields
<1>3. QED
  BY <1>1, <1>2 DEF Picked, OpType

LEMMA UnpickedType ==
    ASSUME op \in OpType, NEW s \in Ids,
           op' = [op EXCEPT !.deps = [@ EXCEPT ![s] = None]]
    PROVE  /\ op' \in OpType /\ op'.new = op.new
           /\ op'.kind = op.kind /\ op'.pc = op.pc /\ op'.vdi = op.vdi
           /\ op'.key = op.key /\ op'.snap = op.snap /\ op'.base = op.base
           /\ op'.since = op.since
<1>1. [op.deps EXCEPT ![s] = None] \in [Ids -> IdsOrNone]
  BY Ranges, OpFields
<1>2. QED
  BY <1>1 DEF OpType

\* The ZFS commands keep the namespace well typed.
ZfsTypeOK ==
    /\ zvol \subseteq Ids /\ ro \subseteq Ids
    /\ holder \in [Ids -> IdsOrNone] /\ origin \in [Ids -> IdsOrNone]
    /\ data \in [Ids -> Version] /\ snapData \in [Ids -> Version]

LEMMA DestroyZvolType ==
    ASSUME ZfsTypeOK, NEW z, DestroyZvol(z)
    PROVE  ZfsTypeOK'
BY Ranges DEF ZfsTypeOK, DestroyZvol, ZvolDestroyable

LEMMA DestroySnapType ==
    ASSUME ZfsTypeOK, NEW s \in Ids, DestroySnap(s)
    PROVE  ZfsTypeOK'
BY Ranges DEF ZfsTypeOK, DestroySnap

LEMMA CloneToType ==
    ASSUME ZfsTypeOK, NEW s \in Ids, NEW c \in Ids, CloneTo(s, c)
    PROVE  ZfsTypeOK'
BY Ranges DEF ZfsTypeOK, CloneTo

LEMMA PromoteType ==
    ASSUME ZfsTypeOK, NEW c \in Ids, Promote(c)
    PROVE  ZfsTypeOK'
<1>1. origin[c] \in Ids /\ holder[origin[c]] \in Ids
  BY Ranges DEF ZfsTypeOK, Promote
<1>2. origin' \in [Ids -> IdsOrNone]
  BY <1>1, Ranges DEF ZfsTypeOK, Promote
<1>3. holder' \in [Ids -> IdsOrNone]
  BY <1>1, Ranges DEF ZfsTypeOK, Promote
<1>4. QED
  BY <1>2, <1>3 DEF ZfsTypeOK, Promote

\* What the fields of the operation mean, kind by kind.
OpShape ==
    /\ op.kind = "idle" => op.pc = "idle" /\ op.new = {}
    /\ op.kind \in {"create", "snapshot", "clone"} =>
          op.key \in Ids /\ op.new = {op.key}
    /\ op.kind \in {"snapshot", "clone", "destroySnap"} => op.snap \in Ids
    /\ op.kind = "snapshot" => op.snap = op.key
    /\ op.kind = "destroySnap" =>
          op.vdi \in snapRows /\ op.snap = op.vdi /\ op.new = {}
    /\ op.kind = "destroyHead" => op.vdi \in vdis \ snapRows

LEMMA NextTypeOK ==
    ASSUME TypeOK, OpShape, [Next]_vars
    PROVE  TypeOK'
<1> USE DEF TypeOK
<1>z. ZfsTypeOK
  BY DEF ZfsTypeOK
<1>i. Idle \in OpType /\ NoScan \in LsType
  BY IdleType
<1> USE Ranges, OpFields
<1>1. CASE CreateBegin
  <2>1. op' \in OpType
    BY <1>1, BeginType DEF CreateBegin, Kinds, Pcs
  <2>2. QED
    BY <1>1, <2>1 DEF CreateBegin, zfsVars, metaVars
<1>2. CASE CreateZvol
  <2>1. op' \in OpType
    BY <1>2, GotoType DEF CreateZvol, Pcs
  <2>2. op.key \in Ids
    BY <1>2 DEF CreateZvol, At, OpShape
  <2>3. QED
    BY <1>2, <2>1, <2>2 DEF CreateZvol, metaVars
<1>3. ASSUME NEW v \in vdis, SnapshotBegin(v) PROVE TypeOK'
  <2>1. op' \in OpType
    BY <1>3, BeginType DEF SnapshotBegin, Kinds, Pcs
  <2>2. QED
    BY <1>3, <2>1 DEF SnapshotBegin, zfsVars, metaVars
<1>4. ASSUME NEW v \in vdis, CloneBegin(v) PROVE TypeOK'
  <2>1. /\ op' \in OpType /\ next' \in Stamp
        /\ UNCHANGED <<zfsVars, metaVars, aged, open, ls, writes, doomed>>
    <3>1. CASE /\ v \in snapRows /\ holder[v] # None /\ next \in Ids
               /\ Begin("clone", "clone", v, next, v, holder[v])
               /\ next' = next + 1
      BY <1>4, <3>1, BeginType DEF CloneBegin, Kinds, Pcs
    <3>2. CASE /\ v \notin snapRows /\ next + 1 \in Ids
               /\ Begin("clone", "snap", v, next + 1, next, v)
               /\ next' = next + 2
      <4>1. next \in Ids /\ next + 2 \in Stamp
        BY <3>2, ConstantsAssumption DEF Ids, Stamp
      <4>2. QED
        BY <1>4, <3>2, <4>1, BeginType DEF CloneBegin, Kinds, Pcs
    <3>3. QED
      BY <1>4, <3>1, <3>2 DEF CloneBegin
  <2>2. QED
    BY <2>1 DEF zfsVars, metaVars
<1>5. ASSUME NEW v \in vdis, DestroySnapBegin(v) PROVE TypeOK'
  <2>1. op' \in OpType
    BY <1>5, BeginType DEF DestroySnapBegin, Kinds, Pcs
  <2>2. QED
    BY <1>5, <2>1 DEF DestroySnapBegin, zfsVars, metaVars
<1>6. ASSUME NEW v \in vdis, DestroyHeadBegin(v) PROVE TypeOK'
  <2>1. op' \in OpType
    BY <1>6, BeginType DEF DestroyHeadBegin, Kinds, Pcs
  <2>2. QED
    BY <1>6, <2>1 DEF DestroyHeadBegin, zfsVars, metaVars
<1>7. CASE TakeSnapshot
  <2>1. op' \in OpType
    BY <1>7, GotoType DEF TakeSnapshot, Pcs
  <2>2. op.snap \in Ids /\ op.base \in Ids
    BY <1>7 DEF TakeSnapshot, OpShape
  <2>3. QED
    BY <1>7, <2>1, <2>2 DEF TakeSnapshot, metaVars
<1>8. CASE CloneSnapshot
  <2>1. op' \in OpType
    BY <1>8, GotoType DEF CloneSnapshot, Pcs
  <2>2. ZfsTypeOK'
    BY <1>8, <1>z, CloneToType DEF CloneSnapshot, OpShape
  <2>3. QED
    BY <1>8, <2>1, <2>2 DEF CloneSnapshot, ZfsTypeOK, metaVars
<1>9. CASE SetReadonly
  <2>1. op' \in OpType
    BY <1>9, GotoType DEF SetReadonly, Pcs
  <2>2. QED
    BY <1>9, <2>1 DEF SetReadonly, metaVars
<1>10. CASE DropClone
  <2>1. ZfsTypeOK'
    BY <1>10, <1>z, DestroyZvolType DEF DropClone, zfsVars, ZfsTypeOK
  <2>2. op' \in OpType
    BY <1>10, GotoType DEF DropClone, Pcs
  <2>3. doomed' \in SUBSET Ids
    BY <1>10 DEF DropClone, DestroyZvol, ZvolDestroyable
  <2>4. QED
    BY <1>10, <2>1, <2>2, <2>3 DEF DropClone, ZfsTypeOK, metaVars
<1>11. CASE DropSnap
  <2>1. op' \in OpType
    BY <1>11, GotoType DEF DropSnap, Pcs
  <2>2. op.snap \in Ids /\ op.vdi \in Ids
    BY <1>11 DEF DropSnap, At, OpShape
  <2>3. ZfsTypeOK'
    BY <1>11, <1>z, <2>2, DestroySnapType DEF DropSnap
  <2>4. QED
    BY <1>11, <2>1, <2>2, <2>3 DEF DropSnap, ZfsTypeOK, metaVars
<1>12. CASE PickClone
  <2>1. PICK s \in op.todo :
          \/ \E c \in Clones(s) : op' = Picked(s, c) /\ UNCHANGED <<zfsVars, next>>
          \/ /\ next \in Ids
             /\ CloneTo(s, next)
             /\ op' = [Picked(s, next) EXCEPT !.new = @ \cup {next}]
             /\ next' = next + 1
    BY <1>12 DEF PickClone
  <2>2. s \in Ids
    OBVIOUS
  <2>3. CASE \E c \in Clones(s) : op' = Picked(s, c) /\ UNCHANGED <<zfsVars, next>>
    <3>1. PICK c \in Clones(s) : op' = Picked(s, c)
      BY <2>3
    <3>2. c \in Ids /\ op' = [Picked(s, c) EXCEPT !.new = op.new]
      BY <3>1 DEF Clones, Picked, OpType
    <3>3. op' \in OpType
      BY <2>2, <3>2, PickedType
    <3>4. QED
      BY <1>12, <2>3, <3>3 DEF PickClone, zfsVars, metaVars
  <2>4. CASE /\ next \in Ids
             /\ CloneTo(s, next)
             /\ op' = [Picked(s, next) EXCEPT !.new = @ \cup {next}]
             /\ next' = next + 1
    <3>1. op' = [Picked(s, next) EXCEPT !.new = op.new \cup {next}]
      BY <2>4 DEF Picked, OpType
    <3>2. op' \in OpType
      <4>1. op.new \cup {next} \in SUBSET Ids
        BY <2>4
      <4>2. QED
        BY <2>2, <2>4, <3>1, <4>1, PickedType
    <3>3. ZfsTypeOK'
      BY <1>z, <2>2, <2>4, CloneToType
    <3>4. QED
      BY <1>12, <2>4, <3>2, <3>3 DEF PickClone, ZfsTypeOK, metaVars
  <2>5. QED
    BY <2>1, <2>3, <2>4
<1>13. CASE PromoteClone
  <2>1. PICK s \in Ids : /\ op.deps[s] # None
                         /\ Promote(op.deps[s])
                         /\ op' = [op EXCEPT !.deps = [@ EXCEPT ![s] = None]]
    BY <1>13 DEF PromoteClone
  <2>2. op.deps[s] \in Ids
    BY <2>1
  <2>3. ZfsTypeOK'
    BY <1>z, <2>1, <2>2, PromoteType
  <2>4. op' \in OpType
    BY <2>1, UnpickedType
  <2>5. QED
    BY <1>13, <2>3, <2>4 DEF PromoteClone, ZfsTypeOK, metaVars
<1>14. CASE DropHead
  <2>1. ZfsTypeOK'
    BY <1>14, <1>z, DestroyZvolType DEF DropHead
  <2>2. op' \in OpType
    BY <1>14, GotoType DEF DropHead, Pcs
  <2>3. QED
    BY <1>14, <2>1, <2>2 DEF DropHead, DestroyZvol, ZvolDestroyable, ZfsTypeOK, metaVars
<1>15. CASE Commit
  <2>1. vdis' \subseteq Ids /\ snapRows' \subseteq vdis'
    BY <1>15 DEF Commit, Removed, NewSnap
  <2>2. NewParent \in IdsOrNone
    BY DEF NewParent
  <2>3. parent' \in [Ids -> IdsOrNone]
    BY <1>15, <2>2 DEF Commit
  <2>4. QED
    BY <1>15, <1>i, <2>1, <2>3 DEF Commit, zfsVars
<1>16. CASE Abort
  BY <1>16, <1>i DEF Abort, zfsVars, metaVars
<1>17. CASE LsRead
  <2>1. Floor \in Stamp
    BY DEF Floor
  <2>2. ls' \in LsType
    BY <1>17, <2>1, IdleType DEF LsRead, LsType
  <2>3. QED
    BY <1>17, <2>2 DEF LsRead, zfsVars, metaVars
<1>18. CASE LsFindZvols
  BY <1>18 DEF LsFindZvols, LsType, zfsVars, metaVars
<1>19. CASE LsReapZvol
  <2>1. ZfsTypeOK'
    BY <1>19, <1>z, DestroyZvolType DEF LsReapZvol, zfsVars, ZfsTypeOK
  <2>2. ls' \in LsType
    BY <1>19 DEF LsReapZvol, LsType
  <2>3. QED
    BY <1>19, <2>1, <2>2 DEF LsReapZvol, ZfsTypeOK, metaVars
<1>20. CASE LsFindSnaps
  BY <1>20 DEF LsFindSnaps, Snapshots, LsType, zfsVars, metaVars
<1>21. CASE LsReapSnap
  <2>1. ls' \in LsType /\ ls.todo \subseteq Ids
    BY <1>21 DEF LsReapSnap, LsType
  <2>2. ZfsTypeOK'
    BY <1>21, <1>z, <2>1, DestroySnapType DEF LsReapSnap, zfsVars, ZfsTypeOK
  <2>3. QED
    BY <1>21, <2>1, <2>2 DEF LsReapSnap, ZfsTypeOK, metaVars
<1>22. CASE LsEnd
  BY <1>22, <1>i DEF LsEnd, zfsVars, metaVars
<1>23. CASE Age
  <2>1. aged' \in Stamp
    <3>1. Floor \in Stamp
      BY DEF Floor
    <3>2. QED
      BY <1>23, <3>1, ConstantsAssumption DEF Age, Stamp
  <2>2. QED
    BY <1>23, <2>1 DEF Age, zfsVars, metaVars
<1>24. CASE OpenDevice
  BY <1>24 DEF OpenDevice, zfsVars, metaVars
<1>25. CASE CloseDevice
  BY <1>25 DEF CloseDevice, zfsVars, metaVars
<1>26. CASE GuestWrite
  BY <1>26 DEF GuestWrite, metaVars
<1>27. CASE Crash
  BY <1>27, <1>i DEF Crash, zfsVars, metaVars
<1>28. CASE UNCHANGED vars
  BY <1>28 DEF vars, zfsVars, metaVars
<1>29. QED
  BY <1>1, <1>2, <1>3, <1>4, <1>5, <1>6, <1>7, <1>8, <1>9, <1>10, <1>11,
     <1>12, <1>13, <1>14, <1>15, <1>16, <1>17, <1>18, <1>19, <1>20, <1>21,
     <1>22, <1>23, <1>24, <1>25, <1>26, <1>27, <1>28
     DEF Next, Operation, Scan

LEMMA InitOpShape == Init => OpShape
BY DEF Init, Idle, OpShape

LEMMA BeginFields ==
    ASSUME NEW kind, NEW pc, NEW vdi, NEW key, NEW snap, NEW base,
           Begin(kind, pc, vdi, key, snap, base)
    PROVE  /\ op'.kind = kind /\ op'.pc = pc /\ op'.vdi = vdi /\ op'.key = key
           /\ op'.snap = snap /\ op'.base = base /\ op'.since = next
           /\ op'.new = {key} \ {None} /\ op'.deps = NoDeps
BY DEF Begin

LEMMA NextOpShape ==
    ASSUME TypeOK, OpShape, [Next]_vars
    PROVE  OpShape'
<1> USE DEF TypeOK
<1>o. UNCHANGED <<op, vdis, snapRows>> => OpShape'
  BY DEF OpShape
<1>i. op' = Idle => OpShape'
  BY DEF OpShape, Idle
<1>g. ASSUME NEW pc \in Pcs, op.kind # "idle", Goto(pc), UNCHANGED metaVars
      PROVE  OpShape'
  BY <1>g, GotoType DEF OpShape, metaVars
<1>1. CASE CreateBegin
  <2>1. Begin("create", "zvol", None, next, None, None) /\ next \in Ids
    BY <1>1 DEF CreateBegin
  <2>2. QED
    BY <2>1, BeginFields, Ranges DEF OpShape
<1>2. CASE CreateZvol
  BY <1>2, <1>g DEF CreateZvol, At, Pcs
<1>3. ASSUME NEW v \in vdis, SnapshotBegin(v) PROVE OpShape'
  <2>1. next \in Ids /\ \E base : Begin("snapshot", "snap", v, next, next, base)
    BY <1>3 DEF SnapshotBegin
  <2>2. QED
    BY <2>1, BeginFields, Ranges DEF OpShape
<1>4. ASSUME NEW v \in vdis, CloneBegin(v) PROVE OpShape'
  <2>1. CASE /\ v \in snapRows /\ next \in Ids
             /\ Begin("clone", "clone", v, next, v, holder[v])
    BY <2>1, BeginFields, Ranges DEF OpShape
  <2>2. CASE next + 1 \in Ids /\ Begin("clone", "snap", v, next + 1, next, v)
    <3>1. next \in Ids
      BY <2>2, ConstantsAssumption DEF Ids, Stamp
    <3>2. QED
      BY <2>2, <3>1, BeginFields, Ranges DEF OpShape
  <2>3. QED
    BY <1>4, <2>1, <2>2 DEF CloneBegin
<1>5. ASSUME NEW v \in vdis, DestroySnapBegin(v) PROVE OpShape'
  <2>1. v \in snapRows /\ Begin("destroySnap", "dropClone", v, None, v, holder[v])
        /\ UNCHANGED snapRows
    BY <1>5 DEF DestroySnapBegin, metaVars
  <2>2. QED
    BY <2>1, BeginFields DEF OpShape
<1>6. ASSUME NEW v \in vdis, DestroyHeadBegin(v) PROVE OpShape'
  <2>1. v \in vdis \ snapRows /\ Begin("destroyHead", "release", v, None, None, None)
        /\ UNCHANGED <<vdis, snapRows>>
    BY <1>6 DEF DestroyHeadBegin, metaVars
  <2>2. QED
    BY <2>1, BeginFields DEF OpShape
<1>7. CASE TakeSnapshot
  BY <1>7, <1>g DEF TakeSnapshot, Pcs
<1>8. CASE CloneSnapshot
  BY <1>8, <1>g DEF CloneSnapshot, Pcs
<1>9. CASE SetReadonly
  BY <1>9, <1>g DEF SetReadonly, At, Pcs
<1>10. CASE DropClone
  BY <1>10, <1>g DEF DropClone, At, Pcs
<1>11. CASE DropSnap
  BY <1>11, <1>g DEF DropSnap, At, Pcs
<1>12. CASE PickClone
  <2>1. op'.kind = "destroyHead" /\ op'.vdi = op.vdi
    BY <1>12 DEF PickClone, At, Picked, OpType
  <2>2. QED
    BY <1>12, <2>1 DEF PickClone, At, OpShape, metaVars
<1>13. CASE PromoteClone
  <2>1. op'.kind = "destroyHead" /\ op'.vdi = op.vdi
    BY <1>13, UnpickedType DEF PromoteClone, At
  <2>2. QED
    BY <1>13, <2>1 DEF PromoteClone, At, OpShape, metaVars
<1>14. CASE DropHead
  BY <1>14, <1>g DEF DropHead, Released, At, Pcs
<1>15. CASE Commit \/ Abort \/ Crash
  BY <1>15, <1>i DEF Commit, Abort, Crash
<1>16. CASE Scan \/ Age \/ OpenDevice \/ CloseDevice \/ GuestWrite \/ UNCHANGED vars
  BY <1>16, <1>o DEF Scan, LsRead, LsFindZvols, LsReapZvol, LsFindSnaps,
     LsReapSnap, LsEnd, Age, OpenDevice, CloseDevice, GuestWrite, vars, metaVars
<1>17. QED
  BY <1>1, <1>2, <1>3, <1>4, <1>5, <1>6, <1>7, <1>8, <1>9, <1>10, <1>11,
     <1>12, <1>13, <1>14, <1>15, <1>16 DEF Next, Operation

\* Type correctness of the store, its metabase, the operation and the scan,
\* for every bound on uuids, writes and open devices.
THEOREM TypeCorrect == Spec => []TypeOK
<1>1. Init => TypeOK /\ OpShape
  BY InitTypeOK, InitOpShape
<1>2. TypeOK /\ OpShape /\ [Next]_vars => (TypeOK /\ OpShape)'
  BY NextTypeOK, NextOpShape
<1>3. QED
  BY <1>1, <1>2, PTL DEF Spec

-----------------------------------------------------------------------------
(***************************************************************************)
(* Safety.  The orphan scan works from a list of rows that may be older    *)
(* than the rows of operations that committed since; what protects those   *)
(* is the grace period, by way of the order of uuids:                      *)
(*   aged <= ls.since <= every row the scan has not read, and              *)
(*   aged <= op.since <= every object the operation has made.              *)
(***************************************************************************)
IdOrder ==
    /\ \A v \in vdis : v < next
    /\ op.kind # "idle" => op.since <= next
    /\ \A x \in op.new : op.since <= x /\ x < next /\ x \notin vdis
    /\ op.pc = "snap" => op.snap \notin vdis
    /\ aged <= Floor
    /\ ls.pc # "idle" =>
          aged <= ls.since /\ ls.since <= Floor
          /\ \A v \in vdis \ ls.known : ls.since <= v
    /\ ls.pc \in {"zvols", "snaps"} => ls.todo \cap ls.known = {}

\* How far the operation has got, and that only live VDIs are open.
Progress ==
    /\ op.kind = "destroyHead" => op.new \subseteq zvol
    /\ op.kind \in {"create", "snapshot", "clone"} /\ op.pc \in {"readonly", "commit"}
          => op.key \in zvol
    /\ op.kind = "snapshot" /\ op.pc \in {"readonly", "commit"}
          => holder[op.key] # None /\ data[op.key] = snapData[op.key]
    /\ At("snapshot", "commit") => op.key \in ro
    /\ At("destroySnap", "dropSnap") => op.vdi \notin zvol
    /\ op.kind \in {"destroySnap", "destroyHead"} /\ op.pc = "commit"
          => op.vdi \notin zvol /\ op.vdi \in doomed
    /\ At("destroySnap", "commit") => holder[op.vdi] = None
    /\ open \subseteq vdis \cap zvol
    /\ doomed \subseteq vdis

StoreInv == TypeOK /\ OpShape /\ IdOrder /\ Progress /\ RowsBacked /\ SnapshotsImmutable

LEMMA InitStoreInv == Init => StoreInv
<1> SUFFICES ASSUME Init PROVE StoreInv
  OBVIOUS
<1>1. TypeOK /\ OpShape
  BY InitTypeOK, InitOpShape
<1>2. IdOrder
  BY DEF Init, Idle, NoScan, IdOrder, Floor
<1>3. Progress
  BY DEF Init, Idle, Progress, At
<1>4. RowsBacked /\ SnapshotsImmutable
  BY DEF Init, RowsBacked, SnapshotsImmutable
<1>5. QED
  BY <1>1, <1>2, <1>3, <1>4 DEF StoreInv

\* What a step leaves as it is of the zvols and of the snapshots of X.
KeepZvols(X) == \A x \in X : /\ x \in zvol => x \in zvol'
                             /\ x \in ro => x \in ro'
                             /\ data'[x] = data[x]
KeepSnaps(X) == \A x \in X : /\ holder[x] # None => holder'[x] # None
                             /\ snapData'[x] = snapData[x]
NoNewSnaps == \A x \in Ids : holder[x] = None => holder'[x] = None

LEMMA DestroyZvolKeeps ==
    ASSUME TypeOK, NEW z, DestroyZvol(z)
    PROVE  KeepZvols(Ids \ {z}) /\ KeepSnaps(Ids) /\ NoNewSnaps
           /\ zvol' = zvol \ {z} /\ z \in zvol \ open
BY DEF TypeOK, DestroyZvol, ZvolDestroyable, KeepZvols, KeepSnaps, NoNewSnaps

LEMMA DestroySnapKeeps ==
    ASSUME TypeOK, NEW s \in Ids, DestroySnap(s)
    PROVE  KeepZvols(Ids) /\ KeepSnaps(Ids \ {s}) /\ NoNewSnaps
           /\ zvol' = zvol /\ holder'[s] = None
BY DEF TypeOK, DestroySnap, KeepZvols, KeepSnaps, NoNewSnaps

LEMMA CloneToKeeps ==
    ASSUME TypeOK, NEW s \in Ids, NEW c \in Ids, CloneTo(s, c)
    PROVE  /\ KeepZvols(Ids \ {c}) /\ KeepSnaps(Ids) /\ zvol' = zvol \cup {c}
           /\ data'[c] = snapData[s] /\ holder[s] # None
BY DEF TypeOK, CloneTo, KeepZvols, KeepSnaps

LEMMA PromoteKeeps ==
    ASSUME TypeOK, NEW c \in Ids, Promote(c)
    PROVE  KeepZvols(Ids) /\ KeepSnaps(Ids) /\ zvol' = zvol
<1>1. \A x \in Ids : holder[x] # None => holder'[x] # None
  BY Ranges DEF TypeOK, Promote
<1>2. QED
  BY <1>1 DEF Promote, KeepZvols, KeepSnaps

LEMMA RowsKept ==
    ASSUME RowsBacked, SnapshotsImmutable, snapRows \subseteq vdis,
           vdis' = vdis, snapRows' = snapRows, doomed \subseteq doomed',
           KeepZvols(vdis \ doomed'), KeepSnaps(vdis \ doomed')
    PROVE  RowsBacked' /\ SnapshotsImmutable'
BY DEF RowsBacked, SnapshotsImmutable, KeepZvols, KeepSnaps

\* The scan spares every VDI with a row and everything of the operation.
LEMMA ReapSpares ==
    ASSUME UseGrace, TypeOK, OpShape, IdOrder, ls.pc \in {"zvols", "snaps"},
           NEW x \in ls.todo, PastGrace(x)
    PROVE  x \in Ids /\ x \notin vdis /\ x \notin op.new
<1>1. x \in Ids /\ x < aged
  BY DEF PastGrace, TypeOK, LsType
<1>2. x \in Int /\ aged \in Int /\ ls.since \in Int /\ op.since \in Int
  BY <1>1, Ranges DEF TypeOK, LsType, OpType
<1>3. x \notin vdis
  BY <1>1, <1>2 DEF IdOrder
<1>4. x \notin op.new
  <2>1. SUFFICES ASSUME x \in op.new PROVE FALSE
    OBVIOUS
  <2>2. CASE op.kind = "idle"
    BY <2>1, <2>2 DEF OpShape
  <2>3. CASE op.kind # "idle"
    BY <1>1, <1>2, <2>1, <2>3 DEF IdOrder, Floor
  <2>4. QED
    BY <2>2, <2>3
<1>5. QED
  BY <1>1, <1>3, <1>4

LEMMA ScanSpares ==
    ASSUME UseGrace, TypeOK, OpShape, IdOrder, Scan
    PROVE  /\ KeepZvols(vdis \cup op.new) /\ KeepSnaps(vdis \cup op.new)
           /\ zvol' \subseteq zvol /\ (open \cap zvol) \subseteq zvol'
           /\ NoNewSnaps
           /\ UNCHANGED <<metaVars, next, aged, open, op, writes, doomed>>
<1>k. UNCHANGED zfsVars => KeepZvols(vdis \cup op.new) /\ KeepSnaps(vdis \cup op.new)
                       /\ NoNewSnaps /\ zvol' = zvol
  BY DEF zfsVars, KeepZvols, KeepSnaps, NoNewSnaps
<1>s. vdis \cup op.new \subseteq Ids
  BY OpFields DEF TypeOK
<1>1. CASE LsReapZvol
  <2>1. PICK z \in ls.todo : \/ PastGrace(z) /\ DestroyZvol(z)
                             \/ UNCHANGED zfsVars
    BY <1>1 DEF LsReapZvol
  <2>2. CASE PastGrace(z) /\ DestroyZvol(z)
    <3>1. z \notin vdis \cup op.new
      BY <1>1, <2>2, ReapSpares DEF LsReapZvol
    <3>2. KeepZvols(Ids \ {z}) /\ KeepSnaps(Ids) /\ NoNewSnaps /\ zvol' = zvol \ {z} /\ z \notin open
      BY <2>2, DestroyZvolKeeps
    <3>3. QED
      BY <1>1, <1>s, <3>1, <3>2 DEF LsReapZvol, KeepZvols, KeepSnaps
  <2>3. QED
    BY <1>1, <1>k, <2>1, <2>2 DEF LsReapZvol
<1>2. CASE LsReapSnap
  <2>1. PICK s \in ls.todo : \/ Reapable(s) /\ DestroySnap(s)
                             \/ UNCHANGED zfsVars
    BY <1>2 DEF LsReapSnap
  <2>2. CASE Reapable(s) /\ DestroySnap(s)
    <3>1. s \in Ids /\ s \notin vdis \cup op.new
      BY <1>2, <2>2, ReapSpares DEF LsReapSnap, Reapable
    <3>2. KeepZvols(Ids) /\ KeepSnaps(Ids \ {s}) /\ NoNewSnaps /\ zvol' = zvol
      BY <2>2, <3>1, DestroySnapKeeps
    <3>3. QED
      BY <1>2, <1>s, <3>1, <3>2 DEF LsReapSnap, KeepZvols, KeepSnaps
  <2>3. QED
    BY <1>2, <1>k, <2>1, <2>2 DEF LsReapSnap
<1>3. CASE LsRead \/ LsFindZvols \/ LsFindSnaps \/ LsEnd
  BY <1>3, <1>k DEF LsRead, LsFindZvols, LsFindSnaps, LsEnd
<1>4. QED
  BY <1>1, <1>2, <1>3 DEF Scan

LEMMA OrderKept ==
    ASSUME IdOrder, UNCHANGED <<vdis, next, aged, ls>>, op'.kind = op.kind,
           op'.since = op.since, op'.new = op.new, op'.pc # "snap" \/ UNCHANGED op
    PROVE  IdOrder'
BY DEF IdOrder, Floor

\* An operation begins with uuids nothing has used yet.
LEMMA BeginOrder ==
    ASSUME TypeOK, OpShape, IdOrder, op.kind = "idle",
           NEW kind \in Kinds \ {"idle"}, NEW pc, NEW vdi, NEW key \in IdsOrNone,
           NEW snap, NEW base, Begin(kind, pc, vdi, key, snap, base),
           next' \in Int, next <= next', pc = "snap" => next <= snap,
           key # None => next <= key /\ key < next',
           UNCHANGED <<vdis, aged, ls>>
    PROVE  IdOrder'
<1>1. /\ op'.kind = kind /\ op'.kind # "idle" /\ op'.since = next
      /\ op'.new = {key} \ {None} /\ op'.pc = pc /\ op'.snap = snap
  BY BeginFields
<1>2. next \in Int /\ \A x \in Ids : x \in Int
  BY Ranges DEF TypeOK
<1>3. vdis \subseteq Ids
  BY DEF TypeOK
<1>4. \A v \in vdis : v < next'
  BY <1>2, <1>3 DEF IdOrder
<1>5. \A x \in op'.new : op'.since <= x /\ x < next' /\ x \notin vdis
  BY <1>1, <1>2, <1>3, Ranges DEF IdOrder
<1>6. op'.pc = "snap" => op'.snap \notin vdis
  BY <1>1, <1>2, <1>3 DEF IdOrder
<1>7. Floor = next /\ Floor' = next
  BY <1>1 DEF Floor
<1>8. QED
  BY <1>1, <1>4, <1>5, <1>6, <1>7 DEF IdOrder

LEMMA NextIdOrder ==
    ASSUME TypeOK, OpShape, IdOrder, [Next]_vars
    PROVE  IdOrder'
<1>t. /\ next \in Int /\ aged \in Int /\ ls.since \in Int /\ op.since \in Int
      /\ \A x \in Ids : x \in Int
      /\ vdis \subseteq Ids /\ op.new \subseteq Ids
  BY Ranges, OpFields DEF TypeOK, LsType
<1>0. op \in OpType
  BY DEF TypeOK
<1>g. ASSUME NEW pc \in Pcs, pc # "snap", Goto(pc), UNCHANGED <<metaVars, next, aged, ls>>
      PROVE  IdOrder'
  BY <1>0, <1>g, GotoType, OrderKept DEF metaVars
<1>1. CASE CreateBegin
  <2>1. /\ Begin("create", "zvol", None, next, None, None) /\ next \in Ids
        /\ op.kind = "idle" /\ next' = next + 1 /\ UNCHANGED <<vdis, aged, ls>>
    BY <1>1 DEF CreateBegin, metaVars
  <2>2. QED
    BY <1>t, <2>1, BeginOrder, Ranges DEF Kinds
<1>2. CASE CreateZvol
  BY <1>2, <1>g DEF CreateZvol, Pcs
<1>3. ASSUME NEW v \in vdis, SnapshotBegin(v) PROVE IdOrder'
  <2>1. PICK base : Begin("snapshot", "snap", v, next, next, base)
    BY <1>3 DEF SnapshotBegin
  <2>2. /\ next \in Ids /\ op.kind = "idle" /\ next' = next + 1
        /\ UNCHANGED <<vdis, aged, ls>>
    BY <1>3 DEF SnapshotBegin, metaVars
  <2>3. QED
    BY <1>t, <2>1, <2>2, BeginOrder, Ranges DEF Kinds
<1>4. ASSUME NEW v \in vdis, CloneBegin(v) PROVE IdOrder'
  <2>1. op.kind = "idle" /\ UNCHANGED <<vdis, aged, ls>>
    BY <1>4 DEF CloneBegin, metaVars
  <2>2. CASE /\ v \in snapRows /\ next \in Ids
             /\ Begin("clone", "clone", v, next, v, holder[v])
             /\ next' = next + 1
    BY <1>t, <2>1, <2>2, BeginOrder, Ranges DEF Kinds
  <2>3. CASE /\ next + 1 \in Ids /\ Begin("clone", "snap", v, next + 1, next, v)
             /\ next' = next + 2
    <3>1. next + 1 \in IdsOrNone
      BY <2>3, Ranges
    <3>2. QED
      BY <1>t, <2>1, <2>3, <3>1, BeginOrder DEF Kinds
  <2>4. QED
    BY <1>4, <2>2, <2>3 DEF CloneBegin
<1>5. ASSUME NEW v \in vdis, DestroySnapBegin(v) PROVE IdOrder'
  <2>1. /\ op.kind = "idle" /\ UNCHANGED <<vdis, aged, ls, next>>
        /\ Begin("destroySnap", "dropClone", v, None, v, holder[v])
    BY <1>5 DEF DestroySnapBegin, metaVars
  <2>2. QED
    BY <1>t, <2>1, BeginOrder, Ranges DEF Kinds
<1>6. ASSUME NEW v \in vdis, DestroyHeadBegin(v) PROVE IdOrder'
  <2>1. /\ op.kind = "idle" /\ UNCHANGED <<vdis, aged, ls, next>>
        /\ Begin("destroyHead", "release", v, None, None, None)
    BY <1>6 DEF DestroyHeadBegin, metaVars
  <2>2. QED
    BY <1>t, <2>1, BeginOrder, Ranges DEF Kinds
<1>7. CASE TakeSnapshot
  BY <1>7, <1>g DEF TakeSnapshot, Pcs
<1>8. CASE CloneSnapshot
  BY <1>8, <1>g DEF CloneSnapshot, Pcs
<1>9. CASE SetReadonly
  BY <1>9, <1>g DEF SetReadonly, Pcs
<1>10. CASE DropClone
  BY <1>10, <1>g DEF DropClone, Pcs
<1>11. CASE DropSnap
  BY <1>11, <1>g DEF DropSnap, Pcs
<1>12. CASE PickClone
  <2>1. PICK s \in op.todo :
          \/ \E c \in Clones(s) : op' = Picked(s, c) /\ UNCHANGED <<zfsVars, next>>
          \/ /\ next \in Ids
             /\ op' = [Picked(s, next) EXCEPT !.new = @ \cup {next}]
             /\ next' = next + 1
    BY <1>12 DEF PickClone
  <2>2. op.kind = "destroyHead" /\ op.pc = "release" /\ UNCHANGED <<vdis, aged, ls>>
    BY <1>12 DEF PickClone, At, metaVars
  <2>3. CASE \E c \in Clones(s) : op' = Picked(s, c) /\ UNCHANGED <<zfsVars, next>>
    <3>1. op'.kind = op.kind /\ op'.pc = op.pc /\ op'.since = op.since /\ op'.new = op.new
      BY <1>0, <2>3 DEF Picked, OpType
    <3>2. QED
      BY <2>2, <2>3, <3>1, OrderKept
  <2>4. CASE /\ next \in Ids
             /\ op' = [Picked(s, next) EXCEPT !.new = @ \cup {next}]
             /\ next' = next + 1
    <3>1. /\ op'.kind = op.kind /\ op'.pc = op.pc /\ op'.since = op.since
          /\ op'.new = op.new \cup {next}
      BY <1>0, <2>4 DEF Picked, OpType
    <3>2. \A v \in vdis : v < next'
      BY <1>t, <2>4 DEF IdOrder
    <3>3. \A x \in op'.new : op.since <= x /\ x < next' /\ x \notin vdis
      BY <1>t, <2>2, <2>4, <3>1 DEF IdOrder
    <3>4. Floor' = Floor
      BY <2>2, <3>1 DEF Floor
    <3>5. op.since <= next'
      BY <1>t, <2>2, <2>4 DEF IdOrder
    <3>6. QED
      BY <2>2, <3>1, <3>2, <3>3, <3>4, <3>5 DEF IdOrder
  <2>5. QED
    BY <2>1, <2>3, <2>4
<1>13. CASE PromoteClone
  <2>1. /\ op.pc = "release" /\ UNCHANGED <<vdis, next, aged, ls>>
        /\ \E s \in Ids : op' = [op EXCEPT !.deps = [@ EXCEPT ![s] = None]]
    BY <1>13 DEF PromoteClone, At, metaVars
  <2>2. QED
    BY <1>0, <2>1, UnpickedType, OrderKept
<1>14. CASE DropHead
  BY <1>14, <1>g DEF DropHead, Pcs
<1>e. ASSUME op' = Idle, vdis' \subseteq vdis \cup op.new, UNCHANGED <<next, aged>>,
             ls' = ls \/ ls' = NoScan
      PROVE  IdOrder'
  <2>1. \A v \in vdis' : v < next
    BY <1>e DEF IdOrder
  <2>2. Floor' = next /\ op'.new = {} /\ op'.pc = "idle" /\ op'.kind = "idle"
    BY <1>e DEF Floor, Idle
  <2>3. Floor <= next
    BY <1>t DEF IdOrder, Floor
  <2>4. Floor \in Int
    BY <1>t DEF Floor
  <2>5. op.new # {} => op.kind # "idle"
    BY DEF OpShape
  <2>6. ls.pc # "idle" => \A v \in vdis' \ ls.known : ls.since <= v
    <3>1. SUFFICES ASSUME ls.pc # "idle", NEW v \in op.new PROVE ls.since <= v
      BY <1>e DEF IdOrder
    <3>2. ls.since <= op.since /\ op.since <= v /\ v \in Int
      BY <1>t, <2>5, <3>1 DEF IdOrder, Floor
    <3>3. QED
      BY <1>t, <3>2
  <2>7. aged <= next /\ (ls.pc # "idle" => aged <= ls.since /\ ls.since <= next)
    BY <1>t, <2>3, <2>4 DEF IdOrder
  <2>8. CASE ls' = ls
    BY <1>e, <2>1, <2>2, <2>6, <2>7, <2>8 DEF IdOrder
  <2>9. CASE ls' = NoScan
    BY <1>e, <2>1, <2>2, <2>7, <2>9 DEF IdOrder, NoScan
  <2>10. QED
    BY <1>e, <2>8, <2>9
<1>15. CASE Commit
  BY <1>15, <1>e DEF Commit
<1>16. CASE Abort \/ Crash
  BY <1>16, <1>e DEF Abort, Crash, metaVars
<1>17. CASE LsRead
  <2>1. ls' = [pc |-> "read", known |-> vdis, todo |-> {}, at |-> NoDeps, since |-> Floor]
        /\ UNCHANGED <<vdis, next, aged, op>>
    BY <1>17 DEF LsRead, metaVars
  <2>2. Floor \in Int
    BY <1>t DEF Floor
  <2>3. QED
    BY <2>1, <2>2 DEF IdOrder, Floor
<1>l. ASSUME UNCHANGED <<vdis, next, aged, op>>, ls.pc # "idle", ls'.since = ls.since,
             ls'.known = ls.known, ls'.todo \cap ls.known = {}
      PROVE  IdOrder'
  BY <1>l DEF IdOrder, Floor
<1>18. CASE LsFindZvols
  <2>1. /\ ls.pc = "read" /\ ls'.since = ls.since /\ ls'.known = ls.known
        /\ ls'.todo = (zvol \ ls.known) \ open
    BY <1>18 DEF LsFindZvols, TypeOK, LsType
  <2>2. QED
    BY <1>18, <1>l, <2>1 DEF LsFindZvols, metaVars
<1>19. CASE LsReapZvol \/ LsReapSnap
  <2>1. PICK z : ls' = [ls EXCEPT !.todo = @ \ {z}]
    BY <1>19 DEF LsReapZvol, LsReapSnap
  <2>2. /\ ls'.since = ls.since /\ ls'.known = ls.known /\ ls'.todo = ls.todo \ {z}
    BY <2>1 DEF TypeOK, LsType
  <2>3. ls.pc \in {"zvols", "snaps"} /\ UNCHANGED <<vdis, next, aged, op>>
    BY <1>19 DEF LsReapZvol, LsReapSnap, metaVars
  <2>4. QED
    BY <1>l, <2>2, <2>3 DEF IdOrder
<1>20. CASE LsFindSnaps
  <2>1. /\ ls.pc = "zvols" /\ ls'.since = ls.since /\ ls'.known = ls.known
        /\ ls'.todo = {s \in Snapshots \ ls.known : holder[s] \notin open}
    BY <1>20 DEF LsFindSnaps, TypeOK, LsType
  <2>2. QED
    BY <1>20, <1>l, <2>1 DEF LsFindSnaps, metaVars
<1>21. CASE LsEnd
  BY <1>21 DEF LsEnd, metaVars, IdOrder, Floor, NoScan
<1>22. CASE Age
  <2>1. UNCHANGED <<vdis, next, op, ls>> /\ aged' = aged + 1 /\ aged < Floor
        /\ (ls.pc # "idle" => aged < ls.since)
    BY <1>22 DEF Age, metaVars
  <2>2. Floor \in Int
    BY <1>t DEF Floor
  <2>3. QED
    BY <1>t, <2>1, <2>2 DEF IdOrder, Floor
<1>23. CASE OpenDevice \/ CloseDevice \/ GuestWrite \/ UNCHANGED vars
  BY <1>23, OrderKept DEF OpenDevice, CloseDevice, GuestWrite, vars, metaVars
<1>24. QED
  BY <1>1, <1>2, <1>3, <1>4, <1>5, <1>6, <1>7, <1>8, <1>9, <1>10, <1>11, <1>12,
     <1>13, <1>14, <1>15, <1>16, <1>17, <1>18, <1>19, <1>20, <1>21, <1>22, <1>23
     DEF Next, Operation, Scan

(***************************************************************************)
(* What a destroy has begun to take apart, with or without a grace period: *)
(* the zvol goes first (or was gone), nothing brings it back, and the row  *)
(* outlives it until the commit.                                           *)
(***************************************************************************)
Gone ==
    /\ open \subseteq zvol
    /\ doomed \subseteq vdis \ zvol
    /\ At("destroySnap", "dropSnap") => op.vdi \notin zvol
    /\ op.kind \in {"destroySnap", "destroyHead"} /\ op.pc = "commit" => op.vdi \in doomed
    /\ At("destroySnap", "commit") => holder[op.vdi] = None

GoneInv == TypeOK /\ OpShape /\ IdOrder /\ Gone

\* A step after which no destroy is past its first command, and which makes
\* no zvol that a row names.
LEMMA GoneOther ==
    ASSUME Gone, UNCHANGED <<vdis, doomed>>, open' \subseteq zvol',
           zvol' \cap vdis \subseteq zvol,
           \/ op'.kind \in {"idle", "create", "snapshot", "clone"}
           \/ op'.pc \in {"dropClone", "release"}
    PROVE  Gone'
BY DEF Gone, At

\* A step that leaves the operation alone and makes nothing.
LEMMA GoneKept ==
    ASSUME TypeOK, OpShape, Gone, UNCHANGED <<op, vdis, doomed>>, open' \subseteq zvol',
           zvol' \subseteq zvol, NoNewSnaps
    PROVE  Gone'
<1>1. At("destroySnap", "commit") => op.vdi \in Ids
  BY DEF At, OpShape, TypeOK
<1>2. QED
  BY <1>1 DEF Gone, NoNewSnaps, At

\* The scan, unlike in ScanSpares whatever the grace period is.
LEMMA ScanGone ==
    ASSUME GoneInv, Scan
    PROVE  Gone'
<1> USE DEF GoneInv
<1>u. UNCHANGED <<op, vdis, doomed, open>>
  BY DEF Scan, LsRead, LsFindZvols, LsReapZvol, LsFindSnaps, LsReapSnap, LsEnd, metaVars
<1>k. UNCHANGED zfsVars => Gone'
  BY <1>u DEF Gone, At, zfsVars
<1>1. CASE LsReapZvol
  <2>1. PICK z \in ls.todo : DestroyZvol(z) \/ UNCHANGED zfsVars
    BY <1>1 DEF LsReapZvol
  <2>2. CASE DestroyZvol(z)
    <3>1. NoNewSnaps /\ zvol' = zvol \ {z} /\ z \notin open
      BY <2>2, DestroyZvolKeeps
    <3>2. open' \subseteq zvol'
      BY <1>u, <3>1 DEF Gone
    <3>3. QED
      BY <1>u, <3>1, <3>2, GoneKept
  <2>3. QED
    BY <1>k, <2>1, <2>2
<1>2. CASE LsReapSnap
  <2>1. PICK s \in ls.todo : DestroySnap(s) \/ UNCHANGED zfsVars
    BY <1>2 DEF LsReapSnap
  <2>2. CASE DestroySnap(s)
    <3>1. s \in Ids
      BY DEF TypeOK, LsType
    <3>2. NoNewSnaps /\ zvol' = zvol
      BY <2>2, <3>1, DestroySnapKeeps
    <3>3. QED
      BY <1>u, <3>2, GoneKept DEF Gone
  <2>3. QED
    BY <1>k, <2>1, <2>2
<1>3. CASE LsRead \/ LsFindZvols \/ LsFindSnaps \/ LsEnd
  BY <1>3, <1>k DEF LsRead, LsFindZvols, LsFindSnaps, LsEnd
<1>4. QED
  BY <1>1, <1>2, <1>3 DEF Scan

\* Whatever is made is named by a uuid no row has.
LEMMA MakeGone ==
    ASSUME GoneInv, CreateZvol \/ TakeSnapshot \/ CloneSnapshot \/ SetReadonly
    PROVE  Gone'
<1> USE DEF GoneInv
<1>0. op \in OpType
  BY DEF TypeOK
<1>1. /\ op.kind \in {"create", "snapshot", "clone"} /\ op.key \notin vdis
      /\ UNCHANGED <<metaVars, open, doomed>>
  BY DEF CreateZvol, TakeSnapshot, CloneSnapshot, SetReadonly, At, OpShape, IdOrder
<1>2. op'.kind = op.kind
  BY <1>0, GotoType DEF CreateZvol, TakeSnapshot, CloneSnapshot, SetReadonly, Pcs
<1>3. zvol' \in {zvol, zvol \cup {op.key}}
  BY DEF CreateZvol, TakeSnapshot, CloneSnapshot, SetReadonly, CloneTo
<1>4. open' \subseteq zvol' /\ zvol' \cap vdis \subseteq zvol
  BY <1>1, <1>3 DEF Gone
<1>5. QED
  BY <1>1, <1>2, <1>4, GoneOther DEF metaVars

LEMMA BeginGone ==
    ASSUME GoneInv,
           \/ CreateBegin \/ Abort \/ Crash
           \/ \E v \in vdis : SnapshotBegin(v) \/ CloneBegin(v)
                              \/ DestroySnapBegin(v) \/ DestroyHeadBegin(v)
    PROVE  Gone'
<1> USE DEF GoneInv
<1>1. UNCHANGED <<zvol, vdis, doomed>> /\ open' \subseteq open
  BY DEF CreateBegin, Abort, Crash, SnapshotBegin, CloneBegin, DestroySnapBegin,
         DestroyHeadBegin, zfsVars, metaVars
<1>2. \/ op'.kind \in {"idle", "create", "snapshot", "clone"}
      \/ op'.pc \in {"dropClone", "release"}
  BY BeginFields DEF CreateBegin, Abort, Crash, SnapshotBegin, CloneBegin, DestroySnapBegin,
         DestroyHeadBegin, Idle
<1>3. QED
  BY <1>1, <1>2, GoneOther DEF Gone

LEMMA DestroyGone ==
    ASSUME GoneInv, DropClone \/ DropSnap \/ PickClone \/ PromoteClone \/ DropHead
    PROVE  Gone'
<1> USE DEF GoneInv
<1>0. op \in OpType /\ TypeOK
  BY DEF TypeOK
<1>u. UNCHANGED <<vdis, open>>
  BY DEF DropClone, DropSnap, PickClone, PromoteClone, DropHead, metaVars
<1>v. op.vdi \in vdis /\ vdis \subseteq Ids
  BY DEF DropClone, DropSnap, PickClone, PromoteClone, DropHead, Released, At, OpShape, TypeOK
<1>1. CASE DropClone
  <2>1. op'.kind = "destroySnap" /\ op'.pc = "dropSnap" /\ op'.vdi = op.vdi
    BY <1>1, <1>0, GotoType DEF DropClone, At, Pcs
  <2>2. CASE DestroyZvol(op.vdi) /\ doomed' = doomed \cup {op.vdi}
    <3>1. zvol' = zvol \ {op.vdi} /\ op.vdi \notin open
      BY <1>0, <2>2, DestroyZvolKeeps
    <3>2. QED
      BY <1>u, <1>v, <2>1, <2>2, <3>1 DEF Gone, At
  <2>3. CASE op.vdi \notin zvol /\ UNCHANGED <<zfsVars, doomed>>
    BY <1>u, <2>1, <2>3 DEF Gone, At, zfsVars
  <2>4. QED
    BY <1>1, <2>2, <2>3 DEF DropClone
<1>2. CASE DropSnap
  <2>1. /\ op.snap = op.vdi /\ op.vdi \notin zvol
        /\ op'.kind = "destroySnap" /\ op'.pc = "commit" /\ op'.vdi = op.vdi
    BY <1>2, <1>0, GotoType DEF DropSnap, At, Pcs, OpShape, Gone
  <2>2. doomed' = doomed \cup {op.vdi}
    BY <1>2 DEF DropSnap
  <2>3. zvol' = zvol /\ holder'[op.vdi] = None
    BY <1>2, <1>0, <1>v, <2>1, DestroySnapKeeps DEF DropSnap
  <2>4. QED
    BY <1>u, <1>v, <2>1, <2>2, <2>3 DEF Gone, At
<1>3. CASE DropHead
  <2>1. op'.kind = "destroyHead" /\ op'.pc = "commit" /\ op'.vdi = op.vdi
    BY <1>3, <1>0, GotoType DEF DropHead, Released, At, Pcs
  <2>2. doomed' = doomed \cup {op.vdi}
    BY <1>3 DEF DropHead
  <2>3. zvol' = zvol \ {op.vdi} /\ op.vdi \notin open
    BY <1>3, <1>0, DestroyZvolKeeps DEF DropHead
  <2>4. QED
    BY <1>u, <1>v, <2>1, <2>2, <2>3 DEF Gone, At
<1>4. CASE PickClone
  <2>1. PICK s \in op.todo :
          \/ \E c \in Clones(s) : op' = Picked(s, c) /\ UNCHANGED <<zfsVars, next>>
          \/ /\ next \in Ids
             /\ CloneTo(s, next)
             /\ op' = [Picked(s, next) EXCEPT !.new = @ \cup {next}]
    BY <1>4 DEF PickClone
  <2>2. op'.pc = "release"
    BY <1>0, <1>4, <2>1 DEF PickClone, At, Picked, OpType
  <2>3. next \notin vdis
    BY <1>v, Ranges DEF IdOrder
  <2>4. zvol' \in {zvol, zvol \cup {next}}
    BY <2>1 DEF CloneTo, zfsVars
  <2>5. QED
    BY <1>4, <1>u, <2>2, <2>3, <2>4, GoneOther DEF PickClone, Gone
<1>5. CASE PromoteClone
  <2>1. op'.pc = "release"
    BY <1>0, <1>5, UnpickedType DEF PromoteClone, At
  <2>2. zvol' = zvol
    BY <1>5 DEF PromoteClone, Promote
  <2>3. QED
    BY <1>5, <1>u, <2>1, <2>2, GoneOther DEF PromoteClone, Gone
<1>6. QED
  BY <1>1, <1>2, <1>3, <1>4, <1>5

LEMMA NextGone ==
    ASSUME GoneInv, [Next]_vars
    PROVE  Gone'
<1> USE DEF GoneInv
<1>1. CASE Age \/ OpenDevice \/ CloseDevice \/ GuestWrite \/ UNCHANGED vars
  <2>1. UNCHANGED <<zvol, holder, op, vdis, doomed>> /\ open' \subseteq zvol'
    BY <1>1 DEF Age, OpenDevice, CloseDevice, GuestWrite, vars, zfsVars, metaVars, Gone
  <2>2. QED
    BY <2>1, GoneKept DEF NoNewSnaps
<1>2. CASE Commit
  <2>1. /\ op' = Idle /\ UNCHANGED <<zvol, open>> /\ doomed' = doomed \ Removed
        /\ vdis' = (vdis \ Removed) \cup op.new
    BY <1>2 DEF Commit, zfsVars
  <2>2. QED
    BY <2>1 DEF Gone, At, Idle
<1>3. QED
  BY <1>1, <1>2, ScanGone, MakeGone, BeginGone, DestroyGone DEF Next, Operation

(***************************************************************************)
(* The rows and the progress of the operation.                             *)
(***************************************************************************)
\* A step that leaves the operation alone.
LEMMA ProgressKept ==
    ASSUME OpShape, Progress, UNCHANGED <<op, vdis, doomed>>,
           KeepZvols(op.new), KeepSnaps(op.new), zvol' \subseteq zvol,
           open' \subseteq vdis \cap zvol',
           NoNewSnaps, snapRows \subseteq Ids
    PROVE  Progress'
BY DEF OpShape, Progress, KeepZvols, KeepSnaps, NoNewSnaps, At

LEMMA ScanRows ==
    ASSUME UseGrace, StoreInv, Scan
    PROVE  Progress' /\ RowsBacked' /\ SnapshotsImmutable' /\ KeepZvols(vdis \ doomed')
<1>1. /\ KeepZvols(vdis \cup op.new) /\ KeepSnaps(vdis \cup op.new)
      /\ zvol' \subseteq zvol /\ (open \cap zvol) \subseteq zvol'
      /\ NoNewSnaps
      /\ UNCHANGED <<metaVars, open, op, doomed>>
  BY ScanSpares DEF StoreInv
<1>2. /\ KeepZvols(op.new) /\ KeepSnaps(op.new)
      /\ KeepZvols(vdis \ doomed') /\ KeepSnaps(vdis \ doomed')
  BY <1>1 DEF KeepZvols, KeepSnaps
<1>3. open \subseteq vdis \cap zvol
  BY DEF StoreInv, Progress
<1>4. Progress'
  BY <1>1, <1>2, <1>3, ProgressKept DEF StoreInv, TypeOK, metaVars
<1>5. QED
  BY <1>1, <1>2, <1>4, RowsKept DEF StoreInv, TypeOK, metaVars

LEMMA EnvironmentRows ==
    ASSUME StoreInv, Age \/ OpenDevice \/ CloseDevice \/ GuestWrite \/ UNCHANGED vars
    PROVE  Progress' /\ RowsBacked' /\ SnapshotsImmutable'
<1>1. /\ UNCHANGED <<zvol, holder, ro, snapData, metaVars, op, doomed>>
      /\ open' \subseteq vdis \cap zvol'
  BY DEF Age, OpenDevice, CloseDevice, GuestWrite, vars, zfsVars, metaVars, StoreInv, Progress
<1>2. \A x \in op.new : data'[x] = data[x]
  <2>1. op.new \cap open = {} /\ data \in [Ids -> Version] /\ open \subseteq Ids
    BY DEF StoreInv, Progress, IdOrder, TypeOK
  <2>2. CASE GuestWrite
    BY <2>1, <2>2, OpFields DEF GuestWrite, StoreInv, TypeOK
  <2>3. QED
    BY <2>2 DEF Age, OpenDevice, CloseDevice, vars, zfsVars
<1>3. \A x \in ro : data'[x] = data[x]
  BY DEF Age, OpenDevice, CloseDevice, GuestWrite, vars, zfsVars, StoreInv, TypeOK
<1>4. KeepZvols(op.new) /\ KeepSnaps(op.new)
  BY <1>1, <1>2 DEF KeepZvols, KeepSnaps
<1>5. Progress'
  BY <1>1, <1>4, ProgressKept DEF StoreInv, TypeOK, NoNewSnaps, metaVars
<1>6. QED
  BY <1>1, <1>3, <1>5 DEF StoreInv, RowsBacked, SnapshotsImmutable, metaVars

\* The first action of an operation changes nothing but op and next.
LEMMA BeginRows ==
    ASSUME StoreInv, UNCHANGED <<zfsVars, metaVars, open, doomed>>,
           \/ op'.kind \in {"create", "snapshot", "clone"} /\ op'.pc \in {"zvol", "snap", "clone"}
           \/ op'.kind = "destroySnap" /\ op'.pc = "dropClone"
           \/ op'.kind = "destroyHead" /\ op'.pc = "release" /\ op'.new = {}
           \/ op' = Idle
    PROVE  Progress' /\ RowsBacked' /\ SnapshotsImmutable' /\ KeepZvols(vdis \ doomed')
<1>1. open' \subseteq vdis' \cap zvol' /\ doomed' \subseteq vdis'
  BY DEF StoreInv, Progress, zfsVars, metaVars
<1>2. Progress'
  BY <1>1 DEF Progress, At, Idle
<1>3. RowsBacked' /\ SnapshotsImmutable'
  BY DEF StoreInv, RowsBacked, SnapshotsImmutable, zfsVars, metaVars
<1>4. KeepZvols(vdis \ doomed')
  BY DEF KeepZvols, zfsVars
<1>5. QED
  BY <1>2, <1>3, <1>4

LEMMA BeginsRows ==
    ASSUME StoreInv,
           \/ CreateBegin
           \/ \E v \in vdis : SnapshotBegin(v) \/ CloneBegin(v)
                              \/ DestroySnapBegin(v) \/ DestroyHeadBegin(v)
    PROVE  Progress' /\ RowsBacked' /\ SnapshotsImmutable' /\ KeepZvols(vdis \ doomed')
<1>1. CASE CreateBegin
  <2>1. op'.kind = "create" /\ op'.pc = "zvol"
    BY <1>1, BeginFields DEF CreateBegin
  <2>2. QED
    BY <1>1, <2>1, BeginRows DEF CreateBegin
<1>2. ASSUME NEW v \in vdis, SnapshotBegin(v)
      PROVE  Progress' /\ RowsBacked' /\ SnapshotsImmutable' /\ KeepZvols(vdis \ doomed')
  <2>1. op'.kind = "snapshot" /\ op'.pc = "snap"
    BY <1>2, BeginFields DEF SnapshotBegin
  <2>2. QED
    BY <1>2, <2>1, BeginRows DEF SnapshotBegin
<1>3. ASSUME NEW v \in vdis, CloneBegin(v)
      PROVE  Progress' /\ RowsBacked' /\ SnapshotsImmutable' /\ KeepZvols(vdis \ doomed')
  <2>1. op'.kind = "clone" /\ op'.pc \in {"snap", "clone"}
    BY <1>3, BeginFields DEF CloneBegin
  <2>2. QED
    BY <1>3, <2>1, BeginRows DEF CloneBegin
<1>4. ASSUME NEW v \in vdis, DestroySnapBegin(v)
      PROVE  Progress' /\ RowsBacked' /\ SnapshotsImmutable' /\ KeepZvols(vdis \ doomed')
  <2>1. op'.kind = "destroySnap" /\ op'.pc = "dropClone"
    BY <1>4, BeginFields DEF DestroySnapBegin
  <2>2. QED
    BY <1>4, <2>1, BeginRows DEF DestroySnapBegin
<1>5. ASSUME NEW v \in vdis, DestroyHeadBegin(v)
      PROVE  Progress' /\ RowsBacked' /\ SnapshotsImmutable' /\ KeepZvols(vdis \ doomed')
  <2>1. op'.kind = "destroyHead" /\ op'.pc = "release" /\ op'.new = {}
    BY <1>5, BeginFields DEF DestroyHeadBegin
  <2>2. QED
    BY <1>5, <2>1, BeginRows DEF DestroyHeadBegin
<1>6. QED
  BY <1>1, <1>2, <1>3, <1>4, <1>5

\* Volume.create, snapshot and clone: nothing of a VDI with a row changes.
LEMMA MakeRows ==
    ASSUME StoreInv, CreateZvol \/ TakeSnapshot \/ CloneSnapshot \/ SetReadonly
    PROVE  Progress' /\ RowsBacked' /\ SnapshotsImmutable' /\ KeepZvols(vdis \ doomed')
<1> USE DEF StoreInv
<1>0. op \in OpType /\ TypeOK
  BY DEF TypeOK
<1>k. /\ op.kind \in {"create", "snapshot", "clone"} /\ op.key \in Ids /\ op.new = {op.key}
      /\ op.key \notin vdis
      /\ op.kind # "create" => op.snap \in Ids
      /\ op.kind = "snapshot" => op.snap = op.key
      /\ op.pc = "snap" => op.snap \notin vdis
  BY DEF CreateZvol, TakeSnapshot, CloneSnapshot, SetReadonly, At, OpShape, IdOrder
<1>u. UNCHANGED <<metaVars, open, doomed>>
  BY DEF CreateZvol, TakeSnapshot, CloneSnapshot, SetReadonly
<1>o. vdis \subseteq Ids /\ open \subseteq vdis \cap zvol /\ doomed \subseteq vdis
  BY DEF TypeOK, Progress
<1>r. ASSUME KeepZvols(vdis), KeepSnaps(vdis)
      PROVE  RowsBacked' /\ SnapshotsImmutable' /\ KeepZvols(vdis \ doomed')
             /\ open' \subseteq vdis' \cap zvol' /\ doomed' \subseteq vdis'
  <2>1. KeepZvols(vdis \ doomed') /\ KeepSnaps(vdis \ doomed')
    BY <1>r DEF KeepZvols, KeepSnaps
  <2>2. RowsBacked' /\ SnapshotsImmutable'
    BY <1>u, <2>1, RowsKept DEF metaVars, TypeOK
  <2>3. QED
    BY <1>r, <1>o, <1>u, <2>1, <2>2 DEF KeepZvols, metaVars
<1>1. CASE CreateZvol
  <2>1. KeepZvols(vdis) /\ KeepSnaps(vdis)
    BY <1>1 DEF CreateZvol, KeepZvols, KeepSnaps
  <2>2. op'.kind = "create" /\ op'.key = op.key
    BY <1>1, <1>0, GotoType DEF CreateZvol, At, Pcs
  <2>3. Progress'
    BY <1>1, <1>r, <2>1, <2>2 DEF CreateZvol, Progress, At
  <2>4. QED
    BY <1>r, <2>1, <2>3
<1>2. CASE TakeSnapshot
  <2>1. KeepZvols(vdis) /\ KeepSnaps(vdis)
    BY <1>2, <1>0, <1>k, <1>o, OpFields DEF TakeSnapshot, KeepZvols, KeepSnaps, TypeOK
  <2>2. op'.kind = op.kind /\ op'.pc = "clone"
    BY <1>2, <1>0, GotoType DEF TakeSnapshot, Pcs
  <2>3. Progress'
    BY <1>k, <1>r, <2>1, <2>2 DEF Progress, At
  <2>4. QED
    BY <1>r, <2>1, <2>3
<1>3. CASE CloneSnapshot
  <2>1. PICK pc \in {"readonly", "commit"} :
           Goto(pc) /\ (op.kind = "snapshot" => pc = "readonly")
    BY <1>3 DEF CloneSnapshot
  <2>2. op'.kind = op.kind /\ op'.pc = pc /\ op'.key = op.key /\ op'.new = op.new
    BY <1>0, <2>1, GotoType DEF Pcs
  <2>3. /\ KeepZvols(Ids \ {op.key}) /\ KeepSnaps(Ids) /\ zvol' = zvol \cup {op.key}
        /\ data'[op.key] = snapData[op.snap] /\ holder[op.snap] # None
    BY <1>3, <1>0, <1>k, CloneToKeeps DEF CloneSnapshot
  <2>4. KeepZvols(vdis) /\ KeepSnaps(vdis)
    BY <1>k, <1>o, <2>3 DEF KeepZvols, KeepSnaps
  <2>5. op.kind = "snapshot" => holder'[op.key] # None /\ data'[op.key] = snapData'[op.key]
    BY <1>k, <2>3 DEF KeepSnaps
  <2>6. Progress'
    BY <1>k, <1>r, <2>1, <2>2, <2>3, <2>4, <2>5 DEF Progress, At
  <2>7. QED
    BY <1>r, <2>4, <2>6
<1>4. CASE SetReadonly
  <2>1. KeepZvols(vdis) /\ KeepSnaps(vdis)
    BY <1>4 DEF SetReadonly, KeepZvols, KeepSnaps
  <2>2. op'.kind = "snapshot" /\ op'.pc = "commit" /\ op'.key = op.key
    BY <1>4, <1>0, GotoType DEF SetReadonly, At, Pcs
  <2>3. Progress'
    BY <1>4, <1>r, <2>1, <2>2 DEF SetReadonly, Progress, At
  <2>4. QED
    BY <1>r, <2>1, <2>3
<1>5. QED
  BY <1>1, <1>2, <1>3, <1>4

\* Volume.destroy takes apart only the VDI it was asked to destroy.
LEMMA DestroyRows ==
    ASSUME StoreInv, DropClone \/ DropSnap \/ PickClone \/ PromoteClone \/ DropHead
    PROVE  Progress' /\ RowsBacked' /\ SnapshotsImmutable' /\ KeepZvols(vdis \ doomed')
<1> USE DEF StoreInv
<1>0. op \in OpType /\ TypeOK
  BY DEF TypeOK
<1>u. UNCHANGED <<metaVars, open>>
  BY DEF DropClone, DropSnap, PickClone, PromoteClone, DropHead
<1>o. /\ vdis \subseteq Ids /\ open \subseteq vdis \cap zvol /\ doomed \subseteq vdis
      /\ snapRows \subseteq vdis
  BY DEF TypeOK, Progress
<1>v. op.vdi \in vdis
  BY <1>o DEF DropClone, DropSnap, PickClone, PromoteClone, DropHead, Released, At, OpShape
<1>r. ASSUME KeepZvols(vdis \ doomed'), KeepSnaps(vdis \ doomed'), doomed \subseteq doomed'
      PROVE  RowsBacked' /\ SnapshotsImmutable' /\ KeepZvols(vdis \ doomed')
  BY <1>o, <1>u, <1>r, RowsKept DEF metaVars
<1>1. CASE DropClone
  <2>1. op.kind = "destroySnap" /\ op'.kind = "destroySnap" /\ op'.pc = "dropSnap" /\ op'.vdi = op.vdi
    BY <1>1, <1>0, GotoType DEF DropClone, At, Pcs
  <2>2. CASE DestroyZvol(op.vdi) /\ doomed' = doomed \cup {op.vdi}
    <3>1. KeepZvols(Ids \ {op.vdi}) /\ KeepSnaps(Ids) /\ zvol' = zvol \ {op.vdi} /\ op.vdi \notin open
      BY <1>0, <2>2, DestroyZvolKeeps
    <3>2. KeepZvols(vdis \ doomed') /\ KeepSnaps(vdis \ doomed')
      BY <1>o, <2>2, <3>1 DEF KeepZvols, KeepSnaps
    <3>3. Progress'
      BY <1>u, <1>o, <1>v, <2>1, <2>2, <3>1 DEF Progress, At, metaVars
    <3>4. QED
      BY <1>r, <2>2, <3>2, <3>3
  <2>3. CASE op.vdi \notin zvol /\ UNCHANGED <<zfsVars, doomed>>
    <3>1. Progress'
      BY <1>u, <1>o, <2>1, <2>3 DEF Progress, At, metaVars, zfsVars
    <3>2. QED
      BY <1>u, <2>3, <3>1 DEF RowsBacked, SnapshotsImmutable, KeepZvols, metaVars, zfsVars
  <2>4. QED
    BY <1>1, <2>2, <2>3 DEF DropClone
<1>2. CASE DropSnap
  <2>1. /\ op.kind = "destroySnap" /\ op.snap = op.vdi /\ op.vdi \notin zvol
        /\ op'.kind = "destroySnap" /\ op'.pc = "commit" /\ op'.vdi = op.vdi
    BY <1>2, <1>0, GotoType DEF DropSnap, At, Pcs, OpShape, Progress
  <2>2. doomed' = doomed \cup {op.vdi}
    BY <1>2 DEF DropSnap
  <2>3. /\ KeepZvols(Ids) /\ KeepSnaps(Ids \ {op.vdi}) /\ zvol' = zvol
        /\ holder'[op.vdi] = None
    BY <1>2, <1>0, <1>o, <1>v, <2>1, DestroySnapKeeps DEF DropSnap
  <2>4. KeepZvols(vdis \ doomed') /\ KeepSnaps(vdis \ doomed')
    BY <1>o, <2>2, <2>3 DEF KeepZvols, KeepSnaps
  <2>5. Progress'
    BY <1>u, <1>o, <1>v, <2>1, <2>2, <2>3 DEF Progress, At, metaVars
  <2>6. QED
    BY <1>r, <2>2, <2>4, <2>5
<1>3. CASE DropHead
  <2>1. /\ op.kind = "destroyHead"
        /\ op'.kind = "destroyHead" /\ op'.pc = "commit" /\ op'.vdi = op.vdi /\ op'.new = op.new
    BY <1>3, <1>0, GotoType DEF DropHead, Released, At, Pcs
  <2>2. doomed' = doomed \cup {op.vdi}
    BY <1>3 DEF DropHead
  <2>3. KeepZvols(Ids \ {op.vdi}) /\ KeepSnaps(Ids) /\ zvol' = zvol \ {op.vdi} /\ op.vdi \notin open
    BY <1>3, <1>0, DestroyZvolKeeps DEF DropHead
  <2>4. KeepZvols(vdis \ doomed') /\ KeepSnaps(vdis \ doomed')
    BY <1>o, <2>2, <2>3 DEF KeepZvols, KeepSnaps
  <2>5. op.new \subseteq zvol'
    BY <1>v, <2>1, <2>3 DEF Progress, IdOrder
  <2>6. Progress'
    BY <1>u, <1>o, <1>v, <2>1, <2>2, <2>3, <2>5 DEF Progress, At, metaVars
  <2>7. QED
    BY <1>r, <2>2, <2>4, <2>6
<1>4. CASE PickClone
  <2>0. op.kind = "destroyHead" /\ op.pc = "release" /\ UNCHANGED doomed
    BY <1>4 DEF PickClone, At
  <2>1. PICK s \in op.todo :
          \/ \E c \in Clones(s) : op' = Picked(s, c) /\ UNCHANGED <<zfsVars, next>>
          \/ /\ next \in Ids
             /\ CloneTo(s, next)
             /\ op' = [Picked(s, next) EXCEPT !.new = @ \cup {next}]
    BY <1>4 DEF PickClone
  <2>2. CASE \E c \in Clones(s) : op' = Picked(s, c) /\ UNCHANGED <<zfsVars, next>>
    <3>1. op'.kind = op.kind /\ op'.pc = op.pc /\ op'.new = op.new
      BY <1>0, <2>2 DEF Picked, OpType
    <3>2. Progress'
      BY <1>u, <1>o, <2>0, <2>2, <3>1 DEF Progress, At, metaVars, zfsVars
    <3>3. QED
      BY <1>u, <2>0, <2>2, <3>2 DEF RowsBacked, SnapshotsImmutable, KeepZvols, metaVars, zfsVars
  <2>3. CASE /\ next \in Ids
             /\ CloneTo(s, next)
             /\ op' = [Picked(s, next) EXCEPT !.new = @ \cup {next}]
    <3>1. op'.kind = op.kind /\ op'.pc = op.pc /\ op'.new = op.new \cup {next}
      BY <1>0, <2>3 DEF Picked, OpType
    <3>2. s \in Ids
      BY <1>0, OpFields
    <3>3. KeepZvols(Ids \ {next}) /\ KeepSnaps(Ids) /\ zvol' = zvol \cup {next}
      BY <1>0, <2>3, <3>2, CloneToKeeps
    <3>4. next \notin vdis
      BY <1>o, <2>3, Ranges DEF IdOrder
    <3>5. KeepZvols(vdis \ doomed') /\ KeepSnaps(vdis \ doomed')
      BY <1>o, <3>3, <3>4 DEF KeepZvols, KeepSnaps
    <3>6. Progress'
      BY <1>u, <1>o, <2>0, <3>1, <3>3 DEF Progress, At, metaVars
    <3>7. QED
      BY <1>r, <2>0, <3>5, <3>6
  <2>4. QED
    BY <2>1, <2>2, <2>3
<1>5. CASE PromoteClone
  <2>0. op.kind = "destroyHead" /\ op.pc = "release" /\ UNCHANGED doomed
    BY <1>5 DEF PromoteClone, At
  <2>1. PICK s \in Ids : /\ op.deps[s] # None
                         /\ Promote(op.deps[s])
                         /\ op' = [op EXCEPT !.deps = [@ EXCEPT ![s] = None]]
    BY <1>5 DEF PromoteClone
  <2>2. op.deps[s] \in Ids
    BY <1>0, <2>1, OpFields, Ranges
  <2>3. KeepZvols(Ids) /\ KeepSnaps(Ids) /\ zvol' = zvol
    BY <1>0, <2>1, <2>2, PromoteKeeps
  <2>4. op'.kind = op.kind /\ op'.pc = op.pc /\ op'.new = op.new
    BY <1>0, <2>1, UnpickedType
  <2>5. KeepZvols(vdis \ doomed') /\ KeepSnaps(vdis \ doomed')
    BY <1>o, <2>3 DEF KeepZvols, KeepSnaps
  <2>6. Progress'
    BY <1>u, <1>o, <2>0, <2>3, <2>4 DEF Progress, At, metaVars
  <2>7. QED
    BY <1>r, <2>0, <2>5, <2>6
<1>6. QED
  BY <1>1, <1>2, <1>3, <1>4, <1>5

\* The rows a commit inserts are backed already; a rollback inserts none.
LEMMA EndRows ==
    ASSUME StoreInv, Commit \/ Abort \/ Crash
    PROVE  Progress' /\ RowsBacked' /\ SnapshotsImmutable'
<1> USE DEF StoreInv
<1>1. CASE Commit
  <2>1. /\ op' = Idle /\ UNCHANGED <<zfsVars, open>> /\ doomed' = doomed \ Removed
        /\ vdis' = (vdis \ Removed) \cup op.new
        /\ snapRows' = (snapRows \ Removed) \cup NewSnap
    BY <1>1 DEF Commit
  <2>2. op.pc = "commit" /\ op.kind # "idle"
    BY <1>1 DEF Commit, OpShape
  <2>3. op.kind \in {"create", "snapshot", "clone", "destroySnap", "destroyHead"}
    BY <2>2 DEF TypeOK, OpType, Kinds
  <2>4. op.new \subseteq zvol
    BY <2>2, <2>3 DEF OpShape, Progress
  <2>5. \A s \in NewSnap : holder[s] # None /\ s \in ro /\ data[s] = snapData[s] /\ s \notin vdis
    BY <2>2 DEF NewSnap, OpShape, Progress, At, IdOrder
  <2>6. Removed \cap zvol = {}
    BY <2>2 DEF Removed, Progress
  <2>7. Progress'
    BY <2>1, <2>6 DEF Progress, Idle, At, zfsVars
  <2>8. \A v \in vdis' \ doomed' : v \in op.new \/ (v \in vdis \ doomed /\ v \notin Removed)
    BY <2>1
  <2>9. RowsBacked'
    BY <2>1, <2>4, <2>5, <2>8 DEF RowsBacked, NewSnap, IdOrder, zfsVars, TypeOK
  <2>10. SnapshotsImmutable'
    BY <2>1, <2>5, <2>8 DEF SnapshotsImmutable, zfsVars
  <2>11. QED
    BY <2>7, <2>9, <2>10
<1>2. CASE Abort
  BY <1>2, BeginRows DEF Abort
<1>3. CASE Crash
  BY <1>3 DEF Crash, Progress, RowsBacked, SnapshotsImmutable, At, Idle, zfsVars, metaVars
<1>4. QED
  BY <1>1, <1>2, <1>3

LEMMA NextStoreInv ==
    ASSUME UseGrace, StoreInv, [Next]_vars
    PROVE  StoreInv'
<1>1. TypeOK' /\ OpShape' /\ IdOrder'
  BY NextTypeOK, NextOpShape, NextIdOrder DEF StoreInv
<1>2. Progress' /\ RowsBacked' /\ SnapshotsImmutable'
  BY ScanRows, EnvironmentRows, BeginsRows, MakeRows, DestroyRows, EndRows
     DEF Next, Operation
<1>3. QED
  BY <1>1, <1>2 DEF StoreInv

\* A row only goes with the commit of the destroy of its VDI.
LEMMA RetireStep ==
    ASSUME [Next]_vars, NEW v \in vdis \ vdis'
    PROVE  Commit /\ v = op.vdi /\ op.kind \in {"destroySnap", "destroyHead"}
<1>1. Commit \/ UNCHANGED vdis
  BY DEF Next, Operation, Scan, CreateBegin, CreateZvol, SnapshotBegin, CloneBegin,
         DestroySnapBegin, DestroyHeadBegin, TakeSnapshot, CloneSnapshot, SetReadonly,
         DropClone, DropSnap, PickClone, PromoteClone, DropHead, Abort, LsRead,
         LsFindZvols, LsReapZvol, LsFindSnaps, LsReapSnap, LsEnd, Age, OpenDevice,
         CloseDevice, GuestWrite, Crash, vars, metaVars
<1>2. QED
  BY <1>1 DEF Commit, Removed

LEMMA DestroyCompleteStep ==
    ASSUME GoneInv, [Next]_vars, NEW v \in vdis \ vdis'
    PROVE  v \notin zvol' /\ (v \in snapRows => holder'[v] = None)
<1>1. Commit /\ v = op.vdi /\ op.kind \in {"destroySnap", "destroyHead"}
  BY RetireStep
<1>2. op.pc = "commit" /\ UNCHANGED <<zvol, holder>>
  BY <1>1 DEF Commit, zfsVars
<1>3. v \notin zvol
  BY <1>1, <1>2 DEF GoneInv, Gone
<1>4. v \in snapRows => At("destroySnap", "commit")
  BY <1>1, <1>2 DEF GoneInv, OpShape, At
<1>5. v \in snapRows => holder[v] = None
  BY <1>1, <1>4 DEF GoneInv, Gone
<1>6. QED
  BY <1>2, <1>3, <1>5

LEMMA SparesStep ==
    ASSUME UseGrace, StoreInv, [Next]_vars, ls # ls', ls'.pc # "idle",
           NEW x \in op.since .. MaxId, op.kind # "idle"
    PROVE  (x \in zvol => x \in zvol') /\ (holder[x] # None => holder'[x] # None)
<1> USE DEF StoreInv
<1>t. /\ aged <= op.since /\ aged \in Int /\ op.since \in Int /\ x \in Int
      /\ ls.todo \subseteq Ids /\ \A y \in Ids : y \in Int
  BY OpFields, Ranges DEF TypeOK, LsType, IdOrder, Floor
<1>1. CASE LsReapZvol
  <2>1. PICK z \in ls.todo : (PastGrace(z) /\ DestroyZvol(z)) \/ UNCHANGED zfsVars
    BY <1>1 DEF LsReapZvol
  <2>2. CASE PastGrace(z) /\ DestroyZvol(z)
    BY <1>t, <2>2 DEF PastGrace, DestroyZvol
  <2>3. QED
    BY <2>1, <2>2 DEF zfsVars
<1>2. CASE LsReapSnap
  <2>1. PICK s \in ls.todo : (Reapable(s) /\ DestroySnap(s)) \/ UNCHANGED zfsVars
    BY <1>2 DEF LsReapSnap
  <2>2. CASE Reapable(s) /\ DestroySnap(s)
    <3>1. x # s
      BY <1>t, <2>2 DEF PastGrace, Reapable
    <3>2. holder'[x] = holder[x]
      BY <2>2, <3>1 DEF DestroySnap, TypeOK
    <3>3. QED
      BY <2>2, <3>2 DEF DestroySnap
  <2>3. QED
    BY <2>1, <2>2 DEF zfsVars
<1>3. CASE LsRead \/ LsFindZvols \/ LsFindSnaps \/ LsEnd
  BY <1>3 DEF LsRead, LsFindZvols, LsFindSnaps, LsEnd, zfsVars
<1>4. Scan
  BY DEF Next, Operation, CreateBegin, CreateZvol, SnapshotBegin, CloneBegin,
         DestroySnapBegin, DestroyHeadBegin, TakeSnapshot, CloneSnapshot, SetReadonly,
         DropClone, DropSnap, PickClone, PromoteClone, DropHead, Commit, Abort, Age,
         OpenDevice, CloseDevice, GuestWrite, Crash, NoScan, vars
<1>5. QED
  BY <1>1, <1>2, <1>3, <1>4 DEF Scan

\* The refinement, step by step.
LEMMA CatalogStutter ==
    ASSUME StoreInv, KeepZvols(Listed), Listed' = Listed, (snapRows \ doomed)' = snapRows \ doomed
    PROVE  UNCHANGED Catalog!vars
<1>1. \A v \in Listed : v \in zvol /\ v \in zvol' /\ data'[v] = data[v]
  BY DEF StoreInv, RowsBacked, Listed, KeepZvols
<1>2. \A v \in Listed : Device(v)' = Device(v)
  BY <1>1 DEF Device
<1>3. QED
  BY <1>2 DEF Catalog!vars

LEMMA CatalogRetire ==
    ASSUME StoreInv, NEW v \in vdis, UNCHANGED <<vdis, snapRows>>,
           doomed' = doomed \cup {v}, KeepZvols(vdis \ doomed')
    PROVE  [Catalog!Next]_(Catalog!vars)
<1>1. CASE v \in doomed
  <2>1. doomed' = doomed
    BY <1>1
  <2>2. QED
    BY <2>1, CatalogStutter DEF Listed
<1>2. CASE v \notin doomed
  <2>1. v \in Listed /\ Listed' = Listed \ {v} /\ (snapRows \ doomed)' = (snapRows \ doomed) \ {v}
    BY <1>2 DEF Listed
  <2>2. \A w \in Listed' : w \in Listed /\ w \in zvol /\ w \in zvol' /\ data'[w] = data[w]
    BY DEF StoreInv, RowsBacked, Listed, KeepZvols
  <2>3. \A w \in Listed' : w \in Listed /\ Device(w)' = Device(w)
    BY <2>2 DEF Device
  <2>4. Catalog!Retire(v)
    BY <2>1, <2>3 DEF Catalog!Retire
  <2>5. QED
    BY <2>1, <2>4 DEF Catalog!Next
<1>3. QED
  BY <1>1, <1>2

LEMMA CatalogWrite ==
    ASSUME StoreInv, GuestWrite
    PROVE  [Catalog!Next]_(Catalog!vars)
<1> USE DEF StoreInv
<1>1. PICK v \in open \ ro : data' = [data EXCEPT ![v] = writes']
  BY DEF GuestWrite
<1>2. /\ UNCHANGED <<zvol, ro, vdis, snapRows, doomed>>
      /\ writes' \in Version
  BY Ranges DEF GuestWrite, metaVars, TypeOK
<1>3. v \in vdis \cap zvol /\ v \in Ids /\ data \in [Ids -> Version]
  BY DEF Progress, TypeOK
<1>4. /\ Listed' = Listed /\ (snapRows \ doomed)' = snapRows \ doomed
      /\ v \notin snapRows \ doomed
      /\ \A w \in Listed : w \in zvol /\ w \in zvol' /\ w \in Ids
  BY <1>2, <1>1 DEF Listed, SnapshotsImmutable, RowsBacked, TypeOK
<1>5. \A w \in Listed : Device(w)' = IF w = v THEN writes' ELSE Device(w)
  BY <1>1, <1>3, <1>4 DEF Device
<1>6. CASE v \in Listed
  <2>1. Catalog!Write(v)
    BY <1>2, <1>4, <1>5, <1>6 DEF Catalog!Write
  <2>2. QED
    BY <1>6, <2>1 DEF Catalog!Next
<1>7. CASE v \notin Listed
  BY <1>4, <1>5, <1>7 DEF Catalog!vars
<1>8. QED
  BY <1>6, <1>7

LEMMA CatalogPublish ==
    ASSUME StoreInv, Commit
    PROVE  [Catalog!Next]_(Catalog!vars)
<1> USE DEF StoreInv
<1>1. /\ UNCHANGED zfsVars /\ doomed' = doomed \ Removed /\ op.pc = "commit"
      /\ vdis' = (vdis \ Removed) \cup op.new
      /\ snapRows' = (snapRows \ Removed) \cup NewSnap
  BY DEF Commit
<1>2. /\ Removed \subseteq doomed /\ op.new \cap vdis = {} /\ doomed \subseteq vdis
      /\ snapRows \subseteq vdis /\ op.new \subseteq Ids /\ NewSnap \in {{}, op.new}
      /\ data \in [Ids -> Version]
  BY <1>1, OpFields DEF Removed, NewSnap, Progress, IdOrder, TypeOK
<1>3. op.new \subseteq zvol
  BY <1>1, <1>2 DEF Progress, OpShape, TypeOK, OpType, Kinds
<1>4. /\ Listed' = Listed \cup op.new /\ op.new \cap Listed = {}
      /\ (snapRows \ doomed)' = (snapRows \ doomed) \cup NewSnap
  BY <1>1, <1>2 DEF Listed
<1>5. \A v \in Listed' : Device(v)' = Device(v)
  BY <1>1 DEF Device, zfsVars
<1>6. \A v \in op.new : Device(v) \in Version
  BY <1>2, <1>3 DEF Device
<1>7. CASE op.new = {}
  BY <1>2, <1>4, <1>5, <1>7 DEF Catalog!vars
<1>8. CASE op.new # {}
  <2>1. Catalog!Publish(op.new)
    BY <1>2, <1>4, <1>5, <1>6 DEF Catalog!Publish
  <2>2. QED
    BY <1>2, <1>8, <2>1 DEF Catalog!Next
<1>9. QED
  BY <1>7, <1>8

LEMMA CatalogStep ==
    ASSUME UseGrace, StoreInv, [Next]_vars
    PROVE  [Catalog!Next]_(Catalog!vars)
<1>q. ASSUME KeepZvols(vdis \ doomed'), UNCHANGED <<vdis, snapRows, doomed>>
      PROVE  [Catalog!Next]_(Catalog!vars)
  BY <1>q, CatalogStutter DEF Listed
<1>1. CASE Scan
  BY <1>1, <1>q, ScanRows, ScanSpares DEF StoreInv, metaVars
<1>2. CASE \/ CreateBegin
           \/ \E v \in vdis : SnapshotBegin(v) \/ CloneBegin(v)
                              \/ DestroySnapBegin(v) \/ DestroyHeadBegin(v)
  <2>1. KeepZvols(vdis \ doomed')
    BY <1>2, BeginsRows
  <2>2. QED
    BY <1>2, <1>q, <2>1 DEF CreateBegin, SnapshotBegin, CloneBegin, DestroySnapBegin,
                            DestroyHeadBegin, metaVars
<1>3. CASE CreateZvol \/ TakeSnapshot \/ CloneSnapshot \/ SetReadonly
  <2>1. KeepZvols(vdis \ doomed')
    BY <1>3, MakeRows
  <2>2. QED
    BY <1>3, <1>q, <2>1 DEF CreateZvol, TakeSnapshot, CloneSnapshot, SetReadonly, metaVars
<1>4. CASE DropClone \/ DropSnap \/ PickClone \/ PromoteClone \/ DropHead
  <2>1. KeepZvols(vdis \ doomed') /\ UNCHANGED <<vdis, snapRows>>
    BY <1>4, DestroyRows DEF DropClone, DropSnap, PickClone, PromoteClone, DropHead, metaVars
  <2>2. doomed' = doomed \/ doomed' = doomed \cup {op.vdi}
    BY <1>4 DEF DropClone, DropSnap, PickClone, PromoteClone, DropHead
  <2>3. op.vdi \in vdis
    BY <1>4 DEF DropClone, DropSnap, PickClone, PromoteClone, DropHead, Released, At,
                StoreInv, OpShape, TypeOK
  <2>4. QED
    BY <1>q, <2>1, <2>2, <2>3, CatalogRetire
<1>5. CASE Commit
  BY <1>5, CatalogPublish
<1>6. CASE GuestWrite
  BY <1>6, CatalogWrite
<1>7. CASE Abort \/ Age \/ OpenDevice \/ CloseDevice \/ Crash \/ UNCHANGED vars
  <2>1. UNCHANGED <<zfsVars, metaVars, doomed>>
    BY <1>7 DEF Abort, Age, OpenDevice, CloseDevice, Crash, vars
  <2>2. KeepZvols(vdis \ doomed')
    BY <2>1 DEF KeepZvols, zfsVars
  <2>3. QED
    BY <1>q, <2>1, <2>2 DEF metaVars
<1>8. QED
  BY <1>1, <1>2, <1>3, <1>4, <1>5, <1>6, <1>7 DEF Next, Operation

(***************************************************************************)
(* What a snapshot or a clone shows when it is committed.  Its origin is   *)
(* the ZFS snapshot it was cloned from, which that clone keeps from being  *)
(* destroyed; its own zvol is too young for the scan.                      *)
(***************************************************************************)
Copied ==
    /\ op.kind = "clone" /\ op.vdi \in snapRows => op.snap = op.vdi
    /\ op.kind \in {"snapshot", "clone"} /\ op.pc \in {"readonly", "commit"} =>
          /\ origin[op.key] = op.snap /\ holder[op.snap] # None
          /\ data[op.key] = snapData[op.snap]

\* A step that leaves alone the two objects of the copy.
LEMMA CopiedKept ==
    ASSUME Copied, UNCHANGED snapRows, op'.kind = op.kind, op'.vdi = op.vdi,
           op'.key = op.key, op'.snap = op.snap,
           op'.pc \in {"readonly", "commit"} => op.pc \in {"readonly", "commit"},
           op.kind \in {"snapshot", "clone"} /\ op.pc \in {"readonly", "commit"} =>
              /\ origin'[op.key] = origin[op.key] /\ data'[op.key] = data[op.key]
              /\ holder'[op.snap] = holder[op.snap] /\ snapData'[op.snap] = snapData[op.snap]
    PROVE  Copied'
BY DEF Copied

LEMMA ScanCopied ==
    ASSUME UseGrace, StoreInv, Copied, Scan
    PROVE  Copied'
<1> USE DEF StoreInv
<1>u. UNCHANGED <<op, snapRows>>
  BY DEF Scan, LsRead, LsFindZvols, LsReapZvol, LsFindSnaps, LsReapSnap, LsEnd, metaVars
<1>k. UNCHANGED zfsVars => Copied'
  BY <1>u, CopiedKept DEF zfsVars
<1>c. op.kind \in {"snapshot", "clone"} /\ op.pc \in {"readonly", "commit"} =>
         op.key \in Ids /\ op.key \in op.new /\ op.snap \in Ids /\ op.key \in Clones(op.snap)
  BY DEF OpShape, Progress, Copied, Clones
<1>1. CASE LsReapZvol
  <2>1. PICK z \in ls.todo : (PastGrace(z) /\ DestroyZvol(z)) \/ UNCHANGED zfsVars
    BY <1>1 DEF LsReapZvol
  <2>2. CASE PastGrace(z) /\ DestroyZvol(z)
    <3>1. z \in Ids /\ z \notin op.new
      BY <1>1, <2>2, ReapSpares DEF LsReapZvol
    <3>2. /\ origin' = [origin EXCEPT ![z] = None] /\ data' = [data EXCEPT ![z] = 0]
          /\ UNCHANGED <<holder, snapData>>
      BY <2>2 DEF DestroyZvol
    <3>3. QED
      BY <1>c, <1>u, <3>1, <3>2, CopiedKept DEF TypeOK
  <2>3. QED
    BY <1>k, <2>1, <2>2
<1>2. CASE LsReapSnap
  <2>1. PICK s \in ls.todo : DestroySnap(s) \/ UNCHANGED zfsVars
    BY <1>2 DEF LsReapSnap
  <2>2. CASE DestroySnap(s)
    <3>1. Clones(s) = {}
      BY <2>2 DEF DestroySnap, SnapDestroyable
    <3>2. /\ holder' = [holder EXCEPT ![s] = None] /\ snapData' = [snapData EXCEPT ![s] = 0]
          /\ UNCHANGED <<origin, data>>
      BY <2>2 DEF DestroySnap
    <3>3. op.kind \in {"snapshot", "clone"} /\ op.pc \in {"readonly", "commit"} => op.snap # s
      BY <1>c, <3>1
    <3>4. QED
      BY <1>c, <1>u, <3>2, <3>3, CopiedKept DEF TypeOK
  <2>3. QED
    BY <1>k, <2>1, <2>2
<1>3. CASE LsRead \/ LsFindZvols \/ LsFindSnaps \/ LsEnd
  BY <1>3, <1>k DEF LsRead, LsFindZvols, LsFindSnaps, LsEnd
<1>4. QED
  BY <1>1, <1>2, <1>3 DEF Scan

LEMMA NextCopied ==
    ASSUME UseGrace, StoreInv, Copied, [Next]_vars
    PROVE  Copied'
<1> USE DEF StoreInv
<1>0. op \in OpType /\ TypeOK
  BY DEF TypeOK
<1>o. op'.kind \notin {"snapshot", "clone"} => Copied'
  BY DEF Copied
<1>1. CASE GuestWrite
  <2>1. PICK v \in open \ ro : data' = [data EXCEPT ![v] = writes']
    BY <1>1 DEF GuestWrite
  <2>2. op.kind \in {"snapshot", "clone"} => op.key \in Ids /\ op.key # v
    BY DEF OpShape, IdOrder, Progress
  <2>3. UNCHANGED <<op, snapRows, holder, origin, snapData>>
    BY <1>1 DEF GuestWrite, metaVars
  <2>4. QED
    BY <2>1, <2>2, <2>3, CopiedKept DEF TypeOK
<1>2. CASE Age \/ OpenDevice \/ CloseDevice \/ UNCHANGED vars
  BY <1>2, CopiedKept DEF Age, OpenDevice, CloseDevice, vars, zfsVars, metaVars
<1>3. CASE TakeSnapshot
  <2>1. /\ op'.kind = op.kind /\ op'.vdi = op.vdi /\ op'.snap = op.snap /\ op'.pc = "clone"
        /\ UNCHANGED snapRows
    BY <1>0, <1>3, GotoType DEF TakeSnapshot, Pcs, metaVars
  <2>2. QED
    BY <2>1 DEF Copied
<1>4. CASE CloneSnapshot
  <2>1. /\ op'.kind = op.kind /\ op'.vdi = op.vdi /\ op'.snap = op.snap /\ op'.key = op.key
        /\ UNCHANGED snapRows /\ op.key \in Ids /\ op.snap \in Ids
    BY <1>0, <1>4, GotoType DEF CloneSnapshot, Pcs, metaVars, OpShape
  <2>2. /\ holder[op.snap] # None /\ UNCHANGED <<holder, snapData>>
        /\ origin' = [origin EXCEPT ![op.key] = op.snap]
        /\ data' = [data EXCEPT ![op.key] = snapData[op.snap]]
    BY <1>4 DEF CloneSnapshot, CloneTo
  <2>3. origin'[op.key] = op.snap /\ data'[op.key] = snapData[op.snap]
    BY <2>1, <2>2 DEF TypeOK
  <2>4. QED
    BY <2>1, <2>2, <2>3 DEF Copied
<1>5. CASE SetReadonly
  <2>1. /\ op'.kind = op.kind /\ op'.vdi = op.vdi /\ op'.snap = op.snap /\ op'.key = op.key
        /\ UNCHANGED <<snapRows, holder, origin, data, snapData>> /\ op.pc = "readonly"
    BY <1>0, <1>5, GotoType DEF SetReadonly, Pcs, metaVars, At
  <2>2. QED
    BY <2>1, CopiedKept
<1>6. ASSUME NEW v \in vdis, SnapshotBegin(v) PROVE Copied'
  <2>1. op'.kind = "snapshot" /\ op'.pc = "snap"
    BY <1>6, BeginFields DEF SnapshotBegin
  <2>2. QED
    BY <2>1 DEF Copied
<1>7. ASSUME NEW v \in vdis, CloneBegin(v) PROVE Copied'
  <2>1. /\ op'.kind = "clone" /\ op'.pc \in {"snap", "clone"} /\ op'.vdi = v
        /\ v \in snapRows => op'.snap = v
    BY <1>7, BeginFields DEF CloneBegin
  <2>2. UNCHANGED snapRows
    BY <1>7 DEF CloneBegin, metaVars
  <2>3. QED
    BY <2>1, <2>2 DEF Copied
<1>8. ASSUME NEW v \in vdis, DestroySnapBegin(v) \/ DestroyHeadBegin(v) PROVE Copied'
  BY <1>8, <1>o, BeginFields DEF DestroySnapBegin, DestroyHeadBegin
<1>9. CASE CreateBegin \/ CreateZvol \/ Commit \/ Abort \/ Crash
  BY <1>9, <1>o, <1>0, BeginFields, GotoType
     DEF CreateBegin, CreateZvol, Commit, Abort, Crash, Idle, At, Pcs
<1>10. CASE DropClone \/ DropSnap \/ DropHead
  BY <1>10, <1>o, <1>0, GotoType DEF DropClone, DropSnap, DropHead, Released, At, Pcs
<1>11. CASE PickClone \/ PromoteClone
  <2>1. op'.kind = op.kind
    BY <1>0, <1>11, UnpickedType DEF PickClone, PromoteClone, Picked, OpType
  <2>2. QED
    BY <1>11, <1>o, <2>1 DEF PickClone, PromoteClone, At
<1>12. QED
  BY <1>1, <1>2, <1>3, <1>4, <1>5, <1>6, <1>7, <1>8, <1>9, <1>10, <1>11, ScanCopied
     DEF Next, Operation

LEMMA CopiedIsFaithful ==
    ASSUME StoreInv, Copied
    PROVE  CopiesFaithful
BY DEF StoreInv, Copied, CopiesFaithful, SnapshotsImmutable

\* What is known of the VDIs under destruction holds in every reachable
\* state, with any grace period.
THEOREM GoneInvariant == Spec => []GoneInv
<1>1. Init => GoneInv
  BY InitStoreInv DEF StoreInv, GoneInv, Gone, Init, Idle, At
<1>2. GoneInv /\ [Next]_vars => GoneInv'
  BY NextTypeOK, NextOpShape, NextIdOrder, NextGone DEF GoneInv
<1>3. QED
  BY <1>1, <1>2, PTL DEF Spec

\* A VDI whose row Volume.destroy removes has neither zvol nor ZFS snapshot,
\* whatever the grace period of the scan that runs beside it.
THEOREM DestroysAreComplete == Spec => DestroyComplete
<1>1. GoneInv /\ [Next]_vars =>
        [\A v \in vdis \ vdis' : v \notin zvol' /\ (v \in snapRows => holder'[v] = None)]_vars
  BY DestroyCompleteStep
<1>2. QED
  BY <1>1, GoneInvariant, PTL DEF Spec, DestroyComplete

(***************************************************************************)
(* The theorems that need a grace period above zero: with                  *)
(* orphan_grace_period_seconds = 0 the scan may destroy what an operation  *)
(* is about to commit a row for.                                           *)
(***************************************************************************)
\* The inductive invariant holds in every reachable state.
THEOREM StoreInvariant ==
    ASSUME UseGrace
    PROVE  Spec => []StoreInv
<1>1. Init => StoreInv
  BY InitStoreInv
<1>2. StoreInv /\ [Next]_vars => StoreInv'
  BY NextStoreInv
<1>3. QED
  BY <1>1, <1>2, PTL DEF Spec

\* No VDI with a row loses its zvol or its ZFS snapshot before its own
\* destroy begins to take it apart, whatever SR.ls destroys as orphans while
\* Volume.create, snapshot, clone and destroy run, fail or crash.
THEOREM VdisStayBacked ==
    ASSUME UseGrace
    PROVE  Spec => []RowsBacked
<1>1. StoreInv => RowsBacked
  BY DEF StoreInv
<1>2. QED
  BY <1>1, StoreInvariant, PTL

\* The device of a snapshot VDI keeps showing the content of its snapshot,
\* whatever guests write and whatever Volume.destroy promotes.
THEOREM SnapshotsStayImmutable ==
    ASSUME UseGrace
    PROVE  Spec => []SnapshotsImmutable
<1>1. StoreInv => SnapshotsImmutable
  BY DEF StoreInv
<1>2. QED
  BY <1>1, StoreInvariant, PTL

\* What Volume.snapshot and Volume.clone commit shows its source as it was
\* at the ZFS snapshot, whatever guests write and SR.ls destroys meanwhile;
\* the clone of a snapshot VDI shows what that VDI shows.
THEOREM CopiesAreFaithful ==
    ASSUME UseGrace
    PROVE  Spec => []CopiesFaithful
<1>1. Init => StoreInv /\ Copied
  BY InitStoreInv DEF Init, Copied, Idle
<1>2. StoreInv /\ Copied /\ [Next]_vars => (StoreInv /\ Copied)'
  BY NextStoreInv, NextCopied
<1>3. StoreInv /\ Copied => CopiesFaithful
  BY CopiedIsFaithful
<1>4. QED
  BY <1>1, <1>2, <1>3, PTL DEF Spec

\* SR.ls destroys nothing the operation under the lock has made.
THEOREM ScansSpareInFlight ==
    ASSUME UseGrace
    PROVE  Spec => ScanSparesInFlight
<1>1. StoreInv /\ [Next]_vars =>
        [ls # ls' /\ ls'.pc # "idle" =>
          \A x \in op.since .. MaxId :
             op.kind # "idle" => /\ x \in zvol => x \in zvol'
                                 /\ holder[x] # None => holder'[x] # None]_vars
  BY SparesStep
<1>2. QED
  BY <1>1, StoreInvariant, PTL DEF Spec, ScanSparesInFlight

\* What clients see of the storage repository is the catalog of VdiCatalog:
\* VDIs appear with their commit, change where they are written, and leave
\* when their destroy takes the first thing of theirs away.
THEOREM StoreImplementsCatalog ==
    ASSUME UseGrace
    PROVE  Spec => ImplementsCatalog
<1>1. Init => Catalog!Init
  <2>1. Init => Listed = {}
    BY DEF Init, Listed
  <2>2. QED
    BY <2>1 DEF Init, Catalog!Init
<1>2. StoreInv /\ [Next]_vars => [Catalog!Next]_(Catalog!vars)
  BY CatalogStep
<1>3. QED
  BY <1>1, <1>2, StoreInvariant, PTL DEF Spec, ImplementsCatalog, Catalog!Spec

=============================================================================
