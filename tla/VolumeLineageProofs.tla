------------------------ MODULE VolumeLineageProofs ------------------------
(***************************************************************************)
(* Volume.destroy of a VDI with snapshots: picking one clone per snapshot  *)
(* and promoting them oldest first moves every snapshot off the zvol.  The *)
(* argument is about the tree of clones: a zvol's origin is older than     *)
(* every snapshot the zvol holds, and promotions keep it so.               *)
(***************************************************************************)
EXTENDS VolumeStoreProofs

\* The clone tree: holders and origins exist, and origins are older.
Tree ==
    /\ \A s \in Ids : holder[s] # None => holder[s] \in zvol
    /\ \A z \in Ids : origin[z] # None => z \in zvol /\ holder[origin[z]] # None
    /\ \A t \in Ids : holder[t] # None /\ origin[holder[t]] # None => origin[holder[t]] < t

\* Uuids not drawn yet name nothing; a snapshot is taken with a newer one.
Fresh ==
    /\ \A s \in Ids : holder[s] # None => s < next
    /\ \A z \in zvol : z < next
    /\ op.pc = "snap" => op.snap < next /\ \A s \in Ids : holder[s] # None => s < op.snap

\* Each snapshot of the zvol being destroyed is still to be handled, or has
\* a clone that will be promoted; that clone is not the zvol itself.
Covered ==
    At("destroyHead", "release") =>
        /\ \A s \in Held(op.vdi) : s \in op.todo \/ op.deps[s] # None
        /\ \A s \in Ids : op.deps[s] # None =>
              /\ op.deps[s] # op.vdi /\ op.deps[s] < next
              /\ origin[op.deps[s]] \in {s, None}
              /\ origin[op.deps[s]] = s => holder[s] = op.vdi

LineageInv == TypeOK /\ OpShape /\ IdOrder /\ Tree /\ Fresh /\ Covered

LEMMA DestroyZvolTree ==
    ASSUME TypeOK, Tree, NEW z, DestroyZvol(z)
    PROVE  Tree'
BY Ranges DEF TypeOK, Tree, DestroyZvol, ZvolDestroyable, Held

LEMMA DestroySnapTree ==
    ASSUME TypeOK, Tree, NEW s \in Ids, DestroySnap(s)
    PROVE  Tree'
<1>1. /\ holder' = [holder EXCEPT ![s] = None] /\ UNCHANGED <<zvol, origin>>
      /\ \A z \in zvol : origin[z] # s
  BY DEF DestroySnap, SnapDestroyable, Clones
<1>2. \A z \in Ids : origin[z] # None => origin[z] \in Ids /\ origin[z] # s
  BY <1>1, Ranges DEF TypeOK, Tree
<1>3. QED
  BY <1>1, <1>2 DEF TypeOK, Tree

LEMMA CloneToTree ==
    ASSUME TypeOK, Tree, NEW s \in Ids, NEW c \in Ids, CloneTo(s, c)
    PROVE  Tree'
BY Ranges DEF TypeOK, Tree, CloneTo

\* What a promotion does to the tree, its parameters named.
LEMMA PromoteTree ==
    ASSUME TypeOK, Tree, NEW c \in Ids, Promote(c)
    PROVE  /\ Tree'
           /\ \A x \in Ids : holder'[x] = IF holder[x] = holder[origin[c]] /\ x <= origin[c]
                                          THEN c ELSE holder[x]
           /\ c # holder[origin[c]]
           /\ origin[c] \in Ids /\ holder[origin[c]] \in Ids
           /\ \A z \in Ids : origin'[z] = IF z = holder[origin[c]] THEN origin[c]
                                          ELSE IF z = c THEN origin[holder[origin[c]]]
                                          ELSE origin[z]
<1> DEFINE s == origin[c]
           p == holder[s]
<1>1. s \in Ids /\ p \in Ids /\ c \in zvol /\ c \in Ids /\ p \in zvol
  BY Ranges DEF Promote, TypeOK, Tree
<1>2. c # p
  BY <1>1, Ranges DEF Tree
<1>3. \A x \in Ids : holder'[x] = IF holder[x] = p /\ x <= s THEN c ELSE holder[x]
  BY DEF Promote
<1>4. \A z \in Ids : origin'[z] = IF z = p THEN s ELSE IF z = c THEN origin[p] ELSE origin[z]
  BY <1>1, <1>2 DEF Promote, TypeOK
<1>5. zvol' = zvol
  BY DEF Promote
<1>6. \A x \in Ids : x \in Int
  BY Ranges
<1>7. \A x \in Ids : holder[x] # None => holder'[x] # None
  BY <1>1, <1>3, Ranges
<1>8. \A x \in Ids : holder'[x] # None => holder'[x] \in zvol'
  BY <1>1, <1>3, <1>5 DEF Tree
<1>9. \A z \in Ids : origin'[z] # None => z \in zvol' /\ holder'[origin'[z]] # None
  <2>1. SUFFICES ASSUME NEW z \in Ids, origin'[z] # None
                 PROVE  z \in zvol' /\ holder'[origin'[z]] # None
    OBVIOUS
  <2>2. CASE z = p
    BY <1>1, <1>2, <1>3, <1>4, <1>5, <1>6, <2>2, Ranges
  <2>3. CASE z # p /\ z = c
    <3>1. origin'[z] = origin[p] /\ origin[p] \in Ids /\ holder[origin[p]] # None
      BY <1>1, <1>4, <2>1, <2>3, Ranges DEF Tree, TypeOK
    <3>2. QED
      BY <1>1, <1>5, <1>7, <2>3, <3>1
  <2>4. CASE z # p /\ z # c
    <3>1. origin'[z] = origin[z] /\ origin[z] \in Ids /\ z \in zvol /\ holder[origin[z]] # None
      BY <1>4, <2>1, <2>4, Ranges DEF Tree, TypeOK
    <3>2. QED
      BY <1>5, <1>7, <3>1
  <2>5. QED
    BY <2>2, <2>3, <2>4
<1>10. \A t \in Ids : holder'[t] # None /\ origin'[holder'[t]] # None => origin'[holder'[t]] < t
  <2>1. SUFFICES ASSUME NEW t \in Ids, holder'[t] # None, origin'[holder'[t]] # None
                 PROVE  origin'[holder'[t]] < t
    OBVIOUS
  <2>2. CASE holder[t] = p /\ t <= s
    <3>1. holder'[t] = c /\ origin'[c] = origin[p]
      BY <1>1, <1>2, <1>3, <1>4, <2>2
    <3>2. QED
      BY <1>1, <2>1, <2>2, <3>1, Ranges DEF Tree
  <2>3. CASE holder[t] = p /\ ~(t <= s)
    <3>1. holder'[t] = p /\ origin'[p] = s
      BY <1>1, <1>3, <1>4, <2>3
    <3>2. QED
      BY <1>1, <1>6, <2>3, <3>1
  <2>4. CASE holder[t] = c
    <3>1. holder'[t] = c /\ origin'[c] = origin[p] /\ origin[p] # None
      BY <1>1, <1>2, <1>3, <1>4, <2>1, <2>4
    <3>2. s < t /\ origin[p] < s
      BY <1>1, <2>4, <3>1, Ranges DEF Tree
    <3>3. origin[p] \in Int
      BY <1>1, <3>1, Ranges DEF TypeOK
    <3>4. QED
      BY <1>1, <1>6, <3>1, <3>2, <3>3
  <2>5. CASE holder[t] # p /\ holder[t] # c
    <3>1. holder'[t] = holder[t] /\ holder[t] \in Ids
      BY <1>3, <2>1, <2>5, Ranges DEF TypeOK
    <3>2. origin'[holder[t]] = origin[holder[t]]
      BY <1>4, <2>5, <3>1
    <3>3. QED
      BY <2>1, <3>1, <3>2 DEF Tree
  <2>6. QED
    BY <2>2, <2>3, <2>4, <2>5
<1>11. QED
  BY <1>1, <1>2, <1>3, <1>4, <1>8, <1>9, <1>10 DEF Tree

\* What a step does to the tree's variables, by kind of step.
LEMMA NextTree ==
    ASSUME LineageInv, [Next]_vars
    PROVE  Tree'
<1> USE DEF LineageInv
<1>u. UNCHANGED <<zvol, holder, origin>> => Tree'
  BY DEF Tree
<1>1. CASE CreateZvol
  <2>1. op.key \in Ids /\ zvol' = zvol \cup {op.key} /\ UNCHANGED <<holder, origin>>
    BY <1>1 DEF CreateZvol, At, OpShape
  <2>2. QED
    BY <2>1 DEF Tree
<1>2. CASE TakeSnapshot
  <2>1. /\ op.snap \in Ids /\ op.base \in zvol /\ op.base \in Ids
        /\ holder' = [holder EXCEPT ![op.snap] = op.base]
        /\ UNCHANGED <<zvol, origin>>
        /\ \A s \in Ids : holder[s] # None => s < op.snap
    BY <1>2 DEF TakeSnapshot, OpShape, TypeOK, Fresh
  <2>2. origin[op.base] # None => origin[op.base] < op.snap
    BY <2>1, Ranges DEF Tree, TypeOK
  <2>3. QED
    BY <2>1, <2>2, Ranges DEF Tree, TypeOK
<1>3. CASE CloneSnapshot
  <2>1. op.snap \in Ids /\ op.key \in Ids /\ CloneTo(op.snap, op.key)
    BY <1>3 DEF CloneSnapshot, OpShape
  <2>2. QED
    BY <2>1, CloneToTree
<1>4. CASE DropClone
  BY <1>4, <1>u, DestroyZvolTree DEF DropClone, zfsVars
<1>5. CASE DropSnap
  <2>1. op.snap \in Ids /\ DestroySnap(op.snap)
    BY <1>5 DEF DropSnap, At, OpShape
  <2>2. QED
    BY <2>1, DestroySnapTree
<1>6. CASE PickClone
  <2>1. PICK s \in op.todo : UNCHANGED zfsVars \/ (next \in Ids /\ CloneTo(s, next))
    BY <1>6 DEF PickClone
  <2>2. s \in Ids
    BY OpFields DEF TypeOK
  <2>3. QED
    BY <1>u, <2>1, <2>2, CloneToTree DEF zfsVars
<1>7. CASE PromoteClone
  <2>1. PICK s \in Ids : op.deps[s] # None /\ Promote(op.deps[s])
    BY <1>7 DEF PromoteClone
  <2>2. op.deps[s] \in Ids
    BY <2>1, OpFields, Ranges DEF TypeOK
  <2>3. QED
    BY <2>1, <2>2, PromoteTree
<1>8. CASE DropHead
  BY <1>8, DestroyZvolTree DEF DropHead
<1>9. CASE LsReapZvol
  BY <1>9, <1>u, DestroyZvolTree DEF LsReapZvol, zfsVars
<1>10. CASE LsReapSnap
  <2>1. PICK s \in ls.todo : DestroySnap(s) \/ UNCHANGED zfsVars
    BY <1>10 DEF LsReapSnap
  <2>2. s \in Ids
    BY DEF TypeOK, LsType
  <2>3. QED
    BY <1>u, <2>1, <2>2, DestroySnapTree DEF zfsVars
<1>11. CASE \/ CreateBegin \/ SetReadonly \/ Commit \/ Abort
            \/ \E v \in vdis : SnapshotBegin(v) \/ CloneBegin(v)
                               \/ DestroySnapBegin(v) \/ DestroyHeadBegin(v)
            \/ LsRead \/ LsFindZvols \/ LsFindSnaps \/ LsEnd
            \/ Age \/ OpenDevice \/ CloseDevice \/ GuestWrite \/ Crash \/ UNCHANGED vars
  BY <1>11, <1>u DEF CreateBegin, SetReadonly, Commit, Abort, SnapshotBegin, CloneBegin,
       DestroySnapBegin, DestroyHeadBegin, LsRead, LsFindZvols, LsFindSnaps, LsEnd, Age,
       OpenDevice, CloseDevice, GuestWrite, Crash, vars, zfsVars
<1>12. QED
  BY <1>1, <1>2, <1>3, <1>4, <1>5, <1>6, <1>7, <1>8, <1>9, <1>10, <1>11
     DEF Next, Operation, Scan

\* A step that names nothing new: fewer zvols, the same or fewer snapshots.
LEMMA FreshKept ==
    ASSUME TypeOK, Fresh, next' \in Int, next <= next',
           \A z \in zvol' : z \in zvol \/ z < next',
           \A s \in Ids : holder'[s] # None => holder[s] # None \/ s < next',
           op'.pc # "snap"
    PROVE  Fresh'
<1>1. next \in Int /\ \A x \in Ids : x \in Int
  BY Ranges DEF TypeOK
<1>2. zvol \subseteq Ids
  BY DEF TypeOK
<1>3. \A z \in zvol' : z < next'
  BY <1>1, <1>2 DEF Fresh
<1>4. \A s \in Ids : holder'[s] # None => s < next'
  BY <1>1 DEF Fresh
<1>5. QED
  BY <1>3, <1>4 DEF Fresh

LEMMA FreshShrinks ==
    ASSUME TypeOK, Fresh, UNCHANGED <<op, next>>, zvol' \subseteq zvol,
           \A s \in Ids : holder'[s] # None => holder[s] # None
    PROVE  Fresh'
BY DEF Fresh

LEMMA FreshBegins ==
    ASSUME TypeOK, Fresh, UNCHANGED <<zvol, holder>>, next' \in Int, next <= next',
           op'.pc = "snap" => op'.snap = next /\ next < next'
    PROVE  Fresh'
<1>1. next \in Int /\ (\A x \in Ids : x \in Int) /\ zvol \subseteq Ids
  BY Ranges DEF TypeOK
<1>2. QED
  BY <1>1 DEF Fresh

LEMMA NextFresh ==
    ASSUME LineageInv, [Next]_vars
    PROVE  Fresh'
<1> USE DEF LineageInv
<1>t. next \in Int /\ next + 1 \in Int /\ next + 2 \in Int /\ (\A x \in Ids : x \in Int)
      /\ op \in OpType
  BY Ranges DEF TypeOK
<1>i. Idle.pc # "snap"
  BY DEF Idle
<1>1. CASE CreateBegin
  <2>1. op'.pc = "zvol"
    BY <1>1, BeginFields DEF CreateBegin
  <2>2. QED
    BY <1>1, <1>t, <2>1, FreshBegins DEF CreateBegin, zfsVars
<1>2. ASSUME NEW v \in vdis, SnapshotBegin(v) PROVE Fresh'
  <2>1. op'.snap = next
    BY <1>2, BeginFields DEF SnapshotBegin
  <2>2. QED
    BY <1>2, <1>t, <2>1, FreshBegins DEF SnapshotBegin, zfsVars
<1>3. ASSUME NEW v \in vdis, CloneBegin(v) PROVE Fresh'
  <2>1. /\ next' \in Int /\ next <= next' /\ UNCHANGED <<zvol, holder>>
        /\ op'.pc = "snap" => op'.snap = next /\ next < next'
    <3>1. CASE Begin("clone", "clone", v, next, v, holder[v]) /\ next' = next + 1
      BY <1>3, <1>t, <3>1, BeginFields DEF CloneBegin, zfsVars
    <3>2. CASE Begin("clone", "snap", v, next + 1, next, v) /\ next' = next + 2
      BY <1>3, <1>t, <3>2, BeginFields DEF CloneBegin, zfsVars
    <3>3. QED
      BY <1>3, <3>1, <3>2 DEF CloneBegin
  <2>2. QED
    BY <2>1, FreshBegins
<1>4. ASSUME NEW v \in vdis, DestroySnapBegin(v) \/ DestroyHeadBegin(v) PROVE Fresh'
  <2>1. op'.pc # "snap"
    BY <1>4, BeginFields DEF DestroySnapBegin, DestroyHeadBegin
  <2>2. QED
    BY <1>4, <1>t, <2>1, FreshBegins DEF DestroySnapBegin, DestroyHeadBegin, zfsVars
<1>5. CASE CreateZvol
  <2>1. op'.pc = "commit" /\ op.key \in op.new
    BY <1>5, <1>t, GotoType DEF CreateZvol, At, Pcs, OpShape
  <2>2. op.key < next
    BY <2>1 DEF IdOrder
  <2>3. QED
    BY <1>5, <1>t, <2>1, <2>2, FreshKept DEF CreateZvol
<1>6. CASE TakeSnapshot
  <2>1. op'.pc = "clone" /\ op.snap \in Ids /\ op.snap < next
    BY <1>6, <1>t, GotoType DEF TakeSnapshot, Pcs, OpShape, Fresh
  <2>2. \A s \in Ids : holder'[s] # None => holder[s] # None \/ s = op.snap
    BY <1>6, <2>1 DEF TakeSnapshot, TypeOK
  <2>3. QED
    BY <1>6, <1>t, <2>1, <2>2, FreshKept DEF TakeSnapshot
<1>7. CASE CloneSnapshot
  <2>1. op'.pc \in {"readonly", "commit"} /\ op.key \in op.new
    BY <1>7, <1>t, GotoType DEF CloneSnapshot, Pcs, OpShape
  <2>2. op.key < next
    BY <2>1 DEF IdOrder
  <2>3. QED
    BY <1>7, <1>t, <2>1, <2>2, FreshKept DEF CloneSnapshot, CloneTo
<1>8. CASE SetReadonly \/ DropClone \/ DropHead
  <2>1. op'.pc # "snap"
    BY <1>8, <1>t, GotoType DEF SetReadonly, DropClone, DropHead, Pcs
  <2>2. QED
    BY <1>8, <1>t, <2>1, FreshKept DEF SetReadonly, DropClone, DropHead, DestroyZvol, zfsVars
<1>9. CASE DropSnap
  <2>1. op'.pc # "snap" /\ op.snap \in Ids
    BY <1>9, <1>t, GotoType DEF DropSnap, Pcs, At, OpShape
  <2>2. UNCHANGED zvol /\ \A s \in Ids : holder'[s] # None => holder[s] # None
    BY <1>9, <2>1 DEF DropSnap, DestroySnap, TypeOK
  <2>3. QED
    BY <1>9, <1>t, <2>1, <2>2, FreshKept DEF DropSnap
<1>10. CASE PickClone
  <2>1. PICK s \in op.todo :
          \/ \E c \in Clones(s) : op' = Picked(s, c) /\ UNCHANGED <<zfsVars, next>>
          \/ /\ CloneTo(s, next)
             /\ op' = [Picked(s, next) EXCEPT !.new = @ \cup {next}]
             /\ next' = next + 1
    BY <1>10 DEF PickClone
  <2>2. op'.pc = "release"
    BY <1>10, <1>t, <2>1 DEF PickClone, At, Picked, OpType
  <2>3. QED
    BY <1>t, <2>1, <2>2, FreshKept DEF CloneTo, zfsVars
<1>11. CASE PromoteClone
  <2>1. PICK s \in Ids : /\ op.deps[s] # None /\ Promote(op.deps[s])
                         /\ op' = [op EXCEPT !.deps = [@ EXCEPT ![s] = None]]
    BY <1>11 DEF PromoteClone
  <2>2. op.deps[s] \in Ids
    BY <1>t, <2>1, OpFields, Ranges
  <2>3. op'.pc = "release"
    BY <1>11, <1>t, <2>1, UnpickedType DEF PromoteClone, At
  <2>4. UNCHANGED <<zvol, next>>
    BY <1>11, <2>1 DEF PromoteClone, Promote
  <2>5. \A x \in Ids : holder'[x] # None => holder[x] # None
    BY <2>1, <2>2, PromoteTree, Ranges
  <2>6. QED
    BY <1>t, <2>3, <2>4, <2>5, FreshKept
<1>12. CASE Commit \/ Abort \/ Crash
  BY <1>12, <1>t, <1>i, FreshBegins DEF Commit, Abort, Crash, zfsVars
<1>13. CASE LsReapZvol
  BY <1>13, FreshShrinks DEF LsReapZvol, DestroyZvol, zfsVars
<1>14. CASE LsReapSnap
  <2>1. PICK s \in ls.todo : DestroySnap(s) \/ UNCHANGED zfsVars
    BY <1>14 DEF LsReapSnap
  <2>2. s \in Ids
    BY DEF TypeOK, LsType
  <2>3. UNCHANGED <<op, next, zvol>>
    BY <1>14, <2>1 DEF LsReapSnap, DestroySnap, zfsVars
  <2>4. \A x \in Ids : holder'[x] # None => holder[x] # None
    BY <2>1, <2>2 DEF DestroySnap, TypeOK, zfsVars
  <2>5. QED
    BY <2>3, <2>4, FreshShrinks
<1>15. CASE LsRead \/ LsFindZvols \/ LsFindSnaps \/ LsEnd \/ Age \/ OpenDevice
            \/ CloseDevice \/ GuestWrite \/ UNCHANGED vars
  BY <1>15, FreshShrinks DEF LsRead, LsFindZvols, LsFindSnaps, LsEnd, Age, OpenDevice,
       CloseDevice, GuestWrite, vars, zfsVars
<1>16. QED
  BY <1>1, <1>2, <1>3, <1>4, <1>5, <1>6, <1>7, <1>8, <1>9, <1>10, <1>11, <1>12,
     <1>13, <1>14, <1>15 DEF Next, Operation, Scan

\* Steps of others while the destroy is collecting clones.
LEMMA CoveredShrinks ==
    ASSUME LineageInv, UNCHANGED <<op, next>>,
           \A s \in Ids : holder'[s] = holder[s] \/ (holder'[s] = None /\ Clones(s) = {}),
           \A z \in Ids : origin'[z] = origin[z] \/ origin'[z] = None
    PROVE  Covered'
<1> USE DEF LineageInv
<1>1. SUFFICES ASSUME At("destroyHead", "release")
               PROVE  /\ \A s \in Held(op.vdi)' : s \in op.todo \/ op.deps[s] # None
                      /\ \A s \in Ids : op.deps[s] # None =>
                            /\ op.deps[s] # op.vdi /\ op.deps[s] < next
                            /\ origin'[op.deps[s]] \in {s, None}
                            /\ origin'[op.deps[s]] = s => holder'[s] = op.vdi
  BY DEF Covered, At
<1>2. op.vdi \in Ids /\ op.deps \in [Ids -> IdsOrNone]
  BY <1>1, OpFields DEF At, OpShape, TypeOK
<1>3. \A s \in Held(op.vdi)' : s \in Held(op.vdi)
  BY <1>2, Ranges DEF Held
<1>4. ASSUME NEW s \in Ids, op.deps[s] # None
      PROVE  /\ op.deps[s] # op.vdi /\ op.deps[s] < next
             /\ origin'[op.deps[s]] \in {s, None}
             /\ origin'[op.deps[s]] = s => holder'[s] = op.vdi
  <2>1. op.deps[s] \in Ids
    BY <1>2, <1>4, Ranges
  <2>2. /\ op.deps[s] # op.vdi /\ op.deps[s] < next
        /\ origin[op.deps[s]] \in {s, None}
        /\ origin[op.deps[s]] = s => holder[s] = op.vdi
    BY <1>1, <1>4 DEF Covered
  <2>3. origin[op.deps[s]] = s => op.deps[s] \in Clones(s)
    BY <1>4, <2>1, Ranges DEF Tree, Clones
  <2>4. QED
    BY <1>4, <2>1, <2>2, <2>3, Ranges
<1>5. QED
  BY <1>1, <1>3, <1>4 DEF Covered

LEMMA PickCovered ==
    ASSUME LineageInv, PickClone
    PROVE  Covered'
<1> USE DEF LineageInv
<1>0. op \in OpType /\ op.deps \in [Ids -> IdsOrNone] /\ op.todo \subseteq Ids
  BY OpFields DEF TypeOK
<1>1. At("destroyHead", "release") /\ op.vdi \in Ids /\ op.vdi \in vdis
  BY DEF PickClone, At, OpShape, TypeOK
<1>2. PICK s \in op.todo :
        /\ holder[s] = op.vdi
        /\ \/ \E c \in Clones(s) : op' = Picked(s, c) /\ UNCHANGED <<zfsVars, next>>
           \/ /\ next \in Ids
              /\ CloneTo(s, next)
              /\ op' = [Picked(s, next) EXCEPT !.new = @ \cup {next}]
              /\ next' = next + 1
  BY DEF PickClone
<1>3. PICK c \in Ids :
        /\ c # op.vdi /\ c < next' /\ next <= next'
        /\ op'.todo = op.todo \ {s} /\ op'.deps = [op.deps EXCEPT ![s] = c]
        /\ op'.vdi = op.vdi
        /\ origin'[c] = s /\ (c = next \/ origin[c] = s)
        /\ \A z \in Ids : z < next /\ z # c => origin'[z] = origin[z]
        /\ UNCHANGED holder
  <2>n. next \in Int /\ \A x \in Ids : x \in Int
    BY Ranges DEF TypeOK
  <2>1. CASE \E c \in Clones(s) : op' = Picked(s, c) /\ UNCHANGED <<zfsVars, next>>
    <3>1. PICK c \in Clones(s) : op' = Picked(s, c)
      BY <2>1
    <3>2. c \in Ids /\ c \in zvol /\ origin[c] = s /\ s \in Ids
      BY <1>0, <3>1 DEF Clones, TypeOK
    <3>3. c # op.vdi
      BY <1>1, <1>2, <2>n, <3>2, Ranges DEF Tree
    <3>4. op'.todo = op.todo \ {s} /\ op'.deps = [op.deps EXCEPT ![s] = c] /\ op'.vdi = op.vdi
      BY <1>0, <3>1 DEF Picked, OpType
    <3>5. c < next
      BY <3>2 DEF Fresh
    <3>6. QED
      BY <2>1, <2>n, <3>2, <3>3, <3>4, <3>5 DEF zfsVars
  <2>2. CASE /\ next \in Ids
             /\ CloneTo(s, next)
             /\ op' = [Picked(s, next) EXCEPT !.new = @ \cup {next}]
             /\ next' = next + 1
    <3>1. next # op.vdi
      BY <1>1, <2>n DEF IdOrder
    <3>2. op'.todo = op.todo \ {s} /\ op'.deps = [op.deps EXCEPT ![s] = next] /\ op'.vdi = op.vdi
      BY <1>0, <2>2 DEF Picked, OpType
    <3>3. origin'[next] = s /\ (\A z \in Ids : z # next => origin'[z] = origin[z]) /\ UNCHANGED holder
      BY <2>2 DEF CloneTo, TypeOK
    <3>4. QED
      BY <2>2, <2>n, <3>1, <3>2, <3>3
  <2>3. QED
    BY <1>2, <2>1, <2>2
<1>4. \A t \in Ids : op'.deps[t] = IF t = s THEN c ELSE op.deps[t]
  BY <1>0, <1>3
<1>5. \A t \in Held(op.vdi)' : t \in op'.todo \/ op'.deps[t] # None
  <2>1. \A t \in Held(op.vdi)' : t \in Held(op.vdi)
    BY <1>3 DEF Held
  <2>2. QED
    BY <1>1, <1>3, <1>4, <2>1, Ranges DEF Covered, Held
<1>6. ASSUME NEW t \in Ids, op'.deps[t] # None
      PROVE  /\ op'.deps[t] # op.vdi /\ op'.deps[t] < next'
             /\ origin'[op'.deps[t]] \in {t, None}
             /\ origin'[op'.deps[t]] = t => holder'[t] = op.vdi
  <2>1. CASE t = s
    BY <1>2, <1>3, <1>4, <2>1
  <2>2. CASE t # s
    <3>1. op'.deps[t] = op.deps[t] /\ op.deps[t] \in Ids
      BY <1>0, <1>4, <1>6, <2>2, Ranges
    <3>2. /\ op.deps[t] # op.vdi /\ op.deps[t] < next
          /\ origin[op.deps[t]] \in {t, None}
          /\ origin[op.deps[t]] = t => holder[t] = op.vdi
      BY <1>1, <1>6, <3>1 DEF Covered
    <3>3. next \in Int /\ next' \in Int /\ \A x \in Ids : x \in Int
      BY <1>2, Ranges DEF TypeOK
    <3>4. op.deps[t] < next'
      BY <1>3, <3>1, <3>2, <3>3
    <3>5. CASE op.deps[t] # c
      BY <1>3, <3>1, <3>2, <3>4, <3>5
    <3>6. CASE op.deps[t] = c
      <4>1. s \in Ids /\ s # None /\ origin[c] # s
        BY <1>0, <2>2, <3>2, <3>6, Ranges
      <4>2. c # next
        BY <3>2, <3>3, <3>6
      <4>3. QED
        BY <1>3, <4>1, <4>2
    <3>7. QED
      BY <3>5, <3>6
  <2>3. QED
    BY <2>1, <2>2
<1>7. QED
  BY <1>1, <1>3, <1>5, <1>6 DEF Covered, Held

LEMMA PromoteCovered ==
    ASSUME LineageInv, PromoteClone
    PROVE  Covered'
<1> USE DEF LineageInv
<1>0. op \in OpType /\ op.deps \in [Ids -> IdsOrNone] /\ op.todo \subseteq Ids
  BY OpFields DEF TypeOK
<1>1. /\ At("destroyHead", "release") /\ op.vdi \in Ids /\ op.todo = {} /\ UNCHANGED next
  BY DEF PromoteClone, At, OpShape, TypeOK
<1>2. PICK s \in Ids :
         /\ op.deps[s] # None
         /\ \A t \in Ids : op.deps[t] # None => s <= t
         /\ Promote(op.deps[s])
         /\ op' = [op EXCEPT !.deps = [@ EXCEPT ![s] = None]]
  BY DEF PromoteClone
<1> DEFINE c == op.deps[s]
<1>3. c \in Ids /\ c # op.vdi
  BY <1>0, <1>1, <1>2, Ranges DEF Covered
<1>4. origin[c] = s /\ holder[s] = op.vdi
  BY <1>1, <1>2, Ranges DEF Covered, Promote
<1>5. /\ \A x \in Ids : holder'[x] = IF holder[x] = op.vdi /\ x <= s THEN c ELSE holder[x]
      /\ \A z \in Ids : z # op.vdi /\ z # c => origin'[z] = origin[z]
  BY <1>2, <1>3, <1>4, PromoteTree
<1>6. /\ op'.todo = op.todo /\ op'.vdi = op.vdi /\ op'.deps = [op.deps EXCEPT ![s] = None]
  BY <1>0, <1>2 DEF OpType
<1>7. \A t \in Ids : op'.deps[t] = IF t = s THEN None ELSE op.deps[t]
  BY <1>0, <1>6
<1>8. \A x \in Ids : x \in Int
  BY Ranges
<1>9. \A t \in Held(op.vdi)' : t \in op'.todo \/ op'.deps[t] # None
  <2>1. SUFFICES ASSUME NEW t \in Ids, holder'[t] = op.vdi PROVE op'.deps[t] # None
    BY <1>6 DEF Held
  <2>2. holder[t] = op.vdi /\ ~(t <= s)
    BY <1>3, <1>5, <2>1
  <2>3. op.deps[t] # None
    BY <1>1, <2>2 DEF Covered, Held
  <2>4. t # s
    BY <1>8, <2>2
  <2>5. QED
    BY <1>7, <2>3, <2>4
<1>10. ASSUME NEW t \in Ids, op'.deps[t] # None
      PROVE  /\ op'.deps[t] # op.vdi /\ op'.deps[t] < next'
             /\ origin'[op'.deps[t]] \in {t, None}
             /\ origin'[op'.deps[t]] = t => holder'[t] = op.vdi
  <2>1. t # s /\ op'.deps[t] = op.deps[t] /\ op.deps[t] \in Ids /\ s <= t
    BY <1>0, <1>2, <1>7, <1>10, Ranges
  <2>2. /\ op.deps[t] # op.vdi /\ op.deps[t] < next
        /\ origin[op.deps[t]] \in {t, None}
        /\ origin[op.deps[t]] = t => holder[t] = op.vdi
    BY <1>1, <1>10, <2>1 DEF Covered
  <2>3. op.deps[t] # c
    BY <1>4, <2>1, <2>2, Ranges
  <2>4. origin'[op.deps[t]] = origin[op.deps[t]]
    BY <1>5, <2>1, <2>2, <2>3
  <2>5. ~(t <= s)
    BY <1>8, <2>1
  <2>6. QED
    BY <1>1, <1>5, <2>1, <2>2, <2>4, <2>5
<1>11. QED
  BY <1>6, <1>9, <1>10 DEF Covered, Held

LEMMA NextCovered ==
    ASSUME LineageInv, [Next]_vars
    PROVE  Covered'
<1> USE DEF LineageInv
<1>0. op \in OpType /\ TypeOK
  BY DEF TypeOK
<1>e. op'.kind # "destroyHead" \/ op'.pc # "release" => Covered'
  BY DEF Covered, At
<1>1. CASE \/ CreateBegin
           \/ \E v \in vdis : SnapshotBegin(v) \/ CloneBegin(v) \/ DestroySnapBegin(v)
  BY <1>1, <1>e, BeginFields DEF CreateBegin, SnapshotBegin, CloneBegin, DestroySnapBegin
<1>2. ASSUME NEW v \in vdis, DestroyHeadBegin(v) PROVE Covered'
  <2>1. /\ op'.vdi = v /\ op'.deps = NoDeps /\ op'.todo = Held(v) /\ UNCHANGED holder
    BY <1>2 DEF DestroyHeadBegin, Begin, zfsVars
  <2>2. Held(op.vdi)' = op'.todo
    BY <2>1 DEF Held
  <2>3. \A s \in Ids : op'.deps[s] = None
    BY <2>1 DEF NoDeps
  <2>4. QED
    BY <2>2, <2>3 DEF Covered
<1>3. CASE \/ CreateZvol \/ TakeSnapshot \/ CloneSnapshot \/ SetReadonly
           \/ DropClone \/ DropSnap \/ DropHead
  BY <1>0, <1>3, <1>e, GotoType DEF CreateZvol, TakeSnapshot, CloneSnapshot, SetReadonly,
     DropClone, DropSnap, DropHead, Pcs
<1>4. CASE PickClone
  BY <1>4, PickCovered
<1>5. CASE PromoteClone
  BY <1>5, PromoteCovered
<1>6. CASE Commit \/ Abort \/ Crash
  BY <1>6, <1>e DEF Commit, Abort, Crash, Idle
<1>7. CASE LsReapZvol
  <2>1. PICK z \in ls.todo : DestroyZvol(z) \/ UNCHANGED zfsVars
    BY <1>7 DEF LsReapZvol
  <2>2. UNCHANGED holder /\ \A y \in Ids : origin'[y] = origin[y] \/ origin'[y] = None
    BY <1>0, <2>1 DEF DestroyZvol, TypeOK, zfsVars
  <2>3. QED
    BY <1>7, <2>2, CoveredShrinks DEF LsReapZvol
<1>8. CASE LsReapSnap
  <2>1. PICK s \in ls.todo : DestroySnap(s) \/ UNCHANGED zfsVars
    BY <1>8 DEF LsReapSnap
  <2>2. /\ UNCHANGED origin
        /\ \A x \in Ids : holder'[x] = holder[x] \/ (holder'[x] = None /\ Clones(x) = {})
    BY <1>0, <2>1 DEF DestroySnap, SnapDestroyable, TypeOK, zfsVars
  <2>3. QED
    BY <1>8, <2>2, CoveredShrinks DEF LsReapSnap
<1>9. CASE LsRead \/ LsFindZvols \/ LsFindSnaps \/ LsEnd \/ Age \/ OpenDevice
            \/ CloseDevice \/ GuestWrite \/ UNCHANGED vars
  BY <1>9, CoveredShrinks DEF LsRead, LsFindZvols, LsFindSnaps, LsEnd, Age, OpenDevice,
       CloseDevice, GuestWrite, vars, zfsVars
<1>10. QED
  BY <1>1, <1>2, <1>3, <1>4, <1>5, <1>6, <1>7, <1>8, <1>9 DEF Next, Operation, Scan

\* The clone tree and the cover of the snapshots hold in every reachable
\* state, with any grace period.
THEOREM LineageInvariant == Spec => []LineageInv
<1>1. Init => LineageInv
  BY InitTypeOK, InitOpShape, InitStoreInv
     DEF StoreInv, LineageInv, Init, Tree, Fresh, Covered, At, Idle, NoDeps
<1>2. LineageInv /\ [Next]_vars => LineageInv'
  BY NextTypeOK, NextOpShape, NextIdOrder, NextTree, NextFresh, NextCovered DEF LineageInv
<1>3. QED
  BY <1>1, <1>2, PTL DEF Spec

\* The promotions suffice, in any interleaving with SR.ls, whatever clones
\* the scan destroys meanwhile and whatever the grace period: when
\* Volume.destroy comes to its last command the zvol holds no snapshot.
THEOREM PromotionsAlwaysSuffice == Spec => []PromotionsSuffice
<1>1. LineageInv => PromotionsSuffice
  BY DEF LineageInv, Covered, PromotionsSuffice, Released, NoDeps, Held
<1>2. QED
  BY <1>1, LineageInvariant, PTL

\* An interrupted destroy leaves a row without a zvol and nothing under its
\* name: no open device, no snapshot.  With any grace period.
THEOREM InterruptedDestroysLeaveOnlyTheRow == Spec => []InterruptedDestroy
<1>1. LineageInv /\ GoneInv => InterruptedDestroy
  BY Ranges DEF LineageInv, GoneInv, TypeOK, Gone, Tree, InterruptedDestroy, Held
<1>2. QED
  BY <1>1, LineageInvariant, GoneInvariant, PTL

=============================================================================
