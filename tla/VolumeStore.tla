---------------------------- MODULE VolumeStore ----------------------------
(***************************************************************************)
(* One storage repository: the ZFS objects below its dataset (zvols and    *)
(* ZFS snapshots), the rows of its metabase, the Volume.* operation that   *)
(* holds the "gl" PollLock, and the SR.ls scan that destroys orphans       *)
(* WITHOUT taking that lock.                                               *)
(*                                                                         *)
(* Volume.create, snapshot, clone and destroy (src/volume/volume.py) each  *)
(* run inside one metabase transaction (db_context): rows become visible   *)
(* at its commit and are lost on an exception or a crash, while every ZFS  *)
(* command takes effect at once.  Hence one action per ZFS command, and    *)
(* one for the commit.                                                     *)
(*                                                                         *)
(* A uuid is a number drawn from the counter `next`: uuids are never       *)
(* reused, and their order is the order of creation, which is the order    *)
(* `zfs list -t snapshot` prints and `zfs promote` splits by.  A zvol is   *)
(* named by its VDI's uuid; snapshot s of zvol z is `z@s`.                 *)
(***************************************************************************)
EXTENDS Integers, FiniteSets

CONSTANTS MaxId,      \* bound: uuids a behaviour may draw
          MaxWrites,  \* bound: guest writes of a behaviour
          MaxOpen,    \* bound: devices open at the same time
          UseGrace    \* orphan_grace_period_seconds > 0

ASSUME ConstantsAssumption ==
    /\ MaxId \in Nat \ {0}
    /\ MaxWrites \in Nat /\ MaxOpen \in Nat
    /\ UseGrace \in BOOLEAN

Ids     == 1 .. MaxId
None    == 0
IdsOrNone == 0 .. MaxId
Version == 0 .. MaxWrites
Stamp   == 1 .. MaxId + 1

VARIABLES
    zvol,      \* zvols present below the SR's dataset
    holder,    \* holder[s]: the zvol z of snapshot z@s, None if there is none
    origin,    \* origin[z]: the snapshot zvol z is a clone of, None if none
    ro,        \* zvols with readonly=on
    data,      \* data[z]: what zvol z contains
    snapData,  \* snapData[s]: what snapshot s contains
    vdis,      \* VDIs with a committed metabase row
    snapRows,  \* those of them with volume.snap = 1
    parent,    \* parent[s]: VDI of the volume row that is s's parent_id
    next,      \* the next fresh uuid
    aged,      \* objects with a uuid below it are past the grace period
    open,      \* zvols whose block device a process holds open
    op,        \* the operation holding the "gl" PollLock
    ls,        \* the SR.ls in progress
    writes,    \* guest writes so far
    doomed     \* history: VDIs a destroy has begun to take apart

zfsVars  == <<zvol, holder, origin, ro, data, snapData>>
metaVars == <<vdis, snapRows, parent>>
vars == <<zfsVars, metaVars, next, aged, open, op, ls, writes, doomed>>

-----------------------------------------------------------------------------
(* The ZFS namespace and what its commands require.                        *)

Held(z)     == {s \in Ids : holder[s] = z}
Clones(s)   == {z \in zvol : origin[z] = s}
Snapshots   == {s \in Ids : holder[s] # None}

\* `zfs destroy` of a zvol fails while it holds snapshots or is in use, and
\* of a snapshot while a clone depends on it.
ZvolDestroyable(z) == z \in zvol /\ Held(z) = {} /\ z \notin open
SnapDestroyable(s) == holder[s] # None /\ Clones(s) = {}

DestroyZvol(z) ==
    /\ ZvolDestroyable(z)
    /\ zvol' = zvol \ {z}
    /\ ro' = ro \ {z}
    /\ origin' = [origin EXCEPT ![z] = None]
    /\ data' = [data EXCEPT ![z] = 0]
    /\ UNCHANGED <<holder, snapData>>

DestroySnap(s) ==
    /\ SnapDestroyable(s)
    /\ holder' = [holder EXCEPT ![s] = None]
    /\ snapData' = [snapData EXCEPT ![s] = 0]
    /\ UNCHANGED <<zvol, origin, ro, data>>

CloneToLive(s, c) ==  \* mutant of CloneTo
    /\ holder[s] # None
    /\ c \notin zvol
    /\ zvol' = zvol \cup {c}
    /\ origin' = [origin EXCEPT ![c] = s]
    /\ data' = [data EXCEPT ![c] = data[holder[s]]]
    /\ UNCHANGED <<holder, ro, snapData>>

\* `zfs clone holder[s]@s c`: the clone starts with the snapshot's blocks.
CloneTo(s, c) ==
    /\ holder[s] # None
    /\ c \notin zvol
    /\ zvol' = zvol \cup {c}
    /\ origin' = [origin EXCEPT ![c] = s]
    /\ data' = [data EXCEPT ![c] = snapData[s]]
    /\ UNCHANGED <<holder, ro, snapData>>

\* `zfs promote c`: c takes over its origin snapshot and the older ones from
\* the zvol p that held them, and p becomes a clone of c.
Promote(c) ==
    LET s == origin[c]
        p == holder[s]
    IN  /\ c \in zvol
        /\ s # None
        /\ p # None
        /\ holder' = [x \in Ids |-> IF holder[x] = p /\ x <= s
                                    THEN c ELSE holder[x]]
        /\ origin' = [origin EXCEPT ![c] = origin[p], ![p] = s]
        /\ UNCHANGED <<zvol, ro, data, snapData>>

-----------------------------------------------------------------------------
(* The operation under the lock: `vdi` is the VDI it was asked to work on, *)
(* `key` the uuid of the VDI it makes and `new` the rows its transaction   *)
(* inserts, `base`@`snap` the ZFS snapshot it takes or works on, `since`   *)
(* the first uuid it may draw, `todo` the snapshots the destroy of a zvol  *)
(* has still to find a clone for, deps[s] the clone it found for s.        *)

NoDeps == [s \in Ids |-> None]
Idle == [kind |-> "idle", pc |-> "idle", vdi |-> None, key |-> None,
         snap |-> None, base |-> None, since |-> 1, new |-> {}, todo |-> {},
         deps |-> NoDeps]

Kinds == {"idle", "create", "snapshot", "clone", "destroySnap", "destroyHead"}
Pcs == {"idle", "zvol", "snap", "clone", "readonly", "dropClone", "dropSnap",
        "release", "commit"}

NoScan == [pc |-> "idle", known |-> {}, todo |-> {}, at |-> NoDeps, since |-> 1]

Init ==
    /\ zvol = {} /\ ro = {} /\ vdis = {} /\ snapRows = {}
    /\ open = {} /\ doomed = {} /\ aged = 1
    /\ holder = NoDeps /\ origin = NoDeps /\ parent = NoDeps
    /\ data = [z \in Ids |-> 0] /\ snapData = [s \in Ids |-> 0]
    /\ next = 1 /\ writes = 0
    /\ op = Idle /\ ls = NoScan

Begin(kind, pc, vdi, key, snap, base) ==
    op' = [kind |-> kind, pc |-> pc, vdi |-> vdi, key |-> key, snap |-> snap,
           base |-> base, since |-> next, new |-> {key} \ {None},
           todo |-> IF kind = "destroyHead" THEN Held(vdi) ELSE {},
           deps |-> NoDeps]

At(kind, pc) == op.kind = kind /\ op.pc = pc
Goto(pc) == op' = [op EXCEPT !.pc = pc]

\* Volume.create: new rows pending, then the zvol, then the commit.
CreateBegin ==
    /\ op.kind = "idle" /\ next \in Ids
    /\ Begin("create", "zvol", None, next, None, None)
    /\ next' = next + 1
    /\ UNCHANGED <<zfsVars, metaVars, aged, open, ls, writes, doomed>>

CreateZvol ==
    /\ At("create", "zvol")
    /\ zvol' = zvol \cup {op.key}
    /\ Goto("commit")
    /\ UNCHANGED <<holder, origin, ro, data, snapData, metaVars, next, aged,
                   open, ls, writes, doomed>>

\* Volume.snapshot: a snapshot VDI is snapshotted through the VDI it was
\* taken from while that one exists, and through its own zvol afterwards.
SnapshotBegin(v) ==
    LET base == IF v \in snapRows /\ parent[v] \in vdis THEN parent[v] ELSE v
    IN  /\ op.kind = "idle" /\ v \in vdis /\ next \in Ids
        /\ Begin("snapshot", "snap", v, next, next, base)
        /\ next' = next + 1
        /\ UNCHANGED <<zfsVars, metaVars, aged, open, ls, writes, doomed>>

\* Volume.clone: of a snapshot VDI, clone its ZFS snapshot; of any other
\* VDI, take an implicit snapshot first (it gets no VDI row) and clone that.
CloneBegin(v) ==
    /\ op.kind = "idle" /\ v \in vdis
    /\ \/ /\ v \in snapRows /\ holder[v] # None /\ next \in Ids
          /\ Begin("clone", "clone", v, next, v, holder[v])
          /\ next' = next + 1
       \/ /\ v \notin snapRows /\ next + 1 \in Ids
          /\ Begin("clone", "snap", v, next + 1, next, v)
          /\ next' = next + 2
    /\ UNCHANGED <<zfsVars, metaVars, aged, open, ls, writes, doomed>>

TakeSnapshot ==
    /\ op.kind \in {"snapshot", "clone"} /\ op.pc = "snap"
    /\ op.base \in zvol
    /\ holder' = [holder EXCEPT ![op.snap] = op.base]
    /\ snapData' = [snapData EXCEPT ![op.snap] = data[op.base]]
    /\ Goto("clone")
    /\ UNCHANGED <<zvol, origin, ro, data, metaVars, next, aged, open, ls,
                   writes, doomed>>

\* The snapshot is addressed by the name it had: `base@snap`.
CloneSnapshot ==
    /\ op.kind \in {"snapshot", "clone"} /\ op.pc = "clone"
    /\ holder[op.snap] = op.base
    /\ CloneTo(op.snap, op.key)
    /\ Goto(IF op.kind = "snapshot" THEN "readonly" ELSE "commit")
    /\ UNCHANGED <<metaVars, next, aged, open, ls, writes, doomed>>

SetReadonlyForgotten ==  \* mutant of SetReadonly
    /\ At("snapshot", "readonly")
    /\ op.key \in zvol
    /\ Goto("commit")
    /\ UNCHANGED <<zfsVars, metaVars, next, aged, open, ls, writes, doomed>>

SetReadonly ==
    /\ At("snapshot", "readonly")
    /\ op.key \in zvol
    /\ ro' = ro \cup {op.key}
    /\ Goto("commit")
    /\ UNCHANGED <<zvol, holder, origin, data, snapData, metaVars, next, aged,
                   open, ls, writes, doomed>>

\* Volume.destroy of a snapshot VDI: refused (errors 110 and 111) when the
\* ZFS snapshot is gone or has a clone other than the VDI's own zvol.
ExternalDeps(s) == Clones(s) \ {s}

DestroySnapBegin(s) ==
    /\ op.kind = "idle" /\ s \in snapRows
    /\ holder[s] # None
    /\ ExternalDeps(s) = {}
    /\ Begin("destroySnap", "dropClone", s, None, s, holder[s])
    /\ UNCHANGED <<zfsVars, metaVars, next, aged, open, ls, writes, doomed>>

DropCloneUnchecked ==  \* mutant of DropClone
    /\ At("destroySnap", "dropClone")
    /\ Goto("dropSnap")
    /\ \/ /\ DestroyZvol(op.vdi)
          /\ doomed' = doomed \cup {op.vdi}
       \/ /\ ~ZvolDestroyable(op.vdi)
          /\ UNCHANGED <<zfsVars, doomed>>
    /\ UNCHANGED <<metaVars, next, aged, open, ls, writes>>

DropClone ==
    /\ At("destroySnap", "dropClone")
    /\ Goto("dropSnap")
    /\ \/ /\ DestroyZvol(op.vdi)
          /\ doomed' = doomed \cup {op.vdi}
       \/ /\ op.vdi \notin zvol
          /\ UNCHANGED <<zfsVars, doomed>>
    /\ UNCHANGED <<metaVars, next, aged, open, ls, writes>>

DropSnapForgotten ==  \* mutant of DropSnap
    /\ At("destroySnap", "dropSnap")
    /\ Goto("commit")
    /\ UNCHANGED <<zfsVars, metaVars, next, aged, open, ls, writes, doomed>>

DropSnap ==
    /\ At("destroySnap", "dropSnap")
    /\ holder[op.snap] = op.base
    /\ DestroySnap(op.snap)
    /\ doomed' = doomed \cup {op.vdi}
    /\ Goto("commit")
    /\ UNCHANGED <<metaVars, next, aged, open, ls, writes>>

\* Volume.destroy of any other VDI: find or make a clone of each of its
\* snapshots, promote them all, and only then destroy the zvol.
DestroyHeadBegin(v) ==
    /\ op.kind = "idle" /\ v \in vdis \ snapRows
    /\ v \in zvol
    /\ Begin("destroyHead", "release", v, None, None, None)
    /\ UNCHANGED <<zfsVars, metaVars, next, aged, open, ls, writes, doomed>>

PickedOldestOnly(s, c) ==  \* mutant of Picked
    [op EXCEPT !.todo = {}, !.deps = [@ EXCEPT ![s] = c]]
Picked(s, c) ==
    [op EXCEPT !.todo = @ \ {s}, !.deps = [@ EXCEPT ![s] = c]]

PickClone ==
    /\ At("destroyHead", "release")
    /\ \E s \in op.todo :
         /\ \A t \in op.todo : s <= t
         /\ holder[s] = op.vdi
         /\ \/ /\ \E c \in Clones(s) : op' = Picked(s, c)
               /\ UNCHANGED <<zfsVars, next>>
            \/ /\ Clones(s) = {} /\ next \in Ids
               /\ CloneTo(s, next)
               /\ op' = [Picked(s, next) EXCEPT !.new = @ \cup {next}]
               /\ next' = next + 1
    /\ UNCHANGED <<metaVars, aged, open, ls, writes, doomed>>

PromoteClone ==
    /\ At("destroyHead", "release") /\ op.todo = {}
    /\ \E s \in Ids :
         /\ op.deps[s] # None
         /\ \A t \in Ids : op.deps[t] # None => s <= t
         /\ Promote(op.deps[s])
         /\ op' = [op EXCEPT !.deps = [@ EXCEPT ![s] = None]]
    /\ UNCHANGED <<metaVars, next, aged, open, ls, writes, doomed>>

Released == At("destroyHead", "release") /\ op.todo = {} /\ op.deps = NoDeps

DropHead ==
    /\ Released
    /\ DestroyZvol(op.vdi)
    /\ doomed' = doomed \cup {op.vdi}
    /\ Goto("commit")
    /\ UNCHANGED <<metaVars, next, aged, open, ls, writes>>

\* The transaction commits when db_context is left normally.
Removed == IF op.kind \in {"destroySnap", "destroyHead"} THEN {op.vdi} ELSE {}
NewSnapOfClone == {op.snap} \ {None}  \* mutant of NewSnap
NewSnap == IF op.kind = "snapshot" THEN op.new ELSE {}
NewParent == IF op.base \in snapRows THEN parent[op.base] ELSE op.base

Commit ==
    /\ op.pc = "commit"
    /\ vdis' = (vdis \ Removed) \cup op.new
    /\ snapRows' = (snapRows \ Removed) \cup NewSnap
    /\ parent' = [x \in Ids |-> IF x \in NewSnap THEN NewParent
                               ELSE IF x \in Removed THEN None ELSE parent[x]]
    /\ doomed' = doomed \ Removed
    /\ op' = Idle
    /\ UNCHANGED <<zfsVars, next, aged, open, ls, writes>>

\* Any ZFS command may fail (it must when its guard above is false), and
\* the exception rolls the rows back but not the ZFS commands before it.
Abort ==
    /\ op.kind # "idle"
    /\ op' = Idle
    /\ UNCHANGED <<zfsVars, metaVars, next, aged, open, ls, writes, doomed>>

-----------------------------------------------------------------------------
(* SR.ls with auto_cleanup_orphans: read the metabase, list the zvols and  *)
(* destroy the orphans among them, then the same for ZFS snapshots.        *)
(* at[s] is the zvol under whose name the scan found snapshot s.           *)

Floor == IF op.kind = "idle" THEN next ELSE op.since

LsRead ==
    /\ ls.pc = "idle"
    /\ ls' = [pc |-> "read", known |-> vdis, todo |-> {}, at |-> NoDeps,
              since |-> Floor]
    /\ UNCHANGED <<zfsVars, metaVars, next, aged, open, op, writes, doomed>>

\* zvol_find_orphans: no row, and nobody holds the device open.
LsFindAllZvols ==  \* mutant of LsFindZvols
    /\ ls.pc = "read"
    /\ ls' = [ls EXCEPT !.pc = "zvols", !.todo = zvol \ open]
    /\ UNCHANGED <<zfsVars, metaVars, next, aged, open, op, writes, doomed>>

LsFindZvols ==
    /\ ls.pc = "read"
    /\ ls' = [ls EXCEPT !.pc = "zvols", !.todo = (zvol \ ls.known) \ open]
    /\ UNCHANGED <<zfsVars, metaVars, next, aged, open, op, writes, doomed>>

NoGrace(x) == TRUE  \* mutant of PastGrace
PastGrace(x) == UseGrace => x < aged

\* zvol_destroy_orphans: a failing destroy is logged and left to the next scan.
LsReapZvol ==
    /\ ls.pc = "zvols"
    /\ \E z \in ls.todo :
         /\ ls' = [ls EXCEPT !.todo = @ \ {z}]
         /\ \/ PastGrace(z) /\ DestroyZvol(z)
            \/ ~(PastGrace(z) /\ ZvolDestroyable(z)) /\ UNCHANGED zfsVars
    /\ UNCHANGED <<metaVars, next, aged, open, op, writes, doomed>>

\* zsnap_find_orphans: no row, and nobody holds the parent's device open.
LsFindSnaps ==
    LET found == {s \in Snapshots \ ls.known : holder[s] \notin open}
    IN  /\ ls.pc = "zvols" /\ ls.todo = {}
        /\ ls' = [ls EXCEPT !.pc = "snaps", !.todo = found,
                            !.at = [s \in Ids |-> IF s \in found
                                                  THEN holder[s] ELSE None]]
        /\ UNCHANGED <<zfsVars, metaVars, next, aged, open, op, writes, doomed>>

ReapableYoung(s) == holder[s] = ls.at[s] /\ SnapDestroyable(s)  \* mutant of Reapable
ReapableOfVdi(s) ==  \* mutant of Reapable
    PastGrace(s) /\ holder[s] = ls.at[s] /\ SnapDestroyable(s) /\ holder[s] \in ls.known
Reapable(s) == PastGrace(s) /\ holder[s] = ls.at[s] /\ SnapDestroyable(s)

LsReapSnap ==
    /\ ls.pc = "snaps"
    /\ \E s \in ls.todo :
         /\ ls' = [ls EXCEPT !.todo = @ \ {s}]
         /\ \/ Reapable(s) /\ DestroySnap(s)
            \/ ~Reapable(s) /\ UNCHANGED zfsVars
    /\ UNCHANGED <<metaVars, next, aged, open, op, writes, doomed>>

LsEnd ==
    /\ ls.pc = "snaps" /\ ls.todo = {}
    /\ ls' = NoScan
    /\ UNCHANGED <<zfsVars, metaVars, next, aged, open, op, writes, doomed>>

\* Time: what was created first outlives the grace period first.  The period
\* (3600 s unless configured) is assumed longer than an operation and a scan
\* together, so nothing created since either began does.
Age ==
    /\ aged < Floor
    /\ ls.pc # "idle" => aged < ls.since
    /\ aged' = aged + 1
    /\ UNCHANGED <<zfsVars, metaVars, next, open, op, ls, writes, doomed>>

-----------------------------------------------------------------------------
(* The users of the devices, and the crash of the host.                    *)

OpenDevice ==
    /\ Cardinality(open) < MaxOpen
    /\ \E v \in (vdis \cap zvol) \ open : open' = open \cup {v}
    /\ UNCHANGED <<zfsVars, metaVars, next, aged, op, ls, writes, doomed>>

CloseDevice ==
    /\ \E v \in open : open' = open \ {v}
    /\ UNCHANGED <<zfsVars, metaVars, next, aged, op, ls, writes, doomed>>

GuestWrite ==
    /\ writes < MaxWrites
    /\ writes' = writes + 1
    /\ \E v \in open \ ro : data' = [data EXCEPT ![v] = writes']
    /\ UNCHANGED <<zvol, holder, origin, ro, snapData, metaVars, next, aged,
                   open, op, ls, doomed>>

Crash ==
    /\ op' = Idle /\ ls' = NoScan /\ open' = {}
    /\ UNCHANGED <<zfsVars, metaVars, next, aged, writes, doomed>>

Operation ==
    \/ CreateBegin \/ CreateZvol
    \/ \E v \in vdis : SnapshotBegin(v) \/ CloneBegin(v)
                       \/ DestroySnapBegin(v) \/ DestroyHeadBegin(v)
    \/ TakeSnapshot \/ CloneSnapshot \/ SetReadonly
    \/ DropClone \/ DropSnap
    \/ PickClone \/ PromoteClone \/ DropHead
    \/ Commit \/ Abort

Scan == LsRead \/ LsFindZvols \/ LsReapZvol \/ LsFindSnaps \/ LsReapSnap \/ LsEnd

Next == Operation \/ Scan \/ Age \/ OpenDevice \/ CloseDevice \/ GuestWrite \/ Crash

Spec == Init /\ [][Next]_vars

\* xapi scans an attached SR again and again, and time passes.
FairSpec == Spec /\ WF_vars(Scan) /\ WF_vars(Age)

-----------------------------------------------------------------------------
(* Properties.                                                             *)

OpType == [kind : Kinds, pc : Pcs, vdi : IdsOrNone, key : IdsOrNone,
           snap : IdsOrNone, base : IdsOrNone, since : Stamp,
           new : SUBSET Ids, todo : SUBSET Ids, deps : [Ids -> IdsOrNone]]
LsType == [pc : {"idle", "read", "zvols", "snaps"}, known : SUBSET Ids,
           todo : SUBSET Ids, at : [Ids -> IdsOrNone], since : Stamp]

\* Every variable keeps its type.
TypeOK ==
    /\ zvol \subseteq Ids /\ ro \subseteq Ids
    /\ holder \in [Ids -> IdsOrNone] /\ origin \in [Ids -> IdsOrNone]
    /\ data \in [Ids -> Version] /\ snapData \in [Ids -> Version]
    /\ vdis \subseteq Ids /\ snapRows \subseteq vdis
    /\ parent \in [Ids -> IdsOrNone]
    /\ next \in Stamp /\ aged \in Stamp
    /\ open \subseteq Ids /\ doomed \subseteq Ids
    /\ op \in OpType /\ ls \in LsType /\ writes \in Version

\* A VDI whose destroy has not begun to take it apart has its zvol, and a
\* snapshot VDI its ZFS snapshot too: neither the unlocked orphan scan with
\* its stale list of rows, nor the destroy of a relative, nor a rollback or
\* a crash ever leaves a row without them (volume.py, sr.py ls).
RowsBacked ==
    \A v \in vdis \ doomed :
        /\ v \in zvol
        /\ v \in snapRows => holder[v] # None

\* When Volume.destroy comes to destroy the zvol of a VDI, the promotions
\* have moved every snapshot off it, also those of snapshots the scan
\* destroys meanwhile (volume.py destroy, the loop over vol_dependencies).
PromotionsSuffice == Released => Held(op.vdi) = {}

\* The device of a snapshot VDI shows what its ZFS snapshot holds, and goes
\* on doing so whatever is written, promoted or destroyed around it
\* (docs/snapshots-and-clones.md: "Snapshots are read-only").
SnapshotsImmutable ==
    \A s \in snapRows \ doomed : s \in ro /\ data[s] = snapData[s]

\* The VDI that Volume.snapshot or Volume.clone is about to commit shows one
\* moment of its source, whatever a guest wrote to the source between the ZFS
\* commands: the moment of the ZFS snapshot, and for the clone of a snapshot
\* VDI what that VDI shows itself (volume.py snapshot and clone).
CopiesFaithful ==
    op.kind \in {"snapshot", "clone"} /\ op.pc \in {"readonly", "commit"} =>
        /\ holder[op.snap] # None /\ data[op.key] = snapData[op.snap]
        /\ op.kind = "clone" /\ op.vdi \in snapRows \ doomed =>
              data[op.key] = data[op.vdi]

\* A destroy that failed or crashed before its commit left the row of a VDI
\* without a zvol, never with half a zvol: nobody has that device open, no
\* snapshot is listed under it, and the row still tells of it (volume.py
\* destroy, the commit after the ZFS commands).
InterruptedDestroy ==
    \A v \in doomed : v \in vdis /\ v \notin zvol \cup open /\ Held(v) = {}

\* Once the row of a VDI is gone so are its zvol and its ZFS snapshot: a
\* destroy that reports success leaves nothing behind under that uuid.
DestroyComplete ==
    [][\A v \in vdis \ vdis' :
          v \notin zvol' /\ (v \in snapRows => holder'[v] = None)]_vars

\* SR.ls never destroys a zvol or a ZFS snapshot that the operation in
\* progress has made and is about to commit a row for or to clone from
\* (zfs_operations.py zvol_find_orphans: "distinguish true orphans from
\* in-flight operations").
ScanSparesInFlight ==
    [][ls # ls' /\ ls'.pc # "idle" =>
          \A x \in op.since .. MaxId :
             op.kind # "idle" => /\ x \in zvol => x \in zvol'
                                 /\ holder[x] # None => holder'[x] # None]_vars

\* When operations, opened devices and crashes come to an end, the scans
\* destroy every orphan that nothing depends on, chains of them included:
\* an orphan zvol, then the implicit snapshot it was a clone of, and so on
\* (zvol_destroy_orphans: "the next SR.ls will retry").
ZvolGarbage == {z \in zvol \ vdis : Held(z) = {}}
SnapGarbage == {s \in Snapshots \ vdis : Clones(s) = {}}
QuietStep ==
    /\ op'.kind = "idle" /\ open' = {}
    /\ ls.pc # "idle" /\ ls'.pc = "idle" => ls.pc = "snaps" /\ ls.todo = {}
OrphansReclaimed ==
    <>[][QuietStep]_vars => <>[](ZvolGarbage \cup SnapGarbage = {})

\* volume.py:247 "Safe to destroy: drop our materialised clone first": with
\* the dependency check passed, the clone can be destroyed.
SafeToDestroy ==
    At("destroySnap", "dropClone") /\ op.vdi \in zvol => Held(op.vdi) = {}

\* What clients are promised (VdiCatalog), with a VDI in the catalog from
\* its commit until a destroy first takes something of it away.
Device(v) == IF v \in zvol THEN data[v] ELSE MaxWrites + 1
Listed == vdis \ doomed
Catalog == INSTANCE VdiCatalog WITH
    Vdis <- Ids, Contents <- Version,
    listed <- Listed, snaps <- snapRows \ doomed,
    shows <- [v \in Listed |-> Device(v)]
ImplementsCatalog == Catalog!Spec

=============================================================================
