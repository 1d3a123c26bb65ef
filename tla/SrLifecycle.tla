---------------------------- MODULE SrLifecycle ----------------------------
(***************************************************************************)
(* The life of zfs-live SRs on one pool: SR.create (new and adopt), attach, *)
(* detach, destroy and probe, one ZFS command or file write to a step.     *)
(*                                                                         *)
(* A dataset is the sequence of the names on its path below the pool, whose *)
(* root is <<>>.  An SR lives in a dataset named by its uuid, or in one it *)
(* adopted.  xapi runs one SR call at a time on the host and names every   *)
(* SR.create with a fresh uuid; a call that fails, or dies, undoes nothing. *)
(***************************************************************************)
EXTENDS Naturals, FiniteSets, SequencesExt

CONSTANTS
    Uuids,        \* SR uuids, numbers: names are ordered
    Places,       \* paths SR.create and SR.probe are given
    Adoptable,    \* datasets there from the start that may be adopted
    OldFs, OldVol, OldSnap,    \* the pool at the start
    Contents,     \* what volume operations may make of an SR: for the names of
                  \* zvols, the zvol each was cloned from (0 if from none)
    MaxTries,     \* bound: attempts at a busy dataset (10 in the code)
    MaxFailures   \* bound: calls that fail or die, and reboots

\* The paths are sequences of names, and no uuid is a name already in use.
ASSUME SrAssumption ==
    /\ Uuids \subseteq Nat \ {0} /\ MaxTries \in Nat \ {0} /\ MaxFailures \in Nat
    /\ Places \cup Adoptable \subseteq Seq(Nat)
    /\ \A p \in Adoptable : \A i \in DOMAIN p : p[i] \notin Uuids
    /\ \A c \in Contents : /\ DOMAIN c \subseteq Nat \ {0} /\ IsFiniteSet(DOMAIN c)
                           /\ \A n \in DOMAIN c : c[n] \in {0} \cup DOMAIN c

VARIABLES
    fs,        \* the filesystems: path to local marker, mountpoint, files
    vol,       \* the zvols: path to the zvol whose snapshot it is a clone of
    snap,      \* zvols that have a snapshot
    srs,       \* the SRs xapi knows, with the dataset of their device-config
    attached,  \* the attached ones, with the mountpoint xapi was told
    op,        \* the SR call in progress
    lzc,       \* libzfs_core can be loaded
    used,      \* history: uuids handed to SR.create
    unlisted,  \* history: adopting SRs whose zvols could not be listed
    doomed,    \* history: SRs whose destroy has begun
    failures   \* history: calls that failed or died, and reboots

pool == <<fs, vol, snap>>
xapi == <<srs, attached, used>>
vars == <<pool, xapi, op, lzc, unlisted, doomed, failures>>

Root == <<>>
NoSr == 0
NoOrigin == Root    \* the pool root is no zvol
NoCall == [kind |-> "none", pc |-> "idle", sr |-> NoSr, ds |-> Root,
           todo |-> <<>>, failed |-> FALSE, tries |-> 0]

\* A dataset without any SR's data.
Bare == [marker |-> NoSr, mnt |-> NoSr, mounted |-> FALSE,
         db |-> FALSE, meta |-> {}, rows |-> {}]

Init ==
    /\ fs = OldFs /\ vol = OldVol /\ snap = OldSnap
    /\ srs = << >> /\ attached = << >> /\ used = {}
    /\ op = NoCall /\ lzc \in BOOLEAN
    /\ unlisted = {} /\ doomed = {} /\ failures = 0

-----------------------------------------------------------------------------
(* The dataset tree.                                                       *)

Above(p) == {SubSeq(p, 1, i) : i \in 0..(Len(p) - 1)}
Below(p) == {q \in DOMAIN fs \cup DOMAIN vol : p \in Above(q)}
Related(p, q) == p = q \/ p \in Above(q) \/ q \in Above(p)

\* A user property a dataset does not set comes from the nearest one above.
Marker(p) ==
    LET holders == {q \in {p} \cup Above(p) : q \in DOMAIN fs /\ fs[q].marker # NoSr} IN
    IF holders = {} THEN NoSr
    ELSE fs[CHOOSE q \in holders : \A r \in holders : Len(r) <= Len(q)].marker
IsSr(p) == p \in DOMAIN fs /\ Marker(p) # NoSr

\* The pool root is not among them.
Parents(p) == Above(p) \ {Root}
ChildSrs(p) == {q \in Below(p) : IsSr(q)}
Zvols(p) == {v \in DOMAIN vol : v # Root /\ Front(v) = p}

\* A node is a dataset <<path, 0>> or its snapshot <<path, 1>>.
Nodes(p) == {<<q, 0>> : q \in Below(p) \cup {p}} \cup {<<v, 1>> : v \in snap \cap Below(p)}
Exists(n) == IF n[2] = 1 THEN n[1] \in snap ELSE n[1] \in DOMAIN fs \cup DOMAIN vol
\* What must be gone before n can be.
Dependents(n) ==
    IF n[2] = 1 THEN {v \in DOMAIN vol : vol[v] = n[1]}
    ELSE Below(n[1]) \cup (snap \cap {n[1]})

\* The pool before zfs-live: a tree with clones beside their origins, and SRs of the
\* older driver, none inside another.
ASSUME PoolAssumption ==
    /\ IsFiniteSet(DOMAIN OldFs) /\ IsFiniteSet(DOMAIN OldVol)
    /\ Root \in DOMAIN OldFs /\ DOMAIN OldFs \cup DOMAIN OldVol \subseteq Seq(Nat)
    /\ \A p \in DOMAIN OldFs \cup DOMAIN OldVol : Above(p) \subseteq DOMAIN OldFs
    /\ DOMAIN OldFs \cap DOMAIN OldVol = {} /\ OldSnap \subseteq DOMAIN OldVol
    /\ \A v \in DOMAIN OldVol :
         OldVol[v] = NoOrigin \/ (OldVol[v] \in OldSnap /\ Front(OldVol[v]) = Front(v))
    /\ \A p \in DOMAIN OldFs :
         /\ OldFs[p] = [Bare EXCEPT !.marker = OldFs[p].marker, !.mounted = OldFs[p].mounted]
         /\ OldFs[p].marker \in Nat \ Uuids /\ OldFs[p].mounted \in BOOLEAN
         /\ p # Root /\ OldFs[p].marker # NoSr =>
              \A q \in DOMAIN OldFs : p \in Above(q) => OldFs[q].marker = NoSr

NameBefore(p, q) ==
    \/ p \in Above(q)
    \/ \E i \in DOMAIN p \cap DOMAIN q : /\ SubSeq(p, 1, i - 1) = SubSeq(q, 1, i - 1)
                                       /\ p[i] < q[i]
\* zfs list: by name, a dataset's snapshots right after it.
ListedBefore(m, n) == NameBefore(m[1], n[1]) \/ (m[1] = n[1] /\ m[2] < n[2])
Listings(N) ==
    {s \in [1..Cardinality(N) -> N] :
        /\ \A n \in N : \E i \in DOMAIN s : s[i] = n
        /\ \A i, j \in DOMAIN s : i < j => ListedBefore(s[i], s[j])}

Vanish(n) ==
    /\ snap' = IF n[2] = 1 THEN snap \ {n[1]} ELSE snap
    /\ fs'  = IF n[2] = 1 THEN fs  ELSE [q \in DOMAIN fs \ {n[1]} |-> fs[q]]
    /\ vol' = IF n[2] = 1 THEN vol ELSE [q \in DOMAIN vol \ {n[1]} |-> vol[q]]

With(p, f) == [q \in DOMAIN fs \cup {p} |-> IF q = p THEN f ELSE fs[q]]
Without(f, x) == [y \in DOMAIN f \ {x} |-> f[y]]

At(kind, pc) == op.kind = kind /\ op.pc = pc
Goto(pc) == op' = [op EXCEPT !.pc = pc]
History == UNCHANGED <<lzc, unlisted, doomed, failures>>

-----------------------------------------------------------------------------
(* SR.create.                                                              *)

NestedNever(ds) == ChildSrs(ds) # {}    \* mutant of Nested
Nested(ds) == \/ \E q \in Parents(ds) : q \in DOMAIN fs /\ IsSr(q)
              \/ ChildSrs(ds) # {}
Taken == DOMAIN fs \cup DOMAIN vol
Accepts(p, u) == LET ds == Append(p, u) IN ds \notin Taken /\ ~Nested(ds)

Create(u, p) ==
    /\ op = NoCall /\ u \notin used /\ Accepts(p, u)
    /\ used' = used \cup {u}
    /\ op' = [NoCall EXCEPT !.kind = "create", !.pc = "make", !.sr = u, !.ds = Append(p, u)]
    /\ UNCHANGED <<pool, srs, attached>> /\ History

\* The code asks only that the dataset exists.  That it is not, and does not
\* hold, a live SR, and that it is the bare pool or one found by its marker, is
\* the operator's care (docs/installation.md:90-111).
Adopt(u, p) ==
    /\ op = NoCall /\ u \notin used
    /\ p \in DOMAIN fs /\ (p = Root \/ fs[p].marker # NoSr)
    /\ \A s \in DOMAIN srs : ~Related(p, srs[s])
    /\ used' = used \cup {u}
    /\ op' = [NoCall EXCEPT !.kind = "adopt", !.pc = "mark", !.sr = u, !.ds = p]
    /\ UNCHANGED <<pool, srs, attached>> /\ History

\* dataset_create: missing parents first, with mountpoint=none; the dataset
\* itself may be mounted where its inherited mountpoint is.  No dataset can be
\* made below a zvol.
Make ==
    /\ At("create", "make") /\ Parents(op.ds) \cap DOMAIN vol = {}
    /\ LET missing == {q \in Parents(op.ds) : q \notin DOMAIN fs} IN
       IF missing # {}
       THEN /\ \E q \in missing : /\ \A r \in missing : Len(q) <= Len(r)
                                  /\ fs' = With(q, Bare)
            /\ UNCHANGED op
       ELSE /\ \E m \in BOOLEAN : fs' = With(op.ds, [Bare EXCEPT !.mounted = m])
            /\ Goto("mark")
    /\ UNCHANGED <<vol, snap, xapi>> /\ History

Step(from, to, f) ==
    /\ op.kind \in {"create", "adopt"} /\ op.pc = from
    /\ fs' = [fs EXCEPT ![op.ds] = f]
    /\ Goto(to)
    /\ UNCHANGED <<vol, snap, xapi>> /\ History

This == fs[op.ds]
MarkSkipped ==    \* mutant of Mark
    op.pc = "mark" /\ Goto("point") /\ UNCHANGED <<pool, xapi>> /\ History
Mark == Step("mark", "point", [This EXCEPT !.marker = op.sr])
\* Setting the mountpoint also mounts a dataset that had none.
SetMountpoint ==
    /\ op.pc = "point"
    /\ \E m \in {This.mounted, TRUE} :
         Step("point", "mount", [This EXCEPT !.mnt = op.sr, !.mounted = m])
Mount == Step("mount", "database", [This EXCEPT !.mounted = TRUE])
CreateDatabase == Step("database", "meta", [This EXCEPT !.db = TRUE])

MetaPathParent == IF op.ds = Root THEN Root ELSE Front(op.ds)    \* mutant of MetaPath
MetaPath == op.ds
UpdateMeta == Step("meta", IF op.kind = "adopt" THEN "list" ELSE "return",
                   [This EXCEPT !.meta = {MetaPath}])

\* dataset_list_zvols: a failing command lists nothing.
ListZvols ==
    /\ At("adopt", "list")
    /\ \/ /\ \E s \in Listings({<<v, 0>> : v \in Zvols(op.ds)}) :
               op' = [op EXCEPT !.pc = "register", !.todo = s]
          /\ UNCHANGED <<unlisted, failures>>
       \/ /\ failures < MaxFailures /\ failures' = failures + 1
          /\ Goto("register") /\ unlisted' = unlisted \cup {op.sr}
    /\ UNCHANGED <<pool, xapi, lzc, doomed>>

\* One transaction to a zvol; one that fails is noted and the next is tried.
Register ==
    /\ At("adopt", "register") /\ op.todo # <<>>
    /\ \/ /\ fs' = [fs EXCEPT ![op.ds].rows = @ \cup {Last(Head(op.todo)[1])}]
          /\ op' = [op EXCEPT !.todo = Tail(@)] /\ UNCHANGED failures
       \/ /\ failures < MaxFailures /\ failures' = failures + 1
          /\ op' = [op EXCEPT !.todo = Tail(@), !.failed = TRUE] /\ UNCHANGED fs
    /\ UNCHANGED <<vol, snap, xapi, lzc, unlisted, doomed>>

AdoptOutcomeLax == Goto("return")    \* mutant of AdoptOutcome
AdoptOutcome == IF op.failed THEN op' = NoCall ELSE Goto("return")
AdoptEnd ==
    /\ At("adopt", "register") /\ op.todo = <<>>
    /\ AdoptOutcome
    /\ UNCHANGED <<pool, xapi>> /\ History

\* xapi records the SR when the reply arrives.
Created ==
    /\ op.kind \in {"create", "adopt"} /\ op.pc = "return"
    /\ srs' = [s \in DOMAIN srs \cup {op.sr} |-> IF s = op.sr THEN op.ds ELSE srs[s]]
    /\ op' = NoCall
    /\ UNCHANGED <<pool, attached, used>> /\ History

-----------------------------------------------------------------------------
(* SR.attach, SR.detach and what the volume operations make of an SR.      *)

AttachMountNot(f) == f    \* mutant of AttachMount
AttachMount(f) == [f EXCEPT !.mounted = TRUE]

Attach(u) ==
    /\ op = NoCall /\ u \in DOMAIN srs \ DOMAIN attached
    /\ srs[u] \in DOMAIN fs
    /\ fs' = [fs EXCEPT ![srs[u]] = AttachMount(@)]
    /\ attached' = [s \in DOMAIN attached \cup {u} |->
                      IF s = u THEN fs[srs[u]].mnt ELSE attached[s]]
    /\ UNCHANGED <<vol, snap, srs, used, op>> /\ History

MetaAtAny(u) == UNION {fs[p].meta : p \in {q \in DOMAIN fs : fs[q].mounted}}    \* mutant of MetaAt

\* The dataset named by meta.json under the mountpoint u was attached at; none if
\* nothing is mounted there.
MetaAt(u) == UNION {fs[p].meta : p \in {q \in DOMAIN fs :
                                          fs[q].mnt = attached[u] /\ fs[q].mounted}}

Detach(u) ==
    /\ op = NoCall /\ u \in DOMAIN attached
    /\ \E p \in MetaAt(u) \cap DOMAIN fs : fs' = [fs EXCEPT ![p].mounted = FALSE]
    /\ attached' = Without(attached, u)
    /\ UNCHANGED <<vol, snap, srs, used, op>> /\ History

Fill(u, c) ==
    /\ op = NoCall /\ u \in DOMAIN attached /\ srs[u] \in DOMAIN fs
    /\ Zvols(srs[u]) = {}
    /\ LET zv(n) == Append(srs[u], n)
           new == {zv(n) : n \in DOMAIN c} IN
       /\ new \cap DOMAIN fs = {}
       /\ vol' = [v \in DOMAIN vol \cup new |->
                    IF v \notin new THEN vol[v]
                    ELSE IF c[Last(v)] = 0 THEN NoOrigin ELSE zv(c[Last(v)])]
       /\ snap' = snap \cup {zv(c[n]) : n \in {k \in DOMAIN c : c[k] # 0}}
       /\ fs' = [fs EXCEPT ![srs[u]].rows = DOMAIN c]
    /\ UNCHANGED <<xapi, op>> /\ History

-----------------------------------------------------------------------------
(* SR.destroy and dataset_destroy.                                         *)

\* A pool root is refused.
Destroy(u) ==
    /\ op = NoCall /\ u \in DOMAIN attached
    /\ \E p \in (MetaAt(u) \ {Root}) \cap DOMAIN fs :
         op' = [NoCall EXCEPT !.kind = "destroy", !.sr = u, !.ds = p,
                              !.pc = IF lzc THEN "list" ELSE "cli"]
    /\ doomed' = doomed \cup {u}
    /\ UNCHANGED <<pool, xapi, lzc, unlisted, failures>>

OrderForward(s) == s    \* mutant of Order
Order(s) == Reverse(s)

List ==
    /\ At("destroy", "list")
    /\ \E s \in Listings(Nodes(op.ds)) : op' = [op EXCEPT !.pc = "unmount", !.todo = Order(s)]
    /\ UNCHANGED <<pool, xapi>> /\ History

Unmount ==
    /\ At("destroy", "unmount") /\ op.todo # <<>>
    /\ LET n == Head(op.todo) IN
       fs' = IF n[2] = 0 /\ n[1] \in DOMAIN fs THEN [fs EXCEPT ![n[1]].mounted = FALSE] ELSE fs
    /\ op' = [op EXCEPT !.pc = "erase", !.tries = 1]
    /\ UNCHANGED <<vol, snap, xapi>> /\ History

\* destroy_with_retry: only EBUSY is tried again.  A snapshot with clones answers
\* EEXIST, and any errno but ENOENT ends the call.
Erase ==
    /\ At("destroy", "erase")
    /\ LET n == Head(op.todo)
           next == [op EXCEPT !.pc = "unmount", !.todo = Tail(@), !.tries = 0] IN
       \/ ~Exists(n) /\ op' = next /\ UNCHANGED pool
       \/ Exists(n) /\ Dependents(n) = {} /\ op' = next /\ Vanish(n)
       \/ /\ Exists(n) /\ (n[2] = 0 \/ Dependents(n) = {})    \* EBUSY
          /\ op' = IF op.tries < MaxTries THEN [op EXCEPT !.tries = @ + 1] ELSE NoCall
          /\ UNCHANGED pool
       \/ Exists(n) /\ n[2] = 1 /\ Dependents(n) # {} /\ op' = NoCall /\ UNCHANGED pool
    /\ UNCHANGED xapi /\ History

\* zfs destroy -r, which takes the dependencies in their order.
CliErase ==
    /\ At("destroy", "cli")
    /\ \E n \in {k \in Nodes(op.ds) : Exists(k) /\ Dependents(k) = {}} : Vanish(n)
    /\ UNCHANGED <<xapi, op>> /\ History

Destroyed ==
    /\ \/ At("destroy", "unmount") /\ op.todo = <<>>
       \/ At("destroy", "cli") /\ op.ds \notin DOMAIN fs
    /\ srs' = Without(srs, op.sr) /\ attached' = Without(attached, op.sr)
    /\ op' = NoCall
    /\ UNCHANGED <<pool, used>> /\ History

-----------------------------------------------------------------------------
(* Failures, and SR.probe, which changes nothing.                          *)

\* A command fails, or the process is killed, or its reply is lost.
Fail ==
    /\ op # NoCall /\ op' = NoCall
    /\ failures < MaxFailures /\ failures' = failures + 1
    /\ UNCHANGED <<pool, xapi, lzc, unlisted, doomed>>

\* At boot what has an SR's mountpoint is mounted there.
Reboot ==
    /\ failures < MaxFailures /\ failures' = failures + 1
    /\ op' = NoCall /\ attached' = << >>
    /\ fs' = [p \in DOMAIN fs |-> [fs[p] EXCEPT !.mounted = (fs[p].mnt # NoSr)]]
    /\ UNCHANGED <<vol, snap, srs, used, lzc, unlisted, doomed>>

ProbeSees(p) == (IF IsSr(p) THEN {p} ELSE {}) \cup ChildSrs(p)
ProbeReadyParents(p) ==    \* mutant of ProbeReady
    /\ p \in DOMAIN fs
    /\ \A q \in Parents(p) : ~(q \in DOMAIN fs /\ fs[q].marker # NoSr)
ProbeReady(p) ==
    /\ p \in DOMAIN fs
    /\ \A q \in Parents(p) : ~(q \in DOMAIN fs /\ IsSr(q))
    /\ ~IsSr(p)

Next ==
    \/ \E u \in Uuids, p \in Places : Create(u, p)
    \/ \E u \in Uuids, p \in Adoptable : Adopt(u, p)
    \/ Make \/ Mark \/ SetMountpoint \/ Mount \/ CreateDatabase \/ UpdateMeta
    \/ ListZvols \/ Register \/ AdoptEnd \/ Created
    \/ \E u \in Uuids : Attach(u) \/ Detach(u) \/ Destroy(u)
    \/ \E u \in Uuids, c \in Contents : Fill(u, c)
    \/ List \/ Unmount \/ Erase \/ CliErase \/ Destroyed
    \/ Fail \/ Reboot

Spec == Init /\ [][Next]_vars

-----------------------------------------------------------------------------
(* Properties.                                                             *)

Nums == Uuids \cup {NoSr}

\* Marker, mountpoint and files of every dataset have their forms, and every
\* zvol hangs in the tree of datasets.
TypeOK ==
    /\ \A p \in DOMAIN fs :
         /\ fs[p].mnt \in Nums /\ fs[p].mounted \in BOOLEAN /\ fs[p].db \in BOOLEAN
         /\ fs[p].meta \subseteq {p}
    /\ \A p \in DOMAIN fs \cup DOMAIN vol : Above(p) \subseteq DOMAIN fs
    /\ snap \subseteq DOMAIN vol
    /\ \A v \in DOMAIN vol : vol[v] = NoOrigin \/ vol[v] \in snap
    /\ DOMAIN srs \subseteq used /\ DOMAIN attached \subseteq DOMAIN srs
    /\ op.tries \in 0..MaxTries

\* No dataset SR.create marked lies inside another one, the pool root apart,
\* whatever creates failed half-way and whatever path the next one is given
\* (sr.py:265-285).
NoNesting ==
    \A p, q \in DOMAIN fs :
        p # Root /\ p \in Above(q) => fs[p].marker = NoSr \/ fs[q].marker = NoSr

\* An SR xapi knows is there and marked until its destroy has begun; and while it
\* is, its mountpoint, its metabase and the meta.json by which detach and destroy
\* find the dataset are right (sr.py:311-362), through failed calls of others.
Whole ==
    \A u \in DOMAIN srs :
        LET there == srs[u] \in DOMAIN fs /\ fs[srs[u]].marker = u IN
        /\ u \notin doomed => there
        /\ there => /\ fs[srs[u]].mnt = u /\ fs[srs[u]].db
                    /\ fs[srs[u]].meta = {srs[u]}

\* An attached SR finds its metabase mounted where attach said, unless its
\* destroy has begun (sr.py:441-526).
Served ==
    \A u \in DOMAIN attached \ doomed :
        attached[u] = u /\ srs[u] \in DOMAIN fs /\ fs[srs[u]].mounted

\* SR.destroy removes no dataset and no zvol of another SR, and nothing outside
\* its own (sr.py:414-433).
DestroysOwn ==
    [][\A p \in (DOMAIN fs \ DOMAIN fs') \cup (DOMAIN vol \ DOMAIN vol') :
          Marker(p) = op.sr /\ op.kind = "destroy"]_vars

\* In an SR xapi knows, every zvol directly under the dataset has its row, the
\* adopted ones included, unless they could not even be listed (sr.py:364-409).
Adopted ==
    \A u \in DOMAIN srs \ unlisted : \A v \in Zvols(srs[u]) :
        srs[u] \in DOMAIN fs => Last(v) \in fs[srs[u]].rows

\* A location probe reports as ready for a new SR is one SR.create accepts, for
\* any uuid not in use there, and probe lists every SR xapi knows at or under it
\* (sr.py:758-828 against 253-285).
ProbeHonest ==
    \A p \in Places :
        /\ ProbeReady(p) => \A u \in Uuids : Append(p, u) \notin Taken => Accepts(p, u)
        /\ {srs[u] : u \in {v \in DOMAIN srs \ doomed : Related(p, srs[v]) /\ Len(p) <= Len(srs[v])}}
             \subseteq ProbeSees(p)

\* The destroy sequence is "dependency-correct" (zfs_operations.py:332-344): the
\* walk never comes to a snapshot that still has a clone.
DependencyCorrect ==
    At("destroy", "erase") /\ Head(op.todo)[2] = 1 => Dependents(Head(op.todo)) = {}

\* ... and it is, whenever every clone's name sorts after its origin's: then no
\* node, filesystems and zvols included, is reached before its dependents.
OrderSuffices ==
    At("destroy", "erase") /\ (\A v \in Below(op.ds) \cap DOMAIN vol :
                                  vol[v] # NoOrigin => NameBefore(vol[v], v))
        => Dependents(Head(op.todo)) = {}
=============================================================================
