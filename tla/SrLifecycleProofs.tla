-------------------------- MODULE SrLifecycleProofs --------------------------
(***************************************************************************)
(* What holds of the SRs of a pool for every set of uuids and places,      *)
(* however many calls fail: the tree of datasets, the markers and files of *)
(* the SRs, and what a destroy takes.                                      *)
(***************************************************************************)
EXTENDS SrLifecycle, FiniteSetTheorems, TLAPS

Path    == Seq(Nat)
NodeSet == Path \X {0, 1}

FsOK(f) ==
    /\ DOMAIN f = DOMAIN Bare
    /\ f.marker \in Nat /\ f.mnt \in Nums /\ f.mounted \in BOOLEAN /\ f.db \in BOOLEAN

\* The datasets and zvols form a tree, and clones lie beside their origins.
TreeInv ==
    /\ Root \in DOMAIN fs /\ DOMAIN fs \subseteq Path /\ DOMAIN vol \subseteq Path
    /\ DOMAIN fs \cap DOMAIN vol = {}
    /\ IsFiniteSet(DOMAIN fs) /\ IsFiniteSet(DOMAIN vol)
    /\ \A p \in DOMAIN fs \cup DOMAIN vol : Above(p) \subseteq DOMAIN fs
    /\ snap \subseteq DOMAIN vol
    /\ \A v \in DOMAIN vol :
         vol[v] = NoOrigin \/ (vol[v] \in snap /\ Front(vol[v]) = Front(v))

Makes    == {"create", "adopt"}
MakePCs  == {"mark", "point", "mount", "database", "meta", "return"}
OpType   == [kind : {"none", "create", "adopt", "destroy"},
             pc : MakePCs \cup {"idle", "make", "list", "register", "unmount", "erase", "cli"},
             sr : Nums, ds : Path, todo : Seq(NodeSet), failed : BOOLEAN, tries : 0..MaxTries]

TypeInv ==
    /\ \A p \in DOMAIN fs : /\ FsOK(fs[p]) /\ fs[p].meta \subseteq {p}
                            /\ fs[p].mnt \in used \cup {NoSr}
                            /\ fs[p].meta # {} => fs[p].mnt # NoSr
    /\ op \in OpType
    /\ op.kind = "none" => op = NoCall
    /\ op.kind = "create" => op.pc \in MakePCs \cup {"make"}
    /\ op.kind = "adopt" => op.pc \in MakePCs \cup {"list", "register"}
    /\ op.kind = "destroy" => op.pc \in {"list", "unmount", "erase", "cli"}
    /\ op.pc = "erase" => op.todo # <<>>
    /\ used \subseteq Uuids
    /\ DOMAIN srs \subseteq used /\ DOMAIN attached \subseteq DOMAIN srs
    /\ \A u \in DOMAIN srs : srs[u] \in Path

There(u) == srs[u] \in DOMAIN fs /\ fs[srs[u]].marker = u

\* No marked dataset on the way to ds, the pool root apart, and none below it.
Clear(ds) == \A p \in DOMAIN fs : p \in Parents(ds) \/ ds \in Above(p) => fs[p].marker = NoSr

\* How far a create has come.  Its uuid and its dataset are nobody else's.
StageInv ==
    op.kind \in Makes =>
      /\ op.sr \in used \ DOMAIN srs
      /\ \A u \in DOMAIN srs : srs[u] # op.ds
      /\ \A p \in DOMAIN fs : fs[p].mnt = op.sr => p = op.ds
      /\ IF op.pc = "make" THEN op.ds \notin Taken ELSE op.ds \in DOMAIN fs
      /\ op.kind = "create" => /\ op.ds # Root /\ Last(op.ds) = op.sr
                               /\ \A v \in DOMAIN vol : op.ds \notin Above(v)
                               /\ op.pc \in {"make", "mark"} => Clear(op.ds)
      /\ op.kind = "adopt" => /\ op.ds \in Adoptable
                              /\ op.pc = "mark" => op.ds = Root \/ fs[op.ds].marker # NoSr
      /\ op.pc \notin {"make", "mark"} => fs[op.ds].marker = op.sr
      /\ op.pc \notin {"make", "mark", "point"} => fs[op.ds].mnt = op.sr
      /\ op.pc \in {"meta", "list", "register", "return"} => fs[op.ds].db
      /\ op.pc \in {"list", "register", "return"} => fs[op.ds].meta = {op.ds}

\* What an adopting call has registered, and what it still has to.
AdoptInv ==
    op.kind = "adopt" /\ op.sr \notin unlisted =>
      \A v \in Zvols(op.ds) :
        /\ op.pc = "return" => Last(v) \in fs[op.ds].rows
        /\ op.pc = "register" => \/ op.failed \/ Last(v) \in fs[op.ds].rows
                                \/ \E i \in DOMAIN op.todo : op.todo[i] = <<v, 0>>

\* The SRs xapi knows.  Only an SR's own dataset is mounted where the SR is.
SrsInv ==
    \A u \in DOMAIN srs :
      /\ srs[u] \in Adoptable \/ (srs[u] # Root /\ Last(srs[u]) = u)
      /\ u \notin doomed => There(u)
      /\ There(u) => fs[srs[u]].mnt = u /\ fs[srs[u]].db /\ fs[srs[u]].meta = {srs[u]}
      /\ srs[u] \in DOMAIN fs => fs[srs[u]].mnt \in {u, NoSr}
      /\ \A p \in DOMAIN fs : fs[p].mnt = u => p = srs[u] /\ fs[p].marker = u
      /\ u \in DOMAIN attached => attached[u] \in {u, NoSr}

\* A destroy walks the dataset of its own SR.
AtOrBelow(p, q) == p = q \/ q \in Above(p)
DestroyInv ==
    op.kind = "destroy" =>
      /\ op.sr \in DOMAIN srs \cap doomed /\ op.ds = srs[op.sr]
      /\ op.ds # Root /\ op.ds \notin DOMAIN vol
      /\ op.ds \in DOMAIN fs => fs[op.ds].marker = op.sr
      /\ op.pc \in {"unmount", "erase"} =>
           \A i \in DOMAIN op.todo : AtOrBelow(op.todo[i][1], op.ds)

Inv == TreeInv /\ TypeInv /\ NoNesting /\ StageInv /\ SrsInv /\ DestroyInv

-----------------------------------------------------------------------------
(* Paths.                                                                  *)

LEMMA PrefixPath ==
  ASSUME NEW p \in Path, NEW i \in 0..Len(p)
  PROVE  /\ SubSeq(p, 1, i) \in Path
         /\ Len(SubSeq(p, 1, i)) = i
         /\ \A j \in 1..i : SubSeq(p, 1, i)[j] = p[j]
  BY DEF Path

LEMMA PathLen == ASSUME NEW p \in Path PROVE Len(p) \in Nat
  BY DEF Path

LEMMA PathEqual ==
  ASSUME NEW p \in Path, NEW q \in Path, Len(p) = Len(q), \A j \in 1..Len(p) : p[j] = q[j]
  PROVE  p = q
  BY DEF Path

LEMMA AboveIff ==
  ASSUME NEW p \in Path, NEW q
  PROVE  q \in Above(p) <=> /\ q \in Path /\ Len(q) < Len(p)
                            /\ \A j \in 1..Len(q) : q[j] = p[j]
<1>1. ASSUME q \in Above(p)
      PROVE  q \in Path /\ Len(q) < Len(p) /\ \A j \in 1..Len(q) : q[j] = p[j]
  <2>1. PICK i \in 0..(Len(p) - 1) : q = SubSeq(p, 1, i)
    BY <1>1 DEF Above
  <2>2. i \in 0..Len(p) /\ i < Len(p)
    BY DEF Path
  <2>. QED
    BY <2>1, <2>2, PrefixPath
<1>2. ASSUME q \in Path, Len(q) < Len(p), \A j \in 1..Len(q) : q[j] = p[j]
      PROVE  q \in Above(p)
  <2>1. Len(q) \in 0..(Len(p) - 1) /\ Len(q) \in 0..Len(p)
    BY <1>2 DEF Path
  <2>2. q = SubSeq(p, 1, Len(q))
    BY <1>2, <2>1, PrefixPath DEF Path
  <2>. QED
    BY <2>1, <2>2 DEF Above
<1>. QED
  BY <1>1, <1>2

LEMMA AboveTransitive ==
  ASSUME NEW p \in Path, NEW q \in Above(p), NEW r \in Above(q)
  PROVE  r \in Above(p)
<1>1. /\ q \in Path /\ Len(q) < Len(p) /\ \A j \in 1..Len(q) : q[j] = p[j]
  BY AboveIff
<1>2. /\ r \in Path /\ Len(r) < Len(q) /\ \A j \in 1..Len(r) : r[j] = q[j]
  BY <1>1, AboveIff
<1>3. Len(r) < Len(p) /\ \A j \in 1..Len(r) : r[j] = p[j]
  BY <1>1, <1>2, PathLen
<1>. QED
  BY <1>2, <1>3, AboveIff

LEMMA AboveStrict ==
  ASSUME NEW p \in Path, NEW q \in Above(p)
  PROVE  q \in Path /\ q # p /\ Len(q) < Len(p) /\ p \notin Above(q)
  BY AboveIff DEF Path

LEMMA AboveLinear ==
  ASSUME NEW p \in Path, NEW q \in Above(p), NEW r \in Above(p)
  PROVE  q = r \/ q \in Above(r) \/ r \in Above(q)
<1>1. /\ q \in Path /\ r \in Path
      /\ \A j \in 1..Len(q) : q[j] = p[j]
      /\ \A j \in 1..Len(r) : r[j] = p[j]
  BY AboveIff
<1>2. Len(q) \in Nat /\ Len(r) \in Nat
  BY <1>1, PathLen
<1>3. CASE Len(q) < Len(r)
  <2>1. \A j \in 1..Len(q) : q[j] = r[j]
    BY <1>1, <1>2, <1>3
  <2>. QED
    BY <1>1, <1>3, <2>1, AboveIff
<1>4. CASE Len(r) < Len(q)
  <2>1. \A j \in 1..Len(r) : r[j] = q[j]
    BY <1>1, <1>2, <1>4
  <2>. QED
    BY <1>1, <1>4, <2>1, AboveIff
<1>5. CASE Len(q) = Len(r)
  <2>1. \A j \in 1..Len(q) : q[j] = r[j]
    BY <1>1, <1>5
  <2>. QED
    BY <1>1, <1>5, <2>1, PathEqual
<1>. QED
  BY <1>2, <1>3, <1>4, <1>5

LEMMA AboveRoot == Root \in Path /\ Above(Root) = {}
<1>1. Root \in Path /\ Len(Root) = 0
  BY DEF Root, Path
<1>2. ASSUME NEW q \in Above(Root) PROVE FALSE
  BY <1>1, <1>2, AboveIff, PathLen
<1>. QED
  BY <1>1, <1>2

LEMMA RootAbove ==
  ASSUME NEW p \in Path, p # Root
  PROVE  Root \in Above(p)
<1>1. Root \in Path /\ Len(Root) = 0
  BY DEF Root, Path
<1>2. Len(p) > 0
  BY DEF Root, Path
<1>3. \A j \in 1..Len(Root) : Root[j] = p[j]
  BY <1>1
<1>. QED
  BY <1>1, <1>2, <1>3, AboveIff

LEMMA AppendPath ==
  ASSUME NEW p \in Path, NEW n \in Nat
  PROVE  /\ Append(p, n) \in Path
         /\ Append(p, n) # Root
         /\ Last(Append(p, n)) = n
         /\ Front(Append(p, n)) = p
         /\ Above(Append(p, n)) = Above(p) \cup {p}
<1>1. /\ Append(p, n) \in Path /\ Len(Append(p, n)) = Len(p) + 1
      /\ \A j \in 1..Len(p) : Append(p, n)[j] = p[j]
      /\ Append(p, n)[Len(p) + 1] = n
  BY DEF Path
<1>2. Last(Append(p, n)) = n /\ Append(p, n) # Root
  BY <1>1 DEF Last, Path, Root
<1>3. /\ SubSeq(Append(p, n), 1, Len(p)) \in Path
      /\ Len(SubSeq(Append(p, n), 1, Len(p))) = Len(p)
      /\ \A j \in 1..Len(p) : SubSeq(Append(p, n), 1, Len(p))[j] = p[j]
  BY <1>1, PrefixPath DEF Path
<1>4. Front(Append(p, n)) = p
  BY <1>1, <1>3 DEF Front, Path
<1>5. ASSUME NEW q
      PROVE  q \in Above(Append(p, n)) <=> q \in Above(p) \cup {p}
  <2>1. CASE q \in Path
    <3>. Len(q) \in Nat /\ Len(p) \in Nat
      BY <2>1, PathLen
    <3>. DEFINE A == Append(p, n)
    <3>0. q \in Above(A) <=> /\ Len(q) < Len(A) /\ \A j \in 1..Len(q) : q[j] = A[j]
      BY <1>1, <2>1, AboveIff
    <3>1. CASE Len(q) < Len(p)
      <4>1. q # p /\ Len(q) < Len(A) /\ \A j \in 1..Len(q) : A[j] = p[j]
        BY <1>1, <3>1
      <4>2. q \in Above(Append(p, n)) <=> \A j \in 1..Len(q) : q[j] = p[j]
        BY <3>0, <4>1
      <4>. QED
        BY <2>1, <3>1, <4>1, <4>2, AboveIff
    <3>2. CASE Len(q) = Len(p)
      <4>1. q \in Above(Append(p, n)) <=> \A j \in 1..Len(q) : q[j] = p[j]
        <5>1. Len(q) < Len(A) /\ \A j \in 1..Len(q) : A[j] = p[j]
          BY <1>1, <3>2
        <5>. QED
          BY <3>0, <5>1
      <4>2. q \notin Above(p)
        BY <3>2, AboveIff
      <4>3. (\A j \in 1..Len(q) : q[j] = p[j]) <=> q = p
        BY <2>1, <3>2, PathEqual
      <4>. QED
        BY <4>1, <4>2, <4>3
    <3>3. CASE Len(q) > Len(p)
      <4>1. q # p /\ q \notin Above(p) /\ ~(Len(q) < Len(Append(p, n)))
        BY <1>1, <3>3, AboveIff
      <4>. QED
        BY <1>1, <4>1, AboveIff
    <3>. QED
      BY <3>1, <3>2, <3>3
  <2>. QED
    BY <1>1, <2>1, AboveIff
<1>. QED
  BY <1>1, <1>2, <1>4, <1>5

LEMMA FrontAbove ==
  ASSUME NEW p \in Path, p # Root
  PROVE  /\ Front(p) \in Above(p) /\ Last(p) \in Nat
         /\ Above(p) = Above(Front(p)) \cup {Front(p)}
<1>1. Len(p) \in Nat \ {0}
  BY DEF Root, Path
<1>2. Last(p) \in Nat
  BY <1>1 DEF Last, Path
<1>3. /\ Front(p) \in Path /\ Len(Front(p)) = Len(p) - 1
      /\ \A j \in 1..Len(p) - 1 : Front(p)[j] = p[j]
  <2>1. Len(p) - 1 \in 0..Len(p)
    BY <1>1
  <2>. QED
    BY <2>1, PrefixPath DEF Front
<1>4. p = Append(Front(p), Last(p))
  BY <1>1, <1>2, <1>3 DEF Last, Path
<1>. QED
  BY <1>1, <1>2, <1>3, <1>4, AppendPath

-----------------------------------------------------------------------------
(* The tree of datasets.                                                   *)

\* What the steps do to the pool.
Keeps  == DOMAIN fs' = DOMAIN fs /\ vol' = vol /\ snap' = snap
Making(q, f) ==
    /\ q \in DOMAIN fs' /\ q \notin DOMAIN fs
    /\ f \in {Bare} \cup {[Bare EXCEPT !.mounted = m] : m \in BOOLEAN}
    /\ fs' = With(q, f) /\ vol' = vol /\ snap' = snap
Erasing(n) == Exists(n) /\ Dependents(n) = {} /\ Vanish(n)

LEMMA PoolSteps ==
  ASSUME Next
  PROVE  \/ Keeps
         \/ Make
         \/ \E u \in Uuids, c \in Contents : Fill(u, c)
         \/ At("destroy", "erase") /\ Erasing(Head(op.todo))
         \/ At("destroy", "cli") /\ \E n \in Nodes(op.ds) : Erasing(n)
<1>1. ASSUME NEW u \in Uuids, NEW p \in Places, Create(u, p) PROVE Keeps
  BY <1>1 DEF Create, pool, Keeps
<1>2. ASSUME NEW u \in Uuids, NEW p \in Adoptable, Adopt(u, p) PROVE Keeps
  BY <1>2 DEF Adopt, pool, Keeps
<1>3. ASSUME Mark \/ SetMountpoint \/ Mount \/ CreateDatabase \/ UpdateMeta PROVE Keeps
  BY <1>3 DEF Mark, SetMountpoint, Mount, CreateDatabase, UpdateMeta, Step, Keeps
<1>4. ASSUME ListZvols \/ Register \/ AdoptEnd \/ Created PROVE Keeps
  BY <1>4 DEF ListZvols, Register, AdoptEnd, Created, pool, Keeps
<1>5. ASSUME NEW u \in Uuids, Attach(u) \/ Detach(u) \/ Destroy(u) PROVE Keeps
  BY <1>5 DEF Attach, Detach, Destroy, pool, Keeps
<1>6. ASSUME List \/ Unmount \/ Destroyed \/ Fail \/ Reboot PROVE Keeps
  BY <1>6 DEF List, Unmount, Destroyed, Fail, Reboot, pool, Keeps
<1>7. ASSUME Erase
      PROVE  Keeps \/ (At("destroy", "erase") /\ Erasing(Head(op.todo)))
  BY <1>7 DEF Erase, pool, Keeps, Erasing
<1>8. ASSUME CliErase
      PROVE  At("destroy", "cli") /\ \E n \in Nodes(op.ds) : Erasing(n)
  BY <1>8 DEF CliErase, Erasing
<1>. QED
  BY <1>1, <1>2, <1>3, <1>4, <1>5, <1>6, <1>7, <1>8 DEF Next

\* Make makes one dataset, and what lies above it is there.
LEMMA MakeEffect ==
  ASSUME TreeInv, TypeInv, Make, op.ds \notin DOMAIN fs \cup DOMAIN vol, op.ds # Root
  PROVE  \E q, f : /\ Making(q, f) /\ q \in Path /\ q # Root /\ q \notin DOMAIN vol
                   /\ Above(q) \subseteq DOMAIN fs
                   /\ \/ q = op.ds /\ op' = [op EXCEPT !.pc = "mark"]
                      \/ q \in Parents(op.ds) /\ f = Bare /\ UNCHANGED op
<1>. DEFINE missing == {q \in Parents(op.ds) : q \notin DOMAIN fs}
<1>1. op.ds \in Path
  BY DEF TypeInv, OpType
<1>2. CASE missing # {}
  <2>1. PICK q \in missing : (\A r \in missing : Len(q) <= Len(r)) /\ fs' = With(q, Bare)
    BY <1>2 DEF Make
  <2>2. q \in Above(op.ds) /\ q # Root /\ q \in Path /\ q \notin DOMAIN fs
    BY <1>1, <2>1, AboveStrict DEF Parents
  <2>3. ASSUME NEW r \in Above(q) PROVE r \in DOMAIN fs
    <3>1. r \in Above(op.ds) /\ r \in Path /\ Len(r) < Len(q) /\ Len(r) \in Nat /\ Len(q) \in Nat
      BY <1>1, <2>2, <2>3, AboveTransitive, AboveStrict, PathLen
    <3>2. r \notin missing
      BY <2>1, <3>1
    <3>. QED
      BY <3>1, <3>2 DEF Parents, TreeInv
  <2>4. Making(q, Bare) /\ UNCHANGED op /\ q \notin DOMAIN vol
    BY <1>2, <2>1, <2>2 DEF Make, Making, With, Parents
  <2>. QED
    BY <2>2, <2>3, <2>4 DEF Parents
<1>3. CASE missing = {}
  <2>1. PICK m \in BOOLEAN : fs' = With(op.ds, [Bare EXCEPT !.mounted = m])
    BY <1>3 DEF Make
  <2>2. Above(op.ds) \subseteq DOMAIN fs
    BY <1>3 DEF Parents, TreeInv
  <2>3. [Bare EXCEPT !.mounted = m] \in {[Bare EXCEPT !.mounted = k] : k \in BOOLEAN}
    OBVIOUS
  <2>4. Making(op.ds, [Bare EXCEPT !.mounted = m]) /\ op' = [op EXCEPT !.pc = "mark"]
    BY <1>3, <2>1, <2>3 DEF Make, Making, With, Goto
  <2>. QED
    BY <1>1, <2>2, <2>4
<1>. QED
  BY <1>2, <1>3

\* Fill adds zvols right under the dataset of an SR.
Filling(u, c, new) ==
    /\ op = NoCall /\ srs[u] \in DOMAIN fs /\ u \in DOMAIN attached
    /\ Zvols(srs[u]) = {}
    /\ DOMAIN vol' = DOMAIN vol \cup new /\ new \cap DOMAIN fs = {}
    /\ IsFiniteSet(new)
    /\ \A v \in new : /\ v \in Path /\ v # Root /\ Front(v) = srs[u]
                     /\ Last(v) \in DOMAIN c /\ Above(v) = Above(srs[u]) \cup {srs[u]}
                     /\ (vol'[v] = NoOrigin \/ vol'[v] \in new \cap snap')
    /\ \A v \in DOMAIN vol \ new : vol'[v] = vol[v]
    /\ snap \subseteq snap' /\ snap' \subseteq snap \cup new
    /\ fs' = [fs EXCEPT ![srs[u]].rows = DOMAIN c]
    /\ UNCHANGED <<xapi, op, lzc, unlisted, doomed, failures>>

LEMMA FillEffect ==
  ASSUME TreeInv, TypeInv, NEW u \in Uuids, NEW c \in Contents, Fill(u, c)
  PROVE  \E new : Filling(u, c, new)
<1>. DEFINE new == {Append(srs[u], n) : n \in DOMAIN c}
            zv(n) == Append(srs[u], n)
            made == {zv(c[n]) : n \in {k \in DOMAIN c : c[k] # 0}}
<1>1. /\ op = NoCall /\ srs[u] \in DOMAIN fs /\ u \in DOMAIN attached /\ Zvols(srs[u]) = {}
      /\ new \cap DOMAIN fs = {}
      /\ vol' = [v \in DOMAIN vol \cup new |->
                    IF v \notin new THEN vol[v]
                    ELSE IF c[Last(v)] = 0 THEN NoOrigin ELSE zv(c[Last(v)])]
      /\ snap' = snap \cup made
      /\ fs' = [fs EXCEPT ![srs[u]].rows = DOMAIN c]
      /\ UNCHANGED <<xapi, op, lzc, unlisted, doomed, failures>>
  BY DEF Fill, History
<1>2. /\ DOMAIN c \subseteq Nat /\ IsFiniteSet(DOMAIN c)
      /\ \A n \in DOMAIN c : c[n] \in {0} \cup DOMAIN c
  BY SrAssumption
<1>3. srs[u] \in Path
  BY <1>1 DEF TreeInv
<1>4. made \subseteq new
  BY <1>2
<1>5. ASSUME NEW v \in new
      PROVE  /\ v \in Path /\ v # Root /\ Front(v) = srs[u]
             /\ Last(v) \in DOMAIN c /\ Above(v) = Above(srs[u]) \cup {srs[u]}
             /\ (vol'[v] = NoOrigin \/ vol'[v] \in new \cap snap')
  <2>1. PICK n \in DOMAIN c : v = zv(n)
    BY <1>5
  <2>2. /\ v \in Path /\ v # Root /\ Front(v) = srs[u] /\ Last(v) = n
        /\ Above(v) = Above(srs[u]) \cup {srs[u]}
    BY <1>2, <1>3, <2>1, AppendPath
  <2>3. vol'[v] = IF c[n] = 0 THEN NoOrigin ELSE zv(c[n])
    BY <1>1, <2>2
  <2>4. c[n] # 0 => zv(c[n]) \in made
    OBVIOUS
  <2>. QED
    BY <1>1, <1>4, <2>2, <2>3, <2>4
<1>6. IsFiniteSet(new)
  <2>. DEFINE f == [n \in DOMAIN c |-> zv(n)]
  <2>1. f \in Surjection(DOMAIN c, new)
    BY DEF Surjection
  <2>. QED
    BY <1>2, <2>1, FS_Surjection
<1>7. /\ DOMAIN vol' = DOMAIN vol \cup new
      /\ \A v \in DOMAIN vol \ new : vol'[v] = vol[v]
  BY <1>1
<1>. HIDE DEF new, made
<1>8. snap \subseteq snap' /\ snap' \subseteq snap \cup new
  BY <1>1, <1>4
<1>. QED
  <2>. HIDE DEF zv
  <2>1. Filling(u, c, new)
    BY <1>1, <1>5, <1>6, <1>7, <1>8 DEF Filling
  <2>. QED
    BY <2>1

LEMMA NewFs ==
  ASSUME NEW q, NEW f, Making(q, f)
  PROVE  /\ FsOK(f) /\ f.marker = NoSr /\ f.mnt = NoSr /\ f.meta = {} /\ f.rows = {} /\ ~f.db
         /\ DOMAIN fs' = DOMAIN fs \cup {q} /\ fs'[q] = f
         /\ \A p \in DOMAIN fs : p # q /\ fs'[p] = fs[p]
<1>1. FsOK(f) /\ f.marker = NoSr /\ f.mnt = NoSr /\ f.meta = {} /\ f.rows = {} /\ ~f.db
  <2>1. PICK m \in BOOLEAN : f = Bare \/ f = [Bare EXCEPT !.mounted = m]
    BY DEF Making
  <2>2. CASE f = Bare
    BY <2>2 DEF FsOK, Bare, Nums, NoSr
  <2>3. CASE f = [Bare EXCEPT !.mounted = m]
    BY <2>3 DEF FsOK, Bare, Nums, NoSr
  <2>. QED
    BY <2>1, <2>2, <2>3
<1>2. /\ DOMAIN fs' = DOMAIN fs \cup {q} /\ fs'[q] = f
      /\ \A p \in DOMAIN fs : p # q /\ fs'[p] = fs[p]
  BY DEF Making, With
<1>. QED
  BY <1>1, <1>2

\* What goes has nothing below it.
Erased(n) ==
    /\ n[2] \in {0, 1}
    /\ DOMAIN fs' = IF n[2] = 1 THEN DOMAIN fs ELSE DOMAIN fs \ {n[1]}
    /\ DOMAIN vol' = IF n[2] = 1 THEN DOMAIN vol ELSE DOMAIN vol \ {n[1]}
    /\ snap' = IF n[2] = 1 THEN snap \ {n[1]} ELSE snap
    /\ \A p \in DOMAIN fs' : fs'[p] = fs[p]
    /\ \A v \in DOMAIN vol' : vol'[v] = vol[v]
    /\ n[2] = 1 => \A v \in DOMAIN vol : vol[v] # n[1]
    /\ n[2] = 0 => n[1] \notin snap /\ \A p \in DOMAIN fs \cup DOMAIN vol : n[1] \notin Above(p)

LEMMA EraseEffect ==
  ASSUME TreeInv, NEW n \in NodeSet, Erasing(n)
  PROVE  Erased(n)
<1>1. n[2] \in {0, 1}
  BY DEF NodeSet
<1>. QED
  BY <1>1 DEF Erased, Erasing, Vanish, Dependents, Below

LEMMA TreeStep ==
  ASSUME TreeInv, TypeInv, Next,
         op.pc = "make" => op.ds \notin DOMAIN fs \cup DOMAIN vol /\ op.ds # Root,
         op.kind = "destroy" =>
            /\ op.ds # Root
            /\ op.pc = "erase" => Head(op.todo)[1] # Root
  PROVE  TreeInv'
<1>1. CASE Keeps
  BY <1>1 DEF Keeps, TreeInv
<1>2. CASE Make
  <2>1. PICK q, f : /\ Making(q, f) /\ q \in Path /\ q # Root /\ q \notin DOMAIN vol
                    /\ Above(q) \subseteq DOMAIN fs
    BY <1>2, MakeEffect DEF Make, At
  <2>2. DOMAIN fs' = DOMAIN fs \cup {q} /\ vol' = vol /\ snap' = snap
    BY <2>1, NewFs DEF Making
  <2>3. IsFiniteSet(DOMAIN fs')
    BY <2>2, FS_AddElement DEF TreeInv
  <2>4. \A p \in DOMAIN fs' \cup DOMAIN vol' : Above(p) \subseteq DOMAIN fs'
    BY <2>1, <2>2 DEF TreeInv
  <2>. QED
    BY <2>1, <2>2, <2>3, <2>4 DEF TreeInv
<1>3. ASSUME NEW u \in Uuids, NEW c \in Contents, Fill(u, c) PROVE TreeInv'
  <2>1. PICK new : Filling(u, c, new)
    BY <1>3, FillEffect
  <2>. USE <2>1 DEF Filling
  <2>0. DOMAIN fs' = DOMAIN fs
    BY <2>1
  <2>2. IsFiniteSet(DOMAIN vol')
    <3>1. IsFiniteSet(DOMAIN vol)
      BY DEF TreeInv
    <3>2. IsFiniteSet(DOMAIN vol \cup new)
      BY <2>1, <3>1, FS_Union
    <3>. QED
      BY <2>1, <3>2
  <2>3. \A p \in DOMAIN fs' \cup DOMAIN vol' : Above(p) \subseteq DOMAIN fs'
    BY <2>0, <2>1 DEF TreeInv
  <2>4. \A v \in DOMAIN vol' :
          vol'[v] = NoOrigin \/ (vol'[v] \in snap' /\ Front(vol'[v]) = Front(v))
    BY <2>0, <2>1 DEF TreeInv
  <2>. QED
    BY <2>0, <2>1, <2>2, <2>3, <2>4 DEF TreeInv
<1>4. ASSUME NEW n \in NodeSet, n[1] # Root, Erasing(n) PROVE TreeInv'
  <2>0. Erased(n)
    BY <1>4, EraseEffect
  <2>. USE <1>4, <2>0 DEF Erased
  <2>1. /\ DOMAIN fs' \in SUBSET DOMAIN fs /\ DOMAIN vol' \in SUBSET DOMAIN vol
        /\ Root \in DOMAIN fs' /\ snap' \subseteq DOMAIN vol'
    <3>1. CASE n[2] = 0
      BY <3>1 DEF TreeInv
    <3>2. CASE n[2] = 1
      BY <3>2 DEF TreeInv
    <3>. QED
      BY <3>1, <3>2
  <2>2. IsFiniteSet(DOMAIN fs') /\ IsFiniteSet(DOMAIN vol')
    BY <2>1, FS_Subset DEF TreeInv
  <2>3. \A p \in DOMAIN fs' \cup DOMAIN vol' : Above(p) \subseteq DOMAIN fs'
    <3>1. CASE n[2] = 0
      BY <2>1, <3>1 DEF TreeInv
    <3>2. CASE n[2] = 1
      BY <2>1, <3>2 DEF TreeInv
    <3>. QED
      BY <3>1, <3>2
  <2>4. \A v \in DOMAIN vol' :
          vol'[v] = NoOrigin \/ (vol'[v] \in snap' /\ Front(vol'[v]) = Front(v))
    <3>1. CASE n[2] = 0
      BY <2>1, <3>1 DEF TreeInv
    <3>2. CASE n[2] = 1
      BY <2>1, <3>2 DEF TreeInv
    <3>. QED
      BY <3>1, <3>2
  <2>. QED
    BY <2>1, <2>2, <2>3, <2>4 DEF TreeInv
<1>5. CASE At("destroy", "erase") /\ Erasing(Head(op.todo))
  <2>1. Head(op.todo) \in NodeSet
    BY <1>5 DEF At, TypeInv, OpType
  <2>. QED
    BY <1>4, <1>5, <2>1 DEF At
<1>6. CASE At("destroy", "cli") /\ \E n \in Nodes(op.ds) : Erasing(n)
  <2>1. PICK n \in Nodes(op.ds) : Erasing(n)
    BY <1>6
  <2>2. n \in NodeSet /\ n[1] # Root
    BY <1>6, AboveRoot DEF At, Nodes, NodeSet, Below, TreeInv, TypeInv, OpType
  <2>. QED
    BY <1>4, <2>1, <2>2
<1>. QED
  BY <1>1, <1>2, <1>3, <1>5, <1>6, PoolSteps


-----------------------------------------------------------------------------
(* Listings.                                                               *)

LEMMA ListingSeq ==
  ASSUME NEW N, IsFiniteSet(N), NEW s \in Listings(N)
  PROVE  /\ s \in Seq(N) /\ DOMAIN s = 1..Len(s) /\ Len(s) \in Nat
         /\ \A n \in N : \E i \in 1..Len(s) : s[i] = n
         /\ \A i \in 1..Len(s) : s[i] \in N
         /\ \A i, j \in 1..Len(s) : i < j => ListedBefore(s[i], s[j])
<1>1. Cardinality(N) \in Nat
  BY FS_CardinalityType
<1>2. /\ s \in [1..Cardinality(N) -> N] /\ \A n \in N : \E i \in DOMAIN s : s[i] = n
      /\ \A i, j \in DOMAIN s : i < j => ListedBefore(s[i], s[j])
  BY DEF Listings
<1>3. s \in Seq(N) /\ Len(s) = Cardinality(N) /\ DOMAIN s = 1..Len(s)
  BY <1>1, <1>2
<1>. HIDE DEF Listings
<1>. QED
  BY <1>1, <1>2, <1>3

ZvolNodes(p) == {<<v, 0>> : v \in Zvols(p)}

LEMMA ZvolNodesFinite ==
  ASSUME TreeInv, NEW p
  PROVE  IsFiniteSet(ZvolNodes(p)) /\ ZvolNodes(p) \subseteq NodeSet
<1>1. IsFiniteSet(Zvols(p))
  <2>1. Zvols(p) \subseteq DOMAIN vol
    BY DEF Zvols
  <2>. QED
    BY <2>1, FS_Subset DEF TreeInv
<1>. DEFINE f == [v \in Zvols(p) |-> <<v, 0>>]
<1>2. f \in Surjection(Zvols(p), ZvolNodes(p))
  BY DEF Surjection, ZvolNodes
<1>3. ZvolNodes(p) \subseteq NodeSet
  BY DEF ZvolNodes, NodeSet, Zvols, TreeInv
<1>. QED
  BY <1>1, <1>2, <1>3, FS_Surjection

LEMMA NodesFinite ==
  ASSUME TreeInv, NEW p \in Path
  PROVE  IsFiniteSet(Nodes(p)) /\ Nodes(p) \subseteq NodeSet
<1>. DEFINE A == Below(p) \cup {p}
            B == snap \cap Below(p)
            NA == {<<q, 0>> : q \in A}
            NB == {<<v, 1>> : v \in B}
<1>1. IsFiniteSet(A) /\ IsFiniteSet(B)
  <2>1. IsFiniteSet(DOMAIN fs \cup DOMAIN vol)
    BY FS_Union DEF TreeInv
  <2>2. Below(p) \in SUBSET (DOMAIN fs \cup DOMAIN vol) /\ B \in SUBSET (DOMAIN fs \cup DOMAIN vol)
    BY DEF Below
  <2>3. IsFiniteSet(Below(p)) /\ IsFiniteSet(B)
    BY <2>1, <2>2, FS_Subset
  <2>. QED
    BY <2>3, FS_AddElement
<1>. HIDE DEF A, B
<1>2. IsFiniteSet(NA)
  <2>1. [q \in A |-> <<q, 0>>] \in Surjection(A, NA)
    BY DEF Surjection
  <2>. QED
    BY <1>1, <2>1, FS_Surjection
<1>3. IsFiniteSet(NB)
  <2>1. [q \in B |-> <<q, 1>>] \in Surjection(B, NB)
    BY DEF Surjection
  <2>. QED
    BY <1>1, <2>1, FS_Surjection
<1>4. Nodes(p) = NA \cup NB
  BY DEF Nodes, A, B
<1>5. Nodes(p) \subseteq NodeSet
  BY DEF Nodes, NodeSet, Below, TreeInv
<1>. HIDE DEF NA, NB
<1>. QED
  BY <1>2, <1>3, <1>4, <1>5, FS_Union

LEMMA ReverseSeq ==
  ASSUME NEW S, NEW s \in Seq(S)
  PROVE  /\ Order(s) \in Seq(S) /\ Len(Order(s)) = Len(s)
         /\ \A i \in 1..Len(s) : Order(s)[i] = s[Len(s) - i + 1]
  BY DEF Order, Reverse

-----------------------------------------------------------------------------
(* What the steps leave alone in the datasets.                             *)

\* The data SR.create writes.
Same(f, g) == f.marker = g.marker /\ f.mnt = g.mnt /\ f.db = g.db /\ f.meta = g.meta

Writes == Mark \/ SetMountpoint \/ Mount \/ CreateDatabase \/ UpdateMeta

LEMMA FilesKept ==
  ASSUME TreeInv, TypeInv, Next, op.pc = "make" => op.ds \notin Taken
  PROVE  \A p \in DOMAIN fs \cap DOMAIN fs' :
            ~Writes \/ p # op.ds => FsOK(fs'[p]) /\ Same(fs'[p], fs[p])
<1>. DEFINE Kept(p) == ~Writes \/ p # op.ds => FsOK(fs'[p]) /\ Same(fs'[p], fs[p])
<1>. SUFFICES ASSUME NEW p \in DOMAIN fs, p \in DOMAIN fs' PROVE Kept(p)
  OBVIOUS
<1>0. FsOK(fs[p])
  BY DEF TypeInv
<1>1. fs'[p] = fs[p] => Kept(p)
  BY <1>0 DEF Same
<1>2. ASSUME NEW m \in BOOLEAN, fs'[p] = [fs[p] EXCEPT !.mounted = m] PROVE Kept(p)
  BY <1>0, <1>2 DEF FsOK, Same, Bare
<1>3. ASSUME NEW r, fs'[p] = [fs[p] EXCEPT !.rows = r] PROVE Kept(p)
  BY <1>0, <1>3 DEF FsOK, Same, Bare
<1>. HIDE DEF Kept
<1>4. ASSUME NEW u \in Uuids, NEW q \in Places, Create(u, q) PROVE Kept(p)
  BY <1>1, <1>4 DEF Create, pool
<1>5. ASSUME NEW u \in Uuids, NEW q \in Adoptable, Adopt(u, q) PROVE Kept(p)
  BY <1>1, <1>5 DEF Adopt, pool
<1>6. CASE Make
  <2>1. fs'[p] = fs[p]
    BY <1>6 DEF Make, With, At, Taken
  <2>. QED
    BY <1>1, <2>1
<1>7. CASE Writes
  <2>1. p # op.ds => fs'[p] = fs[p]
    BY <1>7 DEF Writes, Mark, SetMountpoint, Mount, CreateDatabase, UpdateMeta, Step
  <2>. QED
    BY <1>1, <1>7, <2>1 DEF Kept
<1>8. CASE ListZvols \/ AdoptEnd \/ Created \/ List \/ Destroyed \/ Fail
  BY <1>1, <1>8 DEF ListZvols, AdoptEnd, Created, List, Destroyed, Fail, pool
<1>9. CASE Register
  BY <1>1, <1>3, <1>9 DEF Register
<1>10. ASSUME NEW u \in Uuids, Attach(u) PROVE Kept(p)
  BY <1>1, <1>2, <1>10 DEF Attach, AttachMount
<1>11. ASSUME NEW u \in Uuids, Detach(u) PROVE Kept(p)
  BY <1>1, <1>2, <1>11 DEF Detach
<1>12. ASSUME NEW u \in Uuids, Destroy(u) PROVE Kept(p)
  BY <1>1, <1>12 DEF Destroy, pool
<1>13. ASSUME NEW u \in Uuids, NEW c \in Contents, Fill(u, c) PROVE Kept(p)
  BY <1>1, <1>3, <1>13 DEF Fill
<1>14. CASE Unmount
  BY <1>1, <1>2, <1>14 DEF Unmount
<1>15. CASE Erase \/ CliErase
  BY <1>1, <1>15 DEF Erase, CliErase, Vanish, pool
<1>16. CASE Reboot
  <2>1. fs'[p] = [fs[p] EXCEPT !.mounted = (fs[p].mnt # NoSr)]
    BY <1>16 DEF Reboot
  <2>. QED
    BY <1>2, <2>1
<1>. QED
  BY <1>4, <1>5, <1>6, <1>7, <1>8, <1>9, <1>10, <1>11, <1>12, <1>13, <1>14, <1>15, <1>16
     DEF Next, Writes

\* A create writes one datum of its dataset at a time.
Wrote(from, to, f) ==
    /\ op.pc = from /\ op' = [op EXCEPT !.pc = to]
    /\ FsOK(fs'[op.ds]) /\ Same(fs'[op.ds], f)

LEMMA WritesEffect ==
  ASSUME TypeInv, op.kind \in Makes, op.ds \in DOMAIN fs, Writes, op.sr \in Uuids
  PROVE  /\ DOMAIN fs' = DOMAIN fs /\ UNCHANGED <<vol, snap, xapi, unlisted, doomed>>
         /\ fs'[op.ds].rows = fs[op.ds].rows
         /\ \A p \in DOMAIN fs : p # op.ds => fs'[p] = fs[p]
         /\ \/ Wrote("mark", "point", [fs[op.ds] EXCEPT !.marker = op.sr])
            \/ Wrote("point", "mount", [fs[op.ds] EXCEPT !.mnt = op.sr])
            \/ Wrote("mount", "database", fs[op.ds])
            \/ Wrote("database", "meta", [fs[op.ds] EXCEPT !.db = TRUE])
            \/ op.kind = "create" /\ Wrote("meta", "return", [fs[op.ds] EXCEPT !.meta = {op.ds}])
            \/ op.kind = "adopt" /\ Wrote("meta", "list", [fs[op.ds] EXCEPT !.meta = {op.ds}])
<1>0. FsOK(fs[op.ds]) /\ op.sr \in Nat /\ op.sr \in Nums
  BY SrAssumption DEF TypeInv, Nums
<1>. USE DEF Step, Wrote, FsOK, Same, Bare, This, Goto
<1>1. /\ DOMAIN fs' = DOMAIN fs /\ UNCHANGED <<vol, snap, xapi, unlisted, doomed>>
      /\ \A p \in DOMAIN fs : p # op.ds => fs'[p] = fs[p]
  BY DEF Writes, Mark, SetMountpoint, Mount, CreateDatabase, UpdateMeta, History
<1>. DEFINE Goal == fs'[op.ds].rows = fs[op.ds].rows
<1>2. ASSUME Mark
      PROVE  Goal /\ Wrote("mark", "point", [fs[op.ds] EXCEPT !.marker = op.sr])
  BY <1>0, <1>2 DEF Mark
<1>3. ASSUME SetMountpoint
      PROVE  Goal /\ Wrote("point", "mount", [fs[op.ds] EXCEPT !.mnt = op.sr])
  <2>1. PICK m \in {This.mounted, TRUE} :
           Step("point", "mount", [This EXCEPT !.mnt = op.sr, !.mounted = m])
    BY <1>3 DEF SetMountpoint
  <2>2. m \in BOOLEAN
    BY <1>0
  <2>. QED
    BY <1>0, <2>1, <2>2
<1>4. ASSUME Mount PROVE Goal /\ Wrote("mount", "database", fs[op.ds])
  BY <1>0, <1>4 DEF Mount
<1>5. ASSUME CreateDatabase
      PROVE  Goal /\ Wrote("database", "meta", [fs[op.ds] EXCEPT !.db = TRUE])
  BY <1>0, <1>5 DEF CreateDatabase
<1>6. ASSUME UpdateMeta
      PROVE  /\ Goal
             /\ \/ op.kind = "create" /\ Wrote("meta", "return", [fs[op.ds] EXCEPT !.meta = {op.ds}])
                \/ op.kind = "adopt" /\ Wrote("meta", "list", [fs[op.ds] EXCEPT !.meta = {op.ds}])
  BY <1>0, <1>6 DEF UpdateMeta, MetaPath, Makes
<1>. HIDE DEF Wrote, Goal
<1>7. Goal
  BY <1>2, <1>3, <1>4, <1>5, <1>6 DEF Writes
<1>. QED
  BY <1>1, <1>2, <1>3, <1>4, <1>5, <1>6, <1>7 DEF Writes, Goal

LEMMA NewAreBare ==
  ASSUME TreeInv, TypeInv, Next,
         op.pc = "make" => op.ds \notin DOMAIN fs \cup DOMAIN vol /\ op.ds # Root
  PROVE  \A p \in DOMAIN fs' \ DOMAIN fs :
            /\ op.kind = "create" /\ op.pc = "make"
            /\ FsOK(fs'[p]) /\ Same(fs'[p], Bare)
            /\ \A q \in DOMAIN fs \cup DOMAIN vol : p \notin Above(q)
<1>1. ASSUME NEW p \in DOMAIN fs', p \notin DOMAIN fs PROVE Make
  <2>1. ~Keeps
    BY <1>1 DEF Keeps
  <2>2. ASSUME NEW u \in Uuids, NEW c \in Contents, Fill(u, c) PROVE FALSE
    BY <1>1, <2>2 DEF Fill
  <2>3. ASSUME NEW n, Erasing(n) PROVE FALSE
    BY <1>1, <2>3 DEF Erasing, Vanish
  <2>. QED
    BY <2>1, <2>2, <2>3, PoolSteps
<1>2. ASSUME NEW p \in DOMAIN fs', p \notin DOMAIN fs
      PROVE  /\ op.kind = "create" /\ op.pc = "make"
             /\ FsOK(fs'[p]) /\ Same(fs'[p], Bare)
  <2>1. Make /\ op.kind = "create" /\ op.pc = "make"
    BY <1>1, <1>2 DEF Make, At
  <2>2. PICK q, f : Making(q, f)
    BY <2>1, MakeEffect
  <2>. QED
    <3>1. /\ FsOK(f) /\ f.marker = NoSr /\ f.mnt = NoSr /\ f.meta = {} /\ ~f.db /\ fs'[p] = f
      BY <1>2, <2>2, NewFs
    <3>2. f.db = FALSE
      BY <3>1 DEF FsOK
    <3>. QED
      BY <2>1, <3>1, <3>2 DEF Same, Bare
<1>. QED
  BY <1>2 DEF TreeInv

-----------------------------------------------------------------------------
(* Type correctness.                                                       *)

\* The call in progress, and what xapi knows, keep their forms.
CallOK ==
    /\ op \in OpType
    /\ op.kind = "none" => op = NoCall
    /\ op.kind = "create" => op.pc \in MakePCs \cup {"make"}
    /\ op.kind = "adopt" => op.pc \in MakePCs \cup {"list", "register"}
    /\ op.kind = "destroy" => op.pc \in {"list", "unmount", "erase", "cli"}
    /\ op.pc = "erase" => op.todo # <<>>
XapiOK ==
    /\ used \subseteq Uuids
    /\ DOMAIN srs \subseteq used /\ DOMAIN attached \subseteq DOMAIN srs
    /\ \A u \in DOMAIN srs : srs[u] \in Path

LEMMA NoCallOK == NoCall \in OpType /\ NoCall.kind = "none" /\ NoCall.pc = "idle"
<1>1. Root \in Path /\ <<>> \in Seq(NodeSet)
  BY DEF Root, Path
<1>2. 0 \in 0..MaxTries
  BY SrAssumption
<1>. QED
  BY <1>1, <1>2 DEF NoCall, OpType, Nums

LEMMA CallStep ==
  ASSUME TreeInv, TypeInv, Next
  PROVE  CallOK'
<1>. CallOK
  BY DEF TypeInv, CallOK
<1>0. CASE op' = op
  BY <1>0 DEF CallOK
<1>1. CASE op' = NoCall
  BY <1>1, NoCallOK DEF CallOK
<1>2. ASSUME NEW u \in Uuids, NEW p \in Places, Create(u, p) PROVE CallOK'
  <2>1. u \in Nat /\ p \in Path
    BY SrAssumption DEF Path
  <2>2. Append(p, u) \in Path
    BY <2>1, AppendPath
  <2>. QED
    BY <1>2, <2>2, NoCallOK DEF Create, CallOK, NoCall, OpType, Nums
<1>3. ASSUME NEW u \in Uuids, NEW p \in Adoptable, Adopt(u, p) PROVE CallOK'
  <2>1. p \in Path
    BY SrAssumption DEF Path
  <2>. QED
    BY <1>3, <2>1, NoCallOK DEF Adopt, CallOK, NoCall, OpType, Nums, MakePCs
<1>4. CASE Make
  <2>1. op' = op \/ (op.kind = "create" /\ op' = [op EXCEPT !.pc = "mark"])
    BY <1>4 DEF Make, At, Goto
  <2>2. ASSUME op.kind = "create" /\ op' = [op EXCEPT !.pc = "mark"] PROVE CallOK'
    BY <2>2 DEF CallOK, OpType, MakePCs
  <2>. QED
    BY <1>0, <2>1, <2>2
<1>5. CASE Mark \/ SetMountpoint \/ Mount \/ CreateDatabase
  <2>1. /\ op.kind \in Makes
        /\ \E pc \in {"point", "mount", "database", "meta"} : op' = [op EXCEPT !.pc = pc]
    BY <1>5 DEF Mark, SetMountpoint, Mount, CreateDatabase, Step, Goto, Makes
  <2>. QED
    BY <2>1 DEF CallOK, OpType, MakePCs, Makes
<1>6. CASE UpdateMeta
  <2>1. \/ op.kind = "create" /\ op' = [op EXCEPT !.pc = "return"]
        \/ op.kind = "adopt" /\ op' = [op EXCEPT !.pc = "list"]
    BY <1>6 DEF UpdateMeta, Step, Goto
  <2>. QED
    BY <2>1 DEF CallOK, OpType, MakePCs
<1>7. CASE ListZvols
  <2>1. /\ op.kind = "adopt"
        /\ \/ op' = [op EXCEPT !.pc = "register"]
           \/ \E s \in Listings(ZvolNodes(op.ds)) : op' = [op EXCEPT !.pc = "register", !.todo = s]
    BY <1>7 DEF ListZvols, At, Goto, ZvolNodes
  <2>2. ASSUME NEW s \in Listings(ZvolNodes(op.ds)) PROVE s \in Seq(NodeSet)
    <3>1. s \in Seq(ZvolNodes(op.ds)) /\ ZvolNodes(op.ds) \subseteq NodeSet
      BY ZvolNodesFinite, ListingSeq
    <3>. QED
      BY <3>1
  <2>. QED
    BY <2>1, <2>2 DEF CallOK, OpType
<1>8. CASE Register
  <2>1. /\ op.kind = "adopt" /\ op.pc = "register" /\ op.todo # <<>>
        /\ \/ op' = [op EXCEPT !.todo = Tail(@)]
           \/ op' = [op EXCEPT !.todo = Tail(@), !.failed = TRUE]
    BY <1>8 DEF Register, At
  <2>2. op.todo \in Seq(NodeSet) /\ Tail(op.todo) \in Seq(NodeSet)
    BY <2>1 DEF CallOK, OpType
  <2>. QED
    BY <2>1, <2>2 DEF CallOK, OpType
<1>9. CASE AdoptEnd
  <2>1. op' = NoCall \/ (op.kind = "adopt" /\ op' = [op EXCEPT !.pc = "return"])
    BY <1>9 DEF AdoptEnd, AdoptOutcome, Goto, At
  <2>2. ASSUME op.kind = "adopt" /\ op' = [op EXCEPT !.pc = "return"] PROVE CallOK'
    BY <2>2 DEF CallOK, OpType, MakePCs
  <2>. QED
    BY <1>1, <2>1, <2>2
<1>10. CASE Created \/ Destroyed \/ Fail \/ Reboot
  BY <1>1, <1>10 DEF Created, Destroyed, Fail, Reboot
<1>11. ASSUME NEW u \in Uuids, Attach(u) \/ Detach(u) PROVE CallOK'
  BY <1>0, <1>11 DEF Attach, Detach
<1>12. ASSUME NEW u \in Uuids, NEW c \in Contents, Fill(u, c) PROVE CallOK'
  BY <1>0, <1>12 DEF Fill
<1>13. ASSUME NEW u \in Uuids, Destroy(u) PROVE CallOK'
  <2>1. PICK p \in DOMAIN fs : op' = [NoCall EXCEPT !.kind = "destroy", !.sr = u, !.ds = p,
                                        !.pc = IF lzc THEN "list" ELSE "cli"]
    BY <1>13 DEF Destroy
  <2>2. p \in Path
    BY DEF TreeInv
  <2>3. \E pc \in {"list", "cli"} : op' = [NoCall EXCEPT !.kind = "destroy", !.sr = u, !.ds = p,
                                                          !.pc = pc]
    BY <2>1
  <2>. QED
    BY <2>2, <2>3, NoCallOK DEF CallOK, NoCall, OpType, Nums
<1>14. CASE List
  <2>1. PICK s \in Listings(Nodes(op.ds)) :
           op.kind = "destroy" /\ op' = [op EXCEPT !.pc = "unmount", !.todo = Order(s)]
    BY <1>14 DEF List, At
  <2>2. Order(s) \in Seq(NodeSet)
    <3>1. op.ds \in Path
      BY DEF CallOK, OpType
    <3>2. s \in Seq(Nodes(op.ds)) /\ Nodes(op.ds) \subseteq NodeSet
      BY <3>1, NodesFinite, ListingSeq
    <3>3. s \in Seq(NodeSet)
      BY <3>2
    <3>. QED
      BY <3>3, ReverseSeq
  <2>. QED
    BY <2>1, <2>2 DEF CallOK, OpType
<1>15. CASE Unmount
  <2>1. /\ op.kind = "destroy" /\ op.todo # <<>>
        /\ op' = [op EXCEPT !.pc = "erase", !.tries = 1]
    BY <1>15 DEF Unmount, At
  <2>2. 1 \in 0..MaxTries
    BY SrAssumption
  <2>. QED
    BY <2>1, <2>2 DEF CallOK, OpType
<1>16. CASE Erase
  <2>1. /\ op.kind = "destroy" /\ op.pc = "erase"
        /\ \/ op' = [op EXCEPT !.pc = "unmount", !.todo = Tail(@), !.tries = 0]
           \/ op' = NoCall
           \/ op.tries < MaxTries /\ op' = [op EXCEPT !.tries = @ + 1]
    BY <1>16 DEF Erase, At
  <2>2. ASSUME op' = [op EXCEPT !.pc = "unmount", !.todo = Tail(@), !.tries = 0] PROVE CallOK'
    <3>1. Tail(op.todo) \in Seq(NodeSet) /\ 0 \in 0..MaxTries
      BY <2>1, SrAssumption DEF CallOK, OpType
    <3>. QED
      BY <2>1, <2>2, <3>1 DEF CallOK, OpType
  <2>3. ASSUME op.tries < MaxTries, op' = [op EXCEPT !.tries = @ + 1] PROVE CallOK'
    <3>1. op.tries + 1 \in 0..MaxTries
      BY <2>3, SrAssumption DEF CallOK, OpType
    <3>. QED
      BY <2>1, <2>3, <3>1 DEF CallOK, OpType
  <2>. QED
    BY <1>1, <2>1, <2>2, <2>3
<1>17. CASE CliErase
  BY <1>0, <1>17 DEF CliErase
<1>. QED
  BY <1>2, <1>3, <1>4, <1>5, <1>6, <1>7, <1>8, <1>9, <1>10, <1>11, <1>12, <1>13, <1>14,
     <1>15, <1>16, <1>17 DEF Next

LEMMA XapiStep ==
  ASSUME TypeInv, StageInv, Next
  PROVE  XapiOK' /\ used \subseteq used'
<1>. XapiOK
  BY DEF TypeInv, XapiOK
<1>0. CASE UNCHANGED xapi
  BY <1>0 DEF XapiOK, xapi
<1>1. ASSUME NEW u \in Uuids, used' = used \cup {u}, UNCHANGED <<srs, attached>>
      PROVE  XapiOK' /\ used \subseteq used'
  BY <1>1 DEF XapiOK
<1>2. ASSUME NEW u \in Uuids, \/ \E p \in Places : Create(u, p)
                              \/ \E p \in Adoptable : Adopt(u, p)
      PROVE  XapiOK' /\ used \subseteq used'
  BY <1>1, <1>2 DEF Create, Adopt
<1>3. CASE Make \/ Writes
  BY <1>0, <1>3
     DEF Make, Writes, Mark, SetMountpoint, Mount, CreateDatabase, UpdateMeta, Step, xapi
<1>4. CASE ListZvols \/ Register \/ AdoptEnd \/ List \/ Unmount \/ Erase \/ CliErase \/ Fail
  BY <1>0, <1>4 DEF ListZvols, Register, AdoptEnd, List, Unmount, Erase, CliErase, Fail, xapi
<1>5. CASE Created
  <2>1. op.sr \in used /\ op.ds \in Path
    BY <1>5 DEF Created, Makes, StageInv, TypeInv, OpType
  <2>. QED
    BY <1>5, <2>1 DEF Created, XapiOK
<1>6. ASSUME NEW u \in Uuids, Attach(u) PROVE XapiOK' /\ used \subseteq used'
  BY <1>6 DEF Attach, XapiOK
<1>7. ASSUME NEW u \in Uuids, Detach(u) PROVE XapiOK' /\ used \subseteq used'
  BY <1>7 DEF Detach, Without, XapiOK
<1>8. ASSUME NEW u \in Uuids, Destroy(u) \/ \E c \in Contents : Fill(u, c)
      PROVE  XapiOK' /\ used \subseteq used'
  BY <1>0, <1>8 DEF Destroy, Fill, xapi
<1>9. CASE Destroyed
  BY <1>9 DEF Destroyed, Without, XapiOK
<1>10. CASE Reboot
  BY <1>10 DEF Reboot, XapiOK
<1>. QED
  BY <1>2, <1>3, <1>4, <1>5, <1>6, <1>7, <1>8, <1>9, <1>10 DEF Next, Writes

LEMMA MakePC ==
  ASSUME TypeInv, op.pc = "make"
  PROVE  op.kind = "create"
BY DEF TypeInv, MakePCs, NoCall, OpType

LEMMA TypeStep ==
  ASSUME TreeInv, TypeInv, StageInv, Next
  PROVE  TypeInv'
<1>1. CallOK' /\ XapiOK' /\ used \subseteq used'
  BY CallStep, XapiStep
<1>2. op.pc = "make" => op.ds \notin Taken /\ op.ds # Root
  BY MakePC DEF StageInv, Makes
<1>3. ASSUME NEW p \in DOMAIN fs'
      PROVE  /\ FsOK(fs'[p]) /\ fs'[p].meta \subseteq {p}
             /\ fs'[p].mnt \in used' \cup {NoSr}
             /\ fs'[p].meta # {} => fs'[p].mnt # NoSr
  <2>1. CASE p \notin DOMAIN fs
    <3>1. FsOK(fs'[p]) /\ Same(fs'[p], Bare)
      BY <1>2, <2>1, <1>3, NewAreBare DEF Taken
    <3>. QED
      BY <3>1 DEF Same, Bare
  <2>2. CASE p \in DOMAIN fs /\ (~Writes \/ p # op.ds)
    <3>1. FsOK(fs'[p]) /\ Same(fs'[p], fs[p])
      BY <1>2, <1>3, <2>2, FilesKept
    <3>. QED
      BY <1>1, <2>2, <3>1 DEF Same, TypeInv
  <2>3. CASE p \in DOMAIN fs /\ Writes /\ p = op.ds
    <3>1. op.kind \in Makes /\ op.sr \in used /\ op.sr \in Uuids /\ op.sr # NoSr
      <4>1. op.kind \in Makes
        BY <2>3 DEF Writes, Mark, SetMountpoint, Mount, CreateDatabase, UpdateMeta, Step, Makes
      <4>. QED
        BY <4>1, SrAssumption DEF StageInv, TypeInv, NoSr
    <3>2. op.pc \notin {"make", "mark", "point"} => fs[op.ds].mnt = op.sr
      BY <3>1 DEF StageInv
    <3>3. /\ FsOK(fs[p]) /\ fs[p].meta \subseteq {p} /\ fs[p].mnt \in used \cup {NoSr}
          /\ fs[p].meta # {} => fs[p].mnt # NoSr
      BY <2>3 DEF TypeInv
    <3>. DEFINE r == fs[op.ds]
                g == fs'[op.ds]
    <3>4. /\ FsOK(g)
          /\ \/ op.pc = "mark" /\ Same(g, [r EXCEPT !.marker = op.sr])
             \/ op.pc = "point" /\ Same(g, [r EXCEPT !.mnt = op.sr])
             \/ op.pc = "mount" /\ Same(g, r)
             \/ op.pc = "database" /\ Same(g, [r EXCEPT !.db = TRUE])
             \/ op.pc = "meta" /\ Same(g, [r EXCEPT !.meta = {op.ds}])
      BY <2>3, <3>1, WritesEffect DEF Wrote
    <3>5. /\ g.mnt = IF op.pc = "point" THEN op.sr ELSE r.mnt
          /\ g.meta = IF op.pc = "meta" THEN {op.ds} ELSE r.meta
      BY <2>3, <3>3, <3>4 DEF Same, FsOK, Bare
    <3>. QED
      BY <1>1, <2>3, <3>1, <3>2, <3>3, <3>4, <3>5
  <2>. QED
    BY <2>1, <2>2, <2>3
<1>. QED
  BY <1>1, <1>3 DEF CallOK, XapiOK, TypeInv

-----------------------------------------------------------------------------
(* Markers: SRs do not nest.                                               *)

\* The nearest marker is the only one on a path, the pool root's apart.
LEMMA MarkerNearest ==
  ASSUME TreeInv, NoNesting, NEW p \in Path, NEW h \in {p} \cup Above(p),
         h \in DOMAIN fs, fs[h].marker # NoSr, h # Root
  PROVE  Marker(p) = fs[h].marker
<1>. DEFINE holders == {q \in {p} \cup Above(p) : q \in DOMAIN fs /\ fs[q].marker # NoSr}
<1>1. h \in holders /\ h \in Path /\ Len(h) \in Nat /\ Len(h) > 0
  <2>1. h \in Path
    BY AboveStrict
  <2>2. Len(h) \in Nat /\ Len(h) > 0
    BY <2>1 DEF Path, Root
  <2>. QED
    BY <2>1, <2>2
<1>2. ASSUME NEW r \in holders PROVE r = h \/ (r = Root /\ Len(r) = 0)
  <2>1. r \in DOMAIN fs /\ fs[r].marker # NoSr
    OBVIOUS
  <2>2. r = h \/ r \in Above(h) \/ h \in Above(r)
    BY AboveLinear
  <2>3. r = h \/ r = Root
    BY <2>1, <2>2 DEF NoNesting
  <2>. QED
    BY <2>3 DEF Root
<1>3. \A r \in holders : Len(r) <= Len(h)
  BY <1>1, <1>2
<1>. DEFINE x == CHOOSE q \in holders : \A r \in holders : Len(r) <= Len(q)
<1>4. x \in holders /\ Len(h) <= Len(x)
  BY <1>1, <1>3
<1>. HIDE DEF x, holders
<1>5. x = h
  BY <1>1, <1>2, <1>4
<1>6. Marker(p) = fs[x].marker
  BY <1>1 DEF Marker, x, holders
<1>. QED
  BY <1>5, <1>6

LEMMA MarkedIsSr ==
  ASSUME TreeInv, NoNesting, NEW p \in DOMAIN fs, fs[p].marker # NoSr
  PROVE  IsSr(p) /\ Marker(p) = fs[p].marker
<1>1. p \in Path
  BY DEF TreeInv
<1>2. CASE p # Root
  BY <1>1, <1>2, MarkerNearest DEF IsSr
<1>3. CASE p = Root
  <2>. DEFINE holders == {q \in {p} \cup Above(p) : q \in DOMAIN fs /\ fs[q].marker # NoSr}
  <2>1. holders = {p}
    BY <1>3, AboveRoot
  <2>2. Len(p) <= Len(p)
    BY <1>1, PathLen
  <2>. DEFINE x == CHOOSE q \in holders : \A r \in holders : Len(r) <= Len(q)
  <2>3. x \in holders
    BY <2>1, <2>2
  <2>4. Marker(p) = fs[x].marker
    BY <2>1 DEF Marker
  <2>. QED
    BY <2>1, <2>3, <2>4 DEF IsSr
<1>. QED
  BY <1>2, <1>3

\* What create's checks make sure of.
LEMMA AcceptsClear ==
  ASSUME TreeInv, NoNesting, NEW p, NEW u, Accepts(p, u)
  PROVE  Clear(Append(p, u)) /\ Append(p, u) \notin Taken
<1>. DEFINE ds == Append(p, u)
<1>1. ds \notin Taken /\ ~Nested(ds)
  BY DEF Accepts
<1>. HIDE DEF ds
<1>2. ASSUME NEW q \in DOMAIN fs, q \in Parents(ds) \/ ds \in Above(q), fs[q].marker # NoSr
      PROVE  FALSE
  <2>1. IsSr(q)
    BY <1>2, MarkedIsSr
  <2>2. ds \in Above(q) => q \in ChildSrs(ds)
    BY <2>1 DEF ChildSrs, Below
  <2>. QED
    BY <1>1, <1>2, <2>1, <2>2 DEF Nested
<1>3. Clear(ds)
  BY <1>2 DEF Clear
<1>. QED
  BY <1>1, <1>3 DEF ds

LEMMA WritesMakes ==
  ASSUME TypeInv, StageInv, Writes
  PROVE  /\ op.kind \in Makes /\ op.ds \in DOMAIN fs
         /\ op.sr \in used /\ op.sr \in Uuids /\ op.sr # NoSr
<1>1. op.kind \in Makes /\ op.pc # "make"
  BY DEF Writes, Mark, SetMountpoint, Mount, CreateDatabase, UpdateMeta, Step, Makes
<1>. QED
  BY <1>1, SrAssumption DEF StageInv, TypeInv, NoSr

LEMMA NestingStep ==
  ASSUME TreeInv, TypeInv, StageInv, NoNesting, Next
  PROVE  NoNesting'
<1>. SUFFICES ASSUME NEW p \in DOMAIN fs', NEW q \in DOMAIN fs', p # Root, p \in Above(q)
              PROVE  fs'[p].marker = NoSr \/ fs'[q].marker = NoSr
  BY DEF NoNesting
<1>0. op.pc = "make" => op.ds \notin Taken /\ op.ds # Root
  BY MakePC DEF StageInv, Makes
<1>1. CASE p \notin DOMAIN fs \/ q \notin DOMAIN fs
  <2>1. ASSUME NEW r \in DOMAIN fs', r \notin DOMAIN fs PROVE fs'[r].marker = NoSr
    <3>1. Same(fs'[r], Bare)
      BY <1>0, <2>1, NewAreBare DEF Taken
    <3>. QED
      BY <3>1 DEF Same, Bare
  <2>. QED
    BY <1>1, <2>1
<1>2. ASSUME NEW r \in DOMAIN fs, r \in DOMAIN fs', ~Writes \/ op.pc # "mark" \/ r # op.ds
      PROVE  fs'[r].marker = fs[r].marker
  <2>1. CASE ~Writes \/ r # op.ds
    BY <1>0, <1>2, <2>1, FilesKept DEF Same
  <2>2. CASE Writes /\ op.pc # "mark" /\ r = op.ds
    <3>1. FsOK(fs[r])
      BY DEF TypeInv
    <3>. QED
      BY <2>2, <3>1, WritesMakes, WritesEffect DEF Wrote, Same, FsOK, Bare
  <2>. QED
    BY <1>2, <2>1, <2>2
<1>3. CASE p \in DOMAIN fs /\ q \in DOMAIN fs /\ Writes /\ op.pc = "mark" /\ op.ds \in {p, q}
  <2>0. op.kind \in Makes
    BY <1>3, WritesMakes
  <2>1. CASE op.kind = "create"
    <3>1. Clear(op.ds)
      BY <1>3, <2>0, <2>1 DEF StageInv
    <3>2. p # q
      BY <1>3, AboveStrict DEF TreeInv
    <3>3. fs[IF op.ds = p THEN q ELSE p].marker = NoSr
      BY <1>3, <3>1 DEF Clear, Parents
    <3>. QED
      BY <1>2, <1>3, <3>2, <3>3
  <2>2. CASE op.kind = "adopt"
    <3>1. p # q /\ q # Root
      BY <1>3, AboveStrict, AboveRoot DEF TreeInv
    <3>2. op.ds # Root
      BY <1>3, <3>1
    <3>3. fs[op.ds].marker # NoSr
      BY <1>3, <2>0, <2>2, <3>2 DEF StageInv
    <3>. QED
      BY <1>2, <1>3, <3>1, <3>3 DEF NoNesting
  <2>. QED
    BY <2>0, <2>1, <2>2 DEF Makes
<1>4. CASE p \in DOMAIN fs /\ q \in DOMAIN fs /\ (~Writes \/ op.pc # "mark" \/ op.ds \notin {p, q})
  <2>1. fs'[p].marker = fs[p].marker /\ fs'[q].marker = fs[q].marker
    BY <1>2, <1>4
  <2>. QED
    BY <1>4, <2>1 DEF NoNesting
<1>. QED
  BY <1>1, <1>3, <1>4

-----------------------------------------------------------------------------
(* Creates.                                                                *)

LEMMA MakesSteps ==
  ASSUME TypeInv, Next, op'.kind \in Makes
  PROVE  \/ \E u \in Uuids, p \in Places : Create(u, p)
         \/ \E u \in Uuids, p \in Adoptable : Adopt(u, p)
         \/ Make \/ Writes \/ ListZvols \/ Register \/ AdoptEnd
<1>1. op'.kind # "none" /\ op'.kind # "destroy" /\ op' # NoCall
  BY DEF Makes, NoCall
<1>2. ~(Created \/ Destroyed \/ Fail \/ Reboot)
  BY <1>1 DEF Created, Destroyed, Fail, Reboot
<1>3. \A u \in Uuids : ~(Attach(u) \/ Detach(u) \/ \E c \in Contents : Fill(u, c))
  BY <1>1 DEF Attach, Detach, Fill
<1>4. \A u \in Uuids : ~Destroy(u)
  BY <1>1 DEF Destroy, NoCall
<1>5. ~(List \/ Unmount \/ Erase \/ CliErase)
  <2>1. op.kind = "destroy" => op \in OpType
    BY DEF TypeInv
  <2>. QED
    BY <1>1, <2>1 DEF List, Unmount, Erase, CliErase, At, OpType
<1>. QED
  BY <1>2, <1>3, <1>4, <1>5 DEF Next, Writes

\* Nothing lies below a dataset that is not there.
LEMMA NothingBelow ==
  ASSUME TreeInv, NEW p, p \notin DOMAIN fs
  PROVE  Below(p) = {} /\ Zvols(p) = {}
<1>1. Below(p) = {}
  BY DEF Below, TreeInv
<1>2. ASSUME NEW v \in Zvols(p) PROVE FALSE
  <2>1. v \in DOMAIN vol /\ v \in Path /\ v # Root /\ Front(v) = p
    BY <1>2 DEF Zvols, TreeInv
  <2>. QED
    BY <2>1, FrontAbove DEF TreeInv
<1>. QED
  BY <1>1, <1>2

LEMMA NewCreate ==
  ASSUME TreeInv, TypeInv, NoNesting, SrsInv,
         NEW u \in Uuids, NEW p \in Places, Create(u, p)
  PROVE  StageInv'
<1>. DEFINE ds == Append(p, u)
<1>1. u \in Nat /\ u # NoSr /\ p \in Path /\ u \notin used
  BY SrAssumption DEF Create, Path, NoSr
<1>2. ds \in Path /\ ds # Root /\ Last(ds) = u
  BY <1>1, AppendPath
<1>3. Clear(ds) /\ ds \notin Taken
  BY AcceptsClear DEF Create
<1>4. ASSUME NEW w \in DOMAIN srs, srs[w] = ds PROVE FALSE
  <2>1. srs[w] \in Adoptable \/ Last(srs[w]) = w
    BY DEF SrsInv
  <2>2. w \in used
    BY DEF TypeInv
  <2>3. ds \in Adoptable
    BY <1>1, <1>2, <1>4, <2>1, <2>2
  <2>4. Len(ds) \in DOMAIN ds /\ ds[Len(ds)] = u
    BY <1>2 DEF Last, Root, Path
  <2>. QED
    BY <2>3, <2>4, SrAssumption
<1>5. \A q \in DOMAIN fs : fs[q].mnt # u
  BY <1>1 DEF TypeInv
<1>6. \A v \in DOMAIN vol : ds \notin Above(v)
  BY <1>3 DEF TreeInv, Taken
<1>. HIDE DEF ds
<1>7. /\ UNCHANGED <<fs, vol, srs>> /\ used' = used \cup {u}
      /\ op' = [NoCall EXCEPT !.kind = "create", !.pc = "make", !.sr = u, !.ds = ds]
  BY DEF Create, pool, ds
<1>8. op'.kind = "create" /\ op'.pc = "make" /\ op'.sr = u /\ op'.ds = ds
  BY <1>7 DEF NoCall
<1>9. Taken' = Taken /\ Clear(ds)'
  BY <1>3, <1>7 DEF Taken, Clear
<1>10. u \in used' \ DOMAIN srs'
  BY <1>1, <1>7 DEF TypeInv
<1>. QED
  BY <1>2, <1>3, <1>4, <1>5, <1>6, <1>7, <1>8, <1>9, <1>10 DEF StageInv, Clear

LEMMA NewAdopt ==
  ASSUME TreeInv, TypeInv, NEW u \in Uuids, NEW p \in Adoptable, Adopt(u, p)
  PROVE  StageInv'
<1>1. /\ u \notin used /\ p \in DOMAIN fs /\ (p = Root \/ fs[p].marker # NoSr)
      /\ \A s \in DOMAIN srs : ~Related(p, srs[s])
      /\ UNCHANGED <<fs, vol, srs>> /\ used' = used \cup {u}
      /\ op' = [NoCall EXCEPT !.kind = "adopt", !.pc = "mark", !.sr = u, !.ds = p]
  BY DEF Adopt, pool
<1>2. op'.kind = "adopt" /\ op'.pc = "mark" /\ op'.sr = u /\ op'.ds = p
  BY <1>1 DEF NoCall
<1>3. \A q \in DOMAIN fs : fs[q].mnt # u
  BY <1>1, SrAssumption DEF TypeInv, NoSr
<1>4. u \in used' \ DOMAIN srs'
  BY <1>1 DEF TypeInv
<1>5. \A s \in DOMAIN srs : srs[s] # p
  BY <1>1 DEF Related
<1>. QED
  BY <1>1, <1>2, <1>3, <1>4, <1>5 DEF StageInv

LEMMA MakeStage ==
  ASSUME TreeInv, TypeInv, StageInv, Make
  PROVE  StageInv'
<1>1. op.kind = "create" /\ op.pc = "make" /\ op.kind \in Makes
  BY DEF Make, At, Makes
<1>2. /\ op.sr \in used \ DOMAIN srs
      /\ \A u \in DOMAIN srs : srs[u] # op.ds
      /\ \A p \in DOMAIN fs : fs[p].mnt = op.sr => p = op.ds
      /\ op.ds \notin Taken /\ op.ds # Root /\ Last(op.ds) = op.sr
      /\ \A v \in DOMAIN vol : op.ds \notin Above(v)
      /\ Clear(op.ds)
  BY <1>1 DEF StageInv
<1>3. PICK q, f :
         /\ Making(q, f)
         /\ \/ q = op.ds /\ op' = [op EXCEPT !.pc = "mark"]
            \/ q \in Parents(op.ds) /\ f = Bare /\ UNCHANGED op
  BY <1>2, MakeEffect DEF Taken
<1>4. /\ f.marker = NoSr /\ f.mnt = NoSr
      /\ DOMAIN fs' = DOMAIN fs \cup {q} /\ fs'[q] = f
      /\ \A p \in DOMAIN fs : p # q /\ fs'[p] = fs[p]
  BY <1>3, NewFs
<1>5. op.sr # NoSr
  BY <1>2, SrAssumption DEF TypeInv, NoSr
<1>6. UNCHANGED <<vol, used, srs>>
  BY DEF Make, xapi
<1>7. Clear(op.ds)'
  <2>1. op'.ds = op.ds
    BY <1>3 DEF TypeInv, OpType
  <2>. QED
    BY <1>2, <1>4, <2>1 DEF Clear, Parents
<1>8. \A p \in DOMAIN fs' : fs'[p].mnt = op.sr => p = op.ds
  BY <1>2, <1>4, <1>5
<1>9. CASE q = op.ds /\ op' = [op EXCEPT !.pc = "mark"]
  <2>1. op'.kind = "create" /\ op'.pc = "mark" /\ op'.sr = op.sr /\ op'.ds = op.ds
    BY <1>1, <1>9 DEF TypeInv, OpType
  <2>. QED
    BY <1>2, <1>4, <1>6, <1>7, <1>8, <1>9, <2>1 DEF StageInv
<1>10. CASE q \in Parents(op.ds) /\ UNCHANGED op
  <2>1. q # op.ds
    BY <1>10, AboveStrict DEF Parents, TypeInv, OpType
  <2>2. (op.ds \notin Taken)'
    BY <1>2, <1>4, <1>6, <1>10, <2>1 DEF Taken
  <2>. QED
    BY <1>1, <1>2, <1>6, <1>7, <1>8, <1>10, <2>2 DEF StageInv
<1>. QED
  BY <1>3, <1>9, <1>10

LEMMA WritesStage ==
  ASSUME TypeInv, StageInv, Writes
  PROVE  StageInv'
<1>. DEFINE r == fs[op.ds]
            g == fs'[op.ds]
<1>1. /\ op.kind \in Makes /\ op.ds \in DOMAIN fs
      /\ op.sr \in used /\ op.sr \in Uuids /\ op.sr # NoSr
  BY WritesMakes
<1>2. /\ op.sr \notin DOMAIN srs
      /\ \A u \in DOMAIN srs : srs[u] # op.ds
      /\ \A p \in DOMAIN fs : fs[p].mnt = op.sr => p = op.ds
      /\ op.kind = "create" => /\ op.ds # Root /\ Last(op.ds) = op.sr
                               /\ \A v \in DOMAIN vol : op.ds \notin Above(v)
      /\ op.kind = "adopt" => op.ds \in Adoptable
      /\ op.pc \notin {"make", "mark"} => r.marker = op.sr
      /\ op.pc \notin {"make", "mark", "point"} => r.mnt = op.sr
      /\ op.pc \in {"meta", "list", "register", "return"} => r.db
  BY <1>1 DEF StageInv
<1>3. /\ DOMAIN fs' = DOMAIN fs /\ UNCHANGED <<vol, srs, used>>
      /\ \A p \in DOMAIN fs : p # op.ds => fs'[p] = fs[p]
  BY <1>1, WritesEffect DEF xapi
<1>4. PICK pc \in {"point", "mount", "database", "meta", "return", "list"} :
        /\ op' = [op EXCEPT !.pc = pc] /\ FsOK(g)
        /\ \/ op.pc = "mark" /\ pc = "point" /\ Same(g, [r EXCEPT !.marker = op.sr])
           \/ op.pc = "point" /\ pc = "mount" /\ Same(g, [r EXCEPT !.mnt = op.sr])
           \/ op.pc = "mount" /\ pc = "database" /\ Same(g, r)
           \/ op.pc = "database" /\ pc = "meta" /\ Same(g, [r EXCEPT !.db = TRUE])
           \/ op.pc = "meta" /\ pc \in {"return", "list"} /\ Same(g, [r EXCEPT !.meta = {op.ds}])
  BY <1>1, WritesEffect DEF Wrote
<1>5. FsOK(r)
  BY <1>1 DEF TypeInv
<1>6. /\ op'.kind = op.kind /\ op'.pc = pc /\ op'.sr = op.sr /\ op'.ds = op.ds
  BY <1>4 DEF TypeInv, OpType
<1>. HIDE DEF r, g
<1>7. /\ g.marker = op.sr
      /\ pc # "point" => g.mnt = op.sr
      /\ pc \in {"meta", "list", "return"} => g.db
      /\ pc \in {"list", "return"} => g.meta = {op.ds}
  BY <1>2, <1>4, <1>5 DEF Same, FsOK, Bare
<1>8. pc \notin {"make", "mark", "register"}
  BY <1>4
<1>9. \A p \in DOMAIN fs' : fs'[p].mnt = op.sr => p = op.ds
  BY <1>2, <1>3
<1>. QED
  BY <1>1, <1>2, <1>3, <1>6, <1>7, <1>8, <1>9 DEF StageInv, g

\* Listing and registering change the rows and nothing else.
LEMMA TailStage ==
  ASSUME TypeInv, StageInv, ListZvols \/ Register \/ AdoptEnd
  PROVE  StageInv'
<1>. DEFINE Rowed(f, g) == FsOK(g) /\ Same(g, f)
<1>1. /\ op.kind = "adopt" /\ op.kind \in Makes /\ op.pc \in {"list", "register"}
      /\ UNCHANGED <<vol, srs, used>>
  BY DEF ListZvols, Register, AdoptEnd, At, Makes, pool, xapi
<1>2. /\ op.ds \in DOMAIN fs /\ op.sr \in used \ DOMAIN srs
      /\ \A u \in DOMAIN srs : srs[u] # op.ds
      /\ \A p \in DOMAIN fs : fs[p].mnt = op.sr => p = op.ds
      /\ op.ds \in Adoptable
      /\ fs[op.ds].marker = op.sr /\ fs[op.ds].mnt = op.sr /\ fs[op.ds].db
      /\ fs[op.ds].meta = {op.ds}
  BY <1>1 DEF StageInv
<1>3. DOMAIN fs' = DOMAIN fs /\ \A p \in DOMAIN fs : Rowed(fs[p], fs'[p])
  <2>1. \A p \in DOMAIN fs : FsOK(fs[p])
    BY DEF TypeInv
  <2>2. CASE fs' = fs
    BY <2>1, <2>2 DEF Same
  <2>3. ASSUME NEW x, fs' = [fs EXCEPT ![op.ds].rows = x]
        PROVE  DOMAIN fs' = DOMAIN fs /\ \A p \in DOMAIN fs : Rowed(fs[p], fs'[p])
    <3>1. ASSUME NEW p \in DOMAIN fs
          PROVE  fs'[p] = IF p = op.ds THEN [fs[p] EXCEPT !.rows = x] ELSE fs[p]
      BY <2>3
    <3>. QED
      BY <2>1, <2>3, <3>1 DEF Same, FsOK, Bare
  <2>4. fs' = fs \/ \E x : fs' = [fs EXCEPT ![op.ds].rows = x]
    BY DEF ListZvols, Register, AdoptEnd, pool
  <2>. QED
    BY <2>2, <2>3, <2>4
<1>4. \/ op' = NoCall
      \/ /\ op'.kind = "adopt" /\ op'.pc \in {"register", "return"}
         /\ op'.sr = op.sr /\ op'.ds = op.ds
  BY <1>1 DEF ListZvols, Register, AdoptEnd, AdoptOutcome, Goto, At, TypeInv, OpType
<1>5. CASE op' = NoCall
  BY <1>5 DEF StageInv, Makes, NoCall
<1>6. ASSUME NEW p \in DOMAIN fs
      PROVE  /\ fs'[p].marker = fs[p].marker /\ fs'[p].mnt = fs[p].mnt
             /\ fs'[p].db = fs[p].db /\ fs'[p].meta = fs[p].meta
  BY <1>3 DEF Same
<1>. HIDE DEF Rowed
<1>. QED
  BY <1>1, <1>2, <1>3, <1>4, <1>5, <1>6 DEF StageInv

LEMMA StageStep ==
  ASSUME TreeInv, TypeInv, StageInv, NoNesting, SrsInv, Next
  PROVE  StageInv'
<1>1. CASE op'.kind \notin Makes
  BY <1>1 DEF StageInv
<1>2. CASE op'.kind \in Makes
  BY <1>2, MakesSteps, NewCreate, NewAdopt, MakeStage, WritesStage, TailStage
<1>. QED
  BY <1>1, <1>2

-----------------------------------------------------------------------------
(* The SRs xapi knows.                                                     *)

\* Only a destroy takes anything, and only of its own dataset.
LEMMA GoneIsDestroyed ==
  ASSUME TreeInv, TypeInv, StageInv, DestroyInv, Next,
         NEW p \in (DOMAIN fs \ DOMAIN fs') \cup (DOMAIN vol \ DOMAIN vol')
  PROVE  /\ op.kind = "destroy" /\ AtOrBelow(p, op.ds)
         /\ op.ds \in DOMAIN fs /\ op.ds # Root /\ fs[op.ds].marker = op.sr
         /\ op.sr \in DOMAIN srs /\ op.sr \in doomed
<1>1. ~Keeps
  BY DEF Keeps
<1>2. ~Make
  BY DEF Make, With
<1>3. \A u \in Uuids, c \in Contents : ~Fill(u, c)
  BY DEF Fill
<1>4. ASSUME NEW n, Erasing(n) PROVE p = n[1]
  BY <1>4 DEF Erasing, Vanish
<1>5. op.kind = "destroy" /\ AtOrBelow(p, op.ds)
  <2>1. CASE At("destroy", "erase") /\ Erasing(Head(op.todo))
    <3>1. /\ op.kind = "destroy" /\ op.pc = "erase" /\ op.todo \in Seq(NodeSet)
          /\ op.todo # <<>>
      BY <2>1 DEF At, TypeInv, OpType
    <3>2. 1 \in DOMAIN op.todo /\ Head(op.todo) = op.todo[1]
      BY <3>1
    <3>. QED
      BY <1>4, <2>1, <3>1, <3>2 DEF DestroyInv
  <2>2. CASE At("destroy", "cli") /\ \E n \in Nodes(op.ds) : Erasing(n)
    <3>1. PICK n \in Nodes(op.ds) : Erasing(n)
      BY <2>2
    <3>2. AtOrBelow(n[1], op.ds)
      BY DEF Nodes, AtOrBelow, Below
    <3>. QED
      BY <1>4, <2>2, <3>1, <3>2 DEF At
  <2>. QED
    BY <1>1, <1>2, <1>3, <2>1, <2>2, PoolSteps
<1>6. /\ op.ds # Root /\ op.ds \notin DOMAIN vol
      /\ op.ds \in DOMAIN fs => fs[op.ds].marker = op.sr
      /\ op.sr \in DOMAIN srs /\ op.sr \in doomed
  BY <1>5 DEF DestroyInv
<1>7. op.ds \in DOMAIN fs
  BY <1>5, <1>6 DEF AtOrBelow, TreeInv
<1>. QED
  BY <1>5, <1>6, <1>7

LEMMA XapiEffect ==
  ASSUME TypeInv, Next
  PROVE  /\ doomed \subseteq doomed' /\ unlisted \subseteq unlisted'
         /\ \A u \in DOMAIN srs' : \/ u \in DOMAIN srs /\ srs'[u] = srs[u]
                                   \/ Created /\ u = op.sr /\ srs'[u] = op.ds
         /\ \A u \in DOMAIN attached' : \/ u \in DOMAIN attached /\ attached'[u] = attached[u]
                                        \/ Attach(u) /\ attached'[u] = fs[srs[u]].mnt
<1>. DEFINE Goal ==
         /\ doomed \subseteq doomed' /\ unlisted \subseteq unlisted'
         /\ \A u \in DOMAIN srs' : \/ u \in DOMAIN srs /\ srs'[u] = srs[u]
                                   \/ Created /\ u = op.sr /\ srs'[u] = op.ds
         /\ \A u \in DOMAIN attached' : \/ u \in DOMAIN attached /\ attached'[u] = attached[u]
                                        \/ Attach(u) /\ attached'[u] = fs[srs[u]].mnt
<1>1. ASSUME NEW u \in Uuids, \/ \E p \in Places : Create(u, p)
                              \/ \E p \in Adoptable : Adopt(u, p)
      PROVE  Goal
  BY <1>1 DEF Create, Adopt, History
<1>2. CASE Make \/ Writes
  BY <1>2 DEF Make, Writes, Mark, SetMountpoint, Mount, CreateDatabase, UpdateMeta, Step,
              xapi, History
<1>3. CASE ListZvols \/ Register \/ AdoptEnd \/ List \/ Unmount \/ Erase \/ CliErase \/ Fail
  BY <1>3 DEF ListZvols, Register, AdoptEnd, List, Unmount, Erase, CliErase, Fail, xapi, History
<1>4. CASE Created
  BY <1>4 DEF Created, History
<1>5. ASSUME NEW u \in Uuids, Attach(u) PROVE Goal
  BY <1>5 DEF Attach, History
<1>6. ASSUME NEW u \in Uuids, Detach(u) PROVE Goal
  BY <1>6 DEF Detach, History, Without
<1>7. ASSUME NEW u \in Uuids, Destroy(u) \/ \E c \in Contents : Fill(u, c) PROVE Goal
  BY <1>7 DEF Destroy, Fill, xapi, History
<1>8. CASE Destroyed
  BY <1>8 DEF Destroyed, Without, History
<1>9. CASE Reboot
  BY <1>9 DEF Reboot
<1>. QED
  BY <1>1, <1>2, <1>3, <1>4, <1>5, <1>6, <1>7, <1>8, <1>9 DEF Next, Writes

\* The data of an SR xapi knows stay, unless its own destroy takes the dataset.
LEMMA SrKept ==
  ASSUME TreeInv, TypeInv, NoNesting, StageInv, SrsInv, DestroyInv, Next,
         NEW u \in DOMAIN srs
  PROVE  /\ u \in Uuids /\ u # NoSr
         /\ srs[u] \in DOMAIN fs \cap DOMAIN fs' =>
              FsOK(fs'[srs[u]]) /\ Same(fs'[srs[u]], fs[srs[u]])
         /\ srs[u] \in DOMAIN fs' \ DOMAIN fs => Same(fs'[srs[u]], Bare)
         /\ u \notin doomed => There(u) /\ srs[u] \in DOMAIN fs'
<1>0. op.pc = "make" => op.ds \notin Taken /\ op.ds # Root
  BY MakePC DEF StageInv, Makes
<1>1. u \in Uuids /\ u # NoSr
  BY SrAssumption DEF TypeInv, NoSr
<1>2. Writes => srs[u] # op.ds
  BY WritesMakes DEF StageInv
<1>3. u \notin doomed => There(u)
  BY DEF SrsInv
<1>4. ASSUME u \notin doomed, srs[u] \notin DOMAIN fs' PROVE FALSE
  <2>1. srs[u] \in DOMAIN fs /\ fs[srs[u]].marker = u
    BY <1>3, <1>4 DEF There
  <2>2. /\ AtOrBelow(srs[u], op.ds) /\ op.ds \in DOMAIN fs /\ op.ds # Root
        /\ fs[op.ds].marker = op.sr /\ op.sr \in DOMAIN srs /\ op.sr \in doomed
    BY <1>4, <2>1, GoneIsDestroyed
  <2>3. op.sr # NoSr
    BY <2>2, SrAssumption DEF TypeInv, NoSr
  <2>. QED
    BY <1>1, <1>4, <2>1, <2>2, <2>3 DEF AtOrBelow, NoNesting
<1>5. srs[u] \in DOMAIN fs \cap DOMAIN fs' =>
         FsOK(fs'[srs[u]]) /\ Same(fs'[srs[u]], fs[srs[u]])
  BY <1>0, <1>2, FilesKept
<1>6. srs[u] \in DOMAIN fs' \ DOMAIN fs => Same(fs'[srs[u]], Bare)
  BY <1>0, NewAreBare DEF Taken
<1>. QED
  BY <1>1, <1>3, <1>4, <1>5, <1>6

LEMMA SrsStep ==
  ASSUME TreeInv, TypeInv, NoNesting, StageInv, SrsInv, DestroyInv, Next
  PROVE  SrsInv'
<1>0. op.pc = "make" => op.ds \notin Taken /\ op.ds # Root
  BY MakePC DEF StageInv, Makes
<1>. DEFINE Good(u) ==
      /\ srs[u] \in Adoptable \/ (srs[u] # Root /\ Last(srs[u]) = u)
      /\ u \notin doomed => There(u)
      /\ There(u) => fs[srs[u]].mnt = u /\ fs[srs[u]].db /\ fs[srs[u]].meta = {srs[u]}
      /\ srs[u] \in DOMAIN fs => fs[srs[u]].mnt \in {u, NoSr}
      /\ \A p \in DOMAIN fs : fs[p].mnt = u => p = srs[u] /\ fs[p].marker = u
      /\ u \in DOMAIN attached => attached[u] \in {u, NoSr}
<1>1. ASSUME NEW u \in DOMAIN srs, u \in DOMAIN srs', srs'[u] = srs[u]
      PROVE  Good(u)'
  <2>1. Good(u)
    BY DEF SrsInv
  <2>2. /\ u \in Uuids /\ u # NoSr
        /\ srs[u] \in DOMAIN fs \cap DOMAIN fs' => Same(fs'[srs[u]], fs[srs[u]])
        /\ srs[u] \in DOMAIN fs' \ DOMAIN fs => Same(fs'[srs[u]], Bare)
        /\ u \notin doomed => There(u) /\ srs[u] \in DOMAIN fs'
    BY SrKept
  <2>3. (srs[u] \in Adoptable \/ (srs[u] # Root /\ Last(srs[u]) = u))'
    BY <1>1, <2>1
  <2>4. u \notin doomed' => There(u)'
    BY <1>1, <2>2, XapiEffect DEF There, Same
  <2>5. There(u)' => fs'[srs[u]].mnt = u /\ fs'[srs[u]].db /\ fs'[srs[u]].meta = {srs[u]}
    BY <1>1, <2>1, <2>2 DEF There, Same, Bare
  <2>6. srs[u] \in DOMAIN fs' => fs'[srs[u]].mnt \in {u, NoSr}
    BY <2>1, <2>2 DEF Same, Bare
  <2>7. ASSUME NEW p \in DOMAIN fs', fs'[p].mnt = u
        PROVE  p = srs[u] /\ fs'[p].marker = u
    <3>1. CASE p \notin DOMAIN fs
      <4>1. Same(fs'[p], Bare)
        BY <1>0, <3>1, NewAreBare DEF Taken
      <4>. QED
        BY <2>2, <2>7, <4>1 DEF Same, Bare
    <3>2. CASE p \in DOMAIN fs /\ (~Writes \/ p # op.ds)
      <4>1. Same(fs'[p], fs[p])
        BY <1>0, <3>2, FilesKept
      <4>. QED
        BY <2>1, <2>7, <3>2, <4>1 DEF Same
    <3>3. CASE p \in DOMAIN fs /\ Writes /\ p = op.ds
      <4>1. op.kind \in Makes /\ op.sr \notin DOMAIN srs /\ srs[u] # op.ds /\ op.sr \in Uuids
        BY <3>3, WritesMakes DEF StageInv
      <4>2. FsOK(fs[p])
        BY <3>3 DEF TypeInv
      <4>3. fs'[p].mnt = op.sr \/ fs'[p].mnt = fs[p].mnt
        BY <3>3, <4>1, <4>2, WritesEffect DEF Wrote, Same, FsOK, Bare
      <4>. QED
        BY <2>1, <2>7, <3>3, <4>1, <4>3
    <3>. QED
      BY <3>1, <3>2, <3>3
  <2>8. u \in DOMAIN attached' => attached'[u] \in {u, NoSr}
    <3>1. Attach(u) => srs[u] \in DOMAIN fs
      BY DEF Attach
    <3>. QED
      BY <2>1, <3>1, XapiEffect
  <2>. QED
    BY <1>1, <2>3, <2>4, <2>5, <2>6, <2>7, <2>8
<1>2. ASSUME Created, NEW s, s = op.sr PROVE Good(s)'
  <2>1. /\ op.kind \in Makes /\ op.pc = "return"
        /\ UNCHANGED <<fs, attached, doomed>>
        /\ op.sr \in DOMAIN srs' /\ srs'[op.sr] = op.ds
    BY <1>2 DEF Created, Makes, pool, History
  <2>2. /\ op.sr \notin DOMAIN srs
        /\ \A p \in DOMAIN fs : fs[p].mnt = op.sr => p = op.ds
        /\ op.ds \in DOMAIN fs
        /\ op.kind = "create" => op.ds # Root /\ Last(op.ds) = op.sr
        /\ op.kind = "adopt" => op.ds \in Adoptable
        /\ fs[op.ds].marker = op.sr /\ fs[op.ds].mnt = op.sr /\ fs[op.ds].db
        /\ fs[op.ds].meta = {op.ds}
    BY <2>1 DEF StageInv
  <2>3. op.sr \notin DOMAIN attached
    BY <2>2 DEF TypeInv
  <2>4. PICK d : d = op.ds
    OBVIOUS
  <2>5. srs'[s] = d /\ s \notin DOMAIN attached' /\ fs' = fs
    BY <1>2, <2>1, <2>3, <2>4
  <2>6. /\ \A p \in DOMAIN fs : fs[p].mnt = s => p = d
        /\ d \in DOMAIN fs
        /\ d \in Adoptable \/ (d # Root /\ Last(d) = s)
        /\ fs[d].marker = s /\ fs[d].mnt = s /\ fs[d].db
        /\ fs[d].meta = {d}
    BY <1>2, <2>1, <2>2, <2>4 DEF Makes
  <2>. QED
    BY <2>5, <2>6 DEF There
<1>3. ASSUME NEW u \in DOMAIN srs' PROVE Good(u)'
  <2>1. \/ u \in DOMAIN srs /\ srs'[u] = srs[u]
        \/ Created /\ u = op.sr
    BY XapiEffect
  <2>. HIDE DEF Good
  <2>. QED
    BY <1>1, <1>2, <1>3, <2>1
<1>. QED
  BY <1>3 DEF SrsInv

-----------------------------------------------------------------------------
(* Destroys.                                                               *)

\* detach and destroy find the dataset of the SR they are called for.
LEMMA MetaFinds ==
  ASSUME TypeInv, SrsInv, NEW u \in DOMAIN attached, NEW p \in MetaAt(u)
  PROVE  p \in DOMAIN fs /\ p = srs[u] /\ fs[p].marker = u /\ fs[p].mnt = u
<1>1. PICK q \in DOMAIN fs : fs[q].mnt = attached[u] /\ p \in fs[q].meta
  BY DEF MetaAt
<1>2. p = q /\ fs[q].mnt # NoSr
  BY <1>1 DEF TypeInv
<1>3. u \in DOMAIN srs
  BY DEF TypeInv
<1>4. attached[u] = u
  BY <1>1, <1>2, <1>3 DEF SrsInv
<1>. QED
  BY <1>1, <1>2, <1>3, <1>4 DEF SrsInv

LEMMA DestroySteps ==
  ASSUME TypeInv, Next, op'.kind = "destroy"
  PROVE  (\E u \in Uuids : Destroy(u)) \/ List \/ Unmount \/ Erase \/ CliErase
<1>1. op' # NoCall /\ op'.kind # "none"
  BY DEF NoCall
<1>2. ~(Created \/ Destroyed \/ Fail \/ Reboot)
  BY <1>1 DEF Created, Destroyed, Fail, Reboot
<1>3. \A u \in Uuids : ~(Attach(u) \/ Detach(u) \/ \E c \in Contents : Fill(u, c))
  BY <1>1 DEF Attach, Detach, Fill
<1>4. \A u \in Uuids : (\A p \in Places : ~Create(u, p)) /\ (\A p \in Adoptable : ~Adopt(u, p))
  BY DEF Create, Adopt, NoCall
<1>5. ~(Make \/ Writes \/ ListZvols \/ Register \/ AdoptEnd)
  <2>1. op \in OpType
    BY DEF TypeInv
  <2>2. Make \/ Writes \/ ListZvols \/ Register \/ AdoptEnd => op.kind \in {"create", "adopt"}
    BY DEF Make, Writes, Mark, SetMountpoint, Mount, CreateDatabase, UpdateMeta, Step,
           ListZvols, Register, AdoptEnd, At
  <2>3. Make \/ Writes \/ ListZvols \/ Register \/ AdoptEnd => op' = NoCall \/ op'.kind = op.kind
    BY <2>1 DEF Make, Writes, Mark, SetMountpoint, Mount, CreateDatabase, UpdateMeta, Step,
           ListZvols, Register, AdoptEnd, AdoptOutcome, Goto, OpType
  <2>. QED
    BY <1>1, <2>2, <2>3
<1>. QED
  BY <1>2, <1>3, <1>4, <1>5 DEF Next, Writes

\* What a step of a destroy under way leaves to be done.
LEMMA WalkStep ==
  ASSUME TreeInv, TypeInv, DestroyInv, List \/ Unmount \/ Erase \/ CliErase,
         op'.kind = "destroy"
  PROVE  /\ op.kind = "destroy" /\ op'.sr = op.sr /\ op'.ds = op.ds
         /\ UNCHANGED <<srs, doomed>>
         /\ op'.pc \in {"unmount", "erase"} =>
              \A i \in DOMAIN op'.todo : AtOrBelow(op'.todo[i][1], op.ds)
<1>0. op \in OpType /\ op.kind = "destroy"
  BY DEF TypeInv, List, Unmount, Erase, CliErase, At
<1>1. op' # NoCall
  BY DEF NoCall
<1>2. UNCHANGED <<srs, doomed>>
  BY DEF List, Unmount, Erase, CliErase, xapi, History
<1>3. CASE List
  <2>1. PICK s \in Listings(Nodes(op.ds)) : op' = [op EXCEPT !.pc = "unmount", !.todo = Order(s)]
    BY <1>3 DEF List
  <2>2. op.ds \in Path
    BY <1>0 DEF OpType
  <2>3. s \in Seq(Nodes(op.ds))
    BY <2>2, NodesFinite, ListingSeq
  <2>4. Order(s) \in Seq(Nodes(op.ds))
    BY <2>3, ReverseSeq
  <2>5. \A n \in Nodes(op.ds) : AtOrBelow(n[1], op.ds)
    BY DEF Nodes, AtOrBelow, Below
  <2>6. op'.sr = op.sr /\ op'.ds = op.ds /\ op'.todo = Order(s)
    BY <1>0, <2>1 DEF OpType
  <2>. QED
    BY <1>0, <1>2, <2>4, <2>5, <2>6
<1>4. CASE Unmount
  <2>1. op'.sr = op.sr /\ op'.ds = op.ds /\ op'.todo = op.todo /\ op.pc = "unmount"
    BY <1>0, <1>4 DEF Unmount, At, OpType
  <2>. QED
    BY <1>0, <1>2, <2>1 DEF DestroyInv
<1>5. CASE Erase
  <2>1. op.todo \in Seq(NodeSet) /\ op.todo # <<>> /\ op.pc = "erase"
    BY <1>0, <1>5 DEF Erase, At, TypeInv, OpType
  <2>2. /\ op'.sr = op.sr /\ op'.ds = op.ds
        /\ op'.todo = op.todo \/ op'.todo = Tail(op.todo)
    BY <1>0, <1>1, <1>5 DEF Erase, OpType
  <2>3. \A i \in DOMAIN Tail(op.todo) :
           i + 1 \in DOMAIN op.todo /\ Tail(op.todo)[i] = op.todo[i + 1]
    BY <2>1
  <2>. QED
    BY <1>0, <1>2, <2>1, <2>2, <2>3 DEF DestroyInv
<1>6. CASE CliErase
  BY <1>0, <1>2, <1>6 DEF CliErase, At
<1>. QED
  BY <1>3, <1>4, <1>5, <1>6

LEMMA DestroyStep ==
  ASSUME TreeInv, TypeInv, StageInv, SrsInv, DestroyInv, Next
  PROVE  DestroyInv'
<1>. SUFFICES ASSUME op'.kind = "destroy" PROVE DestroyInv'
  BY DEF DestroyInv
<1>1. ASSUME NEW u \in Uuids, Destroy(u) PROVE DestroyInv'
  <2>1. PICK p \in (MetaAt(u) \ {Root}) \cap DOMAIN fs :
          op' = [NoCall EXCEPT !.kind = "destroy", !.sr = u, !.ds = p,
                               !.pc = IF lzc THEN "list" ELSE "cli"]
    BY <1>1 DEF Destroy
  <2>2. u \in DOMAIN attached /\ UNCHANGED <<fs, vol, srs>> /\ doomed' = doomed \cup {u}
    BY <1>1 DEF Destroy, pool, xapi
  <2>3. p \in DOMAIN fs /\ p = srs[u] /\ fs[p].marker = u /\ u \in DOMAIN srs
    BY <2>1, <2>2, MetaFinds DEF TypeInv
  <2>4. op'.sr = u /\ op'.ds = p /\ op'.pc \notin {"unmount", "erase"}
    BY <2>1 DEF NoCall
  <2>5. p \notin DOMAIN vol
    BY <2>1 DEF TreeInv
  <2>. QED
    BY <2>1, <2>2, <2>3, <2>4, <2>5 DEF DestroyInv
<1>2. CASE List \/ Unmount \/ Erase \/ CliErase
  <2>1. /\ op.kind = "destroy" /\ op'.sr = op.sr /\ op'.ds = op.ds
        /\ UNCHANGED <<srs, doomed>>
        /\ op'.pc \in {"unmount", "erase"} =>
             \A i \in DOMAIN op'.todo : AtOrBelow(op'.todo[i][1], op.ds)
    BY <1>2, WalkStep
  <2>2. /\ op.sr \in DOMAIN srs \cap doomed /\ op.ds = srs[op.sr]
        /\ op.ds # Root /\ op.ds \notin DOMAIN vol
        /\ op.ds \in DOMAIN fs => fs[op.ds].marker = op.sr
    BY <2>1 DEF DestroyInv
  <2>3. DOMAIN fs' \subseteq DOMAIN fs /\ DOMAIN vol' \subseteq DOMAIN vol
    BY <1>2 DEF List, Unmount, Erase, CliErase, Vanish, pool
  <2>4. op.ds \in DOMAIN fs' => fs'[op.ds].marker = op.sr
    <3>1. op.pc # "make" /\ ~Writes
      BY <2>1, MakePC, WritesMakes DEF Makes
    <3>. QED
      BY <2>2, <2>3, <3>1, FilesKept DEF Same
  <2>. QED
    BY <2>1, <2>2, <2>3, <2>4 DEF DestroyInv
<1>. QED
  BY <1>1, <1>2, DestroySteps

-----------------------------------------------------------------------------
(* The inductive invariant, and what follows from it at once.              *)

LEMMA InitInv ==
  ASSUME Init
  PROVE  Inv
<1>1. /\ fs = OldFs /\ vol = OldVol /\ snap = OldSnap /\ srs = << >> /\ attached = << >>
      /\ used = {} /\ op = NoCall
  BY DEF Init
<1>2. op.kind = "none" /\ op.pc = "idle"
  BY <1>1 DEF NoCall
<1>3. TreeInv
  BY <1>1, PoolAssumption DEF TreeInv, Path
<1>4. ASSUME NEW p \in DOMAIN fs
      PROVE  FsOK(fs[p]) /\ fs[p].meta = {} /\ fs[p].mnt = NoSr
  <2>1. /\ fs[p] = [Bare EXCEPT !.marker = fs[p].marker, !.mounted = fs[p].mounted]
        /\ fs[p].marker \in Nat /\ fs[p].mounted \in BOOLEAN
    BY <1>1, PoolAssumption
  <2>. DEFINE m == fs[p].marker
              d == fs[p].mounted
  <2>. HIDE DEF m, d
  <2>2. fs[p] = [Bare EXCEPT !.marker = m, !.mounted = d] /\ m \in Nat /\ d \in BOOLEAN
    BY <2>1 DEF m, d
  <2>. QED
    BY <2>2 DEF FsOK, Bare, Nums
<1>5. TypeInv
  BY <1>1, <1>2, <1>4, NoCallOK DEF TypeInv
<1>6. NoNesting
  BY <1>1, PoolAssumption DEF NoNesting
<1>7. StageInv /\ DestroyInv /\ SrsInv
  BY <1>1, <1>2 DEF StageInv, DestroyInv, SrsInv, Makes
<1>. QED
  BY <1>3, <1>5, <1>6, <1>7 DEF Inv

LEMMA InvStep ==
  ASSUME Inv, [Next]_vars
  PROVE  Inv'
<1>1. CASE Next
  <2>. TreeInv /\ TypeInv /\ NoNesting /\ StageInv /\ SrsInv /\ DestroyInv
    BY DEF Inv
  <2>1. op.pc = "make" => op.ds \notin Taken /\ op.ds # Root
    BY MakePC DEF StageInv, Makes
  <2>2. op.kind = "destroy" => /\ op.ds # Root
                               /\ op.pc = "erase" => Head(op.todo)[1] # Root
    <3>1. CASE op.kind = "destroy" /\ op.pc = "erase"
      <4>1. op.todo \in Seq(NodeSet) /\ op.todo # <<>>
        BY <3>1 DEF TypeInv, OpType
      <4>2. 1 \in DOMAIN op.todo /\ Head(op.todo) = op.todo[1]
        BY <4>1
      <4>3. AtOrBelow(Head(op.todo)[1], op.ds) /\ op.ds # Root
        BY <3>1, <4>2 DEF DestroyInv
      <4>. QED
        BY <4>3, AboveRoot DEF AtOrBelow
    <3>. QED
      BY <3>1 DEF DestroyInv
  <2>3. TreeInv'
    BY <1>1, <2>1, <2>2, TreeStep DEF Taken
  <2>. QED
    BY <1>1, <2>3, TypeStep, NestingStep, StageStep, SrsStep, DestroyStep DEF Inv
<1>2. CASE UNCHANGED vars
  BY <1>2 DEF vars, pool, xapi, Inv, TreeInv, TypeInv, NoNesting, StageInv, SrsInv, DestroyInv,
              Clear, Taken, There
<1>. QED
  BY <1>1, <1>2

\* Every reachable state satisfies the inductive invariant.
THEOREM SrInvariant == Spec => []Inv
<1>1. Init => Inv
  BY InitInv
<1>2. Inv /\ [Next]_vars => Inv'
  BY InvStep
<1>. QED
  BY <1>1, <1>2, PTL DEF Spec

\* The forms of all that is recorded of datasets and SRs (sr.py:178-547).
THEOREM SrTypeCorrect == Spec => []TypeOK
<1>1. Inv => TypeOK
  <2>. SUFFICES ASSUME Inv PROVE TypeOK
    OBVIOUS
  <2>1. TreeInv /\ TypeInv
    BY DEF Inv
  <2>2. op.tries \in 0..MaxTries
    BY <2>1 DEF TypeInv, OpType
  <2>. QED
    BY <2>1, <2>2 DEF TreeInv, TypeInv, FsOK, TypeOK
<1>. QED
  BY <1>1, SrInvariant, PTL

\* SR.create never marks a dataset inside or around another SR (sr.py:265-285).
THEOREM SrsDoNotNest == Spec => []NoNesting
<1>1. Inv => NoNesting
  BY DEF Inv
<1>. QED
  BY <1>1, SrInvariant, PTL

\* An SR xapi knows keeps its marker, mountpoint, metabase and meta.json through
\* whatever else is done or fails on the pool (sr.py:311-362).
THEOREM SrsStayWhole == Spec => []Whole
<1>1. Inv => Whole
  BY DEF Inv, SrsInv, Whole, There
<1>. QED
  BY <1>1, SrInvariant, PTL

\* Whatever a destroy removes is of its own SR (sr.py:414-433).
THEOREM DestroysTakeTheirOwn == Spec => DestroysOwn
<1>1. Inv /\ [Next]_vars =>
        [\A p \in (DOMAIN fs \ DOMAIN fs') \cup (DOMAIN vol \ DOMAIN vol') :
            Marker(p) = op.sr /\ op.kind = "destroy"]_vars
  <2>. SUFFICES ASSUME Inv, Next,
                       NEW p \in (DOMAIN fs \ DOMAIN fs') \cup (DOMAIN vol \ DOMAIN vol')
                PROVE  Marker(p) = op.sr /\ op.kind = "destroy"
    OBVIOUS
  <2>0. TreeInv /\ TypeInv /\ NoNesting /\ StageInv /\ DestroyInv
    BY DEF Inv
  <2>1. /\ op.kind = "destroy" /\ AtOrBelow(p, op.ds)
        /\ op.ds \in DOMAIN fs /\ op.ds # Root /\ fs[op.ds].marker = op.sr
        /\ op.sr \in DOMAIN srs
    BY <2>0, GoneIsDestroyed
  <2>2. p \in Path /\ fs[op.ds].marker # NoSr
    BY <2>0, <2>1, SrAssumption DEF TreeInv, TypeInv, NoSr
  <2>. QED
    BY <2>0, <2>1, <2>2, MarkerNearest DEF AtOrBelow
<1>. QED
  BY <1>1, SrInvariant, PTL DEF Spec, DestroysOwn

\* probe and create agree on where an SR may be made, and probe misses no SR that
\* xapi knows (sr.py:758-828 against 253-285).
THEOREM ProbesAreHonest == Spec => []ProbeHonest
<1>1. Inv => ProbeHonest
  <2>. SUFFICES ASSUME Inv, NEW p \in Places
                PROVE  /\ ProbeReady(p) => \A u \in Uuids : Append(p, u) \notin Taken => Accepts(p, u)
                       /\ {srs[u] : u \in {v \in DOMAIN srs \ doomed :
                                             Related(p, srs[v]) /\ Len(p) <= Len(srs[v])}}
                            \subseteq ProbeSees(p)
    BY DEF ProbeHonest
  <2>0. TreeInv /\ TypeInv /\ NoNesting /\ SrsInv /\ p \in Path
    BY SrAssumption DEF Inv, Path
  <2>1. ASSUME ProbeReady(p), NEW u \in Uuids, Append(p, u) \notin Taken PROVE Accepts(p, u)
    <3>. DEFINE ds == Append(p, u)
    <3>1. Above(ds) = Above(p) \cup {p}
      BY <2>0, SrAssumption, AppendPath
    <3>2. ChildSrs(ds) = {}
      BY <2>0, <2>1, NothingBelow DEF ChildSrs, Taken
    <3>3. ~\E q \in Parents(ds) : q \in DOMAIN fs /\ IsSr(q)
      BY <2>1, <3>1 DEF ProbeReady, Parents
    <3>. QED
      BY <2>1, <3>2, <3>3 DEF Accepts, Nested
  <2>2. ASSUME NEW u \in DOMAIN srs \ doomed, Related(p, srs[u]), Len(p) <= Len(srs[u])
        PROVE  srs[u] \in ProbeSees(p)
    <3>1. srs[u] \in DOMAIN fs /\ fs[srs[u]].marker = u /\ u # NoSr /\ srs[u] \in Path
      BY <2>0, SrAssumption DEF SrsInv, There, TypeInv, NoSr
    <3>2. IsSr(srs[u])
      BY <2>0, <3>1, MarkedIsSr
    <3>3. srs[u] \notin Above(p)
      BY <2>0, <2>2, <3>1, AboveStrict, PathLen
    <3>. QED
      BY <2>2, <3>1, <3>2, <3>3 DEF Related, ProbeSees, ChildSrs, Below
  <2>. QED
    BY <2>1, <2>2
<1>. QED
  BY <1>1, SrInvariant, PTL

-----------------------------------------------------------------------------
(* Attached SRs are mounted.                                               *)

LEMMA MountKept ==
  ASSUME TreeInv, TypeInv, NoNesting, StageInv, SrsInv, DestroyInv, Next, ~Reboot,
         NEW u \in DOMAIN srs \ doomed, u \in DOMAIN attached',
         fs[srs[u]].mounted = TRUE
  PROVE  fs'[srs[u]].mounted = TRUE
<1>. DEFINE p == srs[u]
<1>0. /\ p \in DOMAIN fs /\ p \in DOMAIN fs' /\ fs[p].marker = u /\ u # NoSr /\ u \in Uuids
  BY SrKept DEF There
<1>1. op.pc = "make" => op.ds \notin Taken
  BY MakePC DEF StageInv, Makes
<1>2. FsOK(fs[p])
  BY <1>0 DEF TypeInv
<1>3. fs'[p] = fs[p] => fs'[p].mounted = TRUE
  OBVIOUS
<1>4. ASSUME NEW r, fs'[p] = [fs[p] EXCEPT !.rows = r] PROVE fs'[p].mounted = TRUE
  BY <1>2, <1>4 DEF FsOK, Bare
<1>5. ASSUME fs'[p] = [fs[p] EXCEPT !.mounted = TRUE] PROVE fs'[p].mounted = TRUE
  BY <1>2, <1>5 DEF FsOK, Bare
<1>. HIDE DEF p
<1>6. ASSUME NEW w \in Uuids, \/ \E q \in Places : Create(w, q)
                              \/ \E q \in Adoptable : Adopt(w, q)
                              \/ Destroy(w)
      PROVE  fs'[p] = fs[p]
  BY <1>6 DEF Create, Adopt, Destroy, pool
<1>7. Make => fs'[p] = fs[p]
  BY <1>0, <1>1 DEF Make, With, At, Taken
<1>8. Writes => fs'[p] = fs[p]
  <2>1. Writes => p # op.ds
    BY WritesMakes DEF StageInv, p
  <2>. QED
    BY <1>0, <2>1 DEF Writes, Mark, SetMountpoint, Mount, CreateDatabase, UpdateMeta, Step
<1>9. Register => fs'[p] = fs[p] \/ \E r : fs'[p] = [fs[p] EXCEPT !.rows = r]
  BY <1>0 DEF Register
<1>10. ListZvols \/ AdoptEnd \/ Created \/ List \/ Destroyed \/ Fail => fs'[p] = fs[p]
  BY DEF ListZvols, AdoptEnd, Created, List, Destroyed, Fail, pool
<1>11. ASSUME NEW w \in Uuids, Attach(w)
       PROVE  fs'[p] = fs[p] \/ fs'[p] = [fs[p] EXCEPT !.mounted = TRUE]
  BY <1>0, <1>11 DEF Attach, AttachMount
<1>12. ASSUME NEW w \in Uuids, Detach(w) PROVE fs'[p] = fs[p]
  <2>1. PICK q \in MetaAt(w) \cap DOMAIN fs : fs' = [fs EXCEPT ![q].mounted = FALSE]
    BY <1>12 DEF Detach
  <2>2. w \in DOMAIN attached /\ w \notin DOMAIN attached'
    BY <1>12 DEF Detach, Without
  <2>3. fs[q].marker = w
    BY <2>1, <2>2, MetaFinds
  <2>4. q # p
    BY <1>0, <2>2, <2>3
  <2>. QED
    BY <2>1, <2>4
<1>13. ASSUME NEW w \in Uuids, NEW c \in Contents, Fill(w, c)
       PROVE  fs'[p] = fs[p] \/ \E r : fs'[p] = [fs[p] EXCEPT !.rows = r]
  BY <1>0, <1>13 DEF Fill
<1>14. Unmount => fs'[p] = fs[p]
  <2>. SUFFICES ASSUME Unmount PROVE fs'[p] = fs[p]
    OBVIOUS
  <2>1. op.kind = "destroy" /\ op.pc = "unmount" /\ op.todo \in Seq(NodeSet) /\ op.todo # <<>>
    BY DEF Unmount, At, TypeInv, OpType
  <2>2. 1 \in DOMAIN op.todo /\ Head(op.todo) = op.todo[1]
    BY <2>1
  <2>3. /\ AtOrBelow(Head(op.todo)[1], op.ds) /\ op.ds # Root
        /\ op.sr \in DOMAIN srs /\ op.sr \in doomed
        /\ op.ds \in DOMAIN fs => fs[op.ds].marker = op.sr
    BY <2>1, <2>2 DEF DestroyInv
  <2>4. op.sr # NoSr
    BY <2>3, SrAssumption DEF TypeInv, NoSr
  <2>5. Head(op.todo)[1] # p
    <3>1. ASSUME Head(op.todo)[1] = p PROVE FALSE
      <4>1. op.ds \in DOMAIN fs
        BY <1>0, <2>3, <3>1 DEF AtOrBelow, TreeInv
      <4>. QED
        BY <1>0, <2>3, <2>4, <3>1, <4>1 DEF AtOrBelow, NoNesting
    <3>. QED
      BY <3>1
  <2>. QED
    BY <2>5 DEF Unmount
<1>15. Erase \/ CliErase => fs'[p] = fs[p]
  BY <1>0 DEF Erase, CliErase, Vanish, pool
<1>16. \/ fs'[p] = fs[p] \/ fs'[p] = [fs[p] EXCEPT !.mounted = TRUE]
       \/ \E r : fs'[p] = [fs[p] EXCEPT !.rows = r]
  BY <1>6, <1>7, <1>8, <1>9, <1>10, <1>11, <1>12, <1>13, <1>14, <1>15 DEF Next, Writes
<1>17. fs'[p].mounted = TRUE
  BY <1>3, <1>4, <1>5, <1>16
<1>. QED
  BY <1>17 DEF p

LEMMA ServedStep ==
  ASSUME Inv, Served, [Next]_vars
  PROVE  Served'
<1>0. TreeInv /\ TypeInv /\ NoNesting /\ StageInv /\ SrsInv /\ DestroyInv
  BY DEF Inv
<1>1. CASE Next
  <2>. SUFFICES ASSUME NEW u \in DOMAIN attached' \ doomed'
                PROVE  /\ attached'[u] = u /\ srs'[u] \in DOMAIN fs'
                       /\ fs'[srs'[u]].mounted
    BY DEF Served
  <2>0. u \notin doomed
    BY <1>0, <1>1, XapiEffect
  <2>1. ~Reboot
    BY DEF Reboot
  <2>2. u \in DOMAIN srs
    BY <1>0, <1>1, XapiEffect DEF TypeInv, Attach
  <2>3. srs'[u] = srs[u] /\ srs[u] \in DOMAIN fs'
    <3>1. u \in DOMAIN srs'
      BY <1>0, <1>1, XapiStep DEF XapiOK
    <3>2. ~(Created /\ u = op.sr)
      BY <1>0, <2>2 DEF Created, Makes, StageInv
    <3>3. srs'[u] = srs[u]
      BY <1>0, <1>1, <3>1, <3>2, XapiEffect
    <3>4. srs[u] \in DOMAIN fs'
      BY <1>0, <1>1, <2>0, <2>2, SrKept
    <3>. QED
      BY <3>3, <3>4
  <2>4. CASE u \in DOMAIN attached /\ attached'[u] = attached[u]
    <3>1. attached[u] = u /\ srs[u] \in DOMAIN fs /\ fs[srs[u]].mounted
      BY <2>0, <2>4 DEF Served
    <3>2. fs[srs[u]].mounted = TRUE
      BY <1>0, <3>1 DEF TypeInv, FsOK
    <3>3. fs'[srs[u]].mounted = TRUE
      BY <1>0, <1>1, <2>0, <2>1, <2>2, <3>2, MountKept
    <3>. QED
      BY <2>3, <2>4, <3>1, <3>3
  <2>5. CASE Attach(u) /\ attached'[u] = fs[srs[u]].mnt
    <3>1. There(u) /\ fs[srs[u]].mnt = u
      BY <1>0, <2>0, <2>2 DEF SrsInv
    <3>2. FsOK(fs[srs[u]])
      BY <1>0, <3>1 DEF There, TypeInv
    <3>3. fs'[srs[u]] = [fs[srs[u]] EXCEPT !.mounted = TRUE]
      BY <2>5, <3>1 DEF Attach, AttachMount, There
    <3>4. fs'[srs[u]].mounted
      BY <3>2, <3>3 DEF FsOK, Bare
    <3>. QED
      BY <2>3, <2>5, <3>1, <3>4
  <2>. QED
    BY <1>0, <1>1, <2>4, <2>5, XapiEffect
<1>2. CASE UNCHANGED vars
  BY <1>2 DEF vars, pool, xapi, Served
<1>. QED
  BY <1>1, <1>2

\* What attach told xapi stays where the SR's metabase is mounted, until its
\* destroy begins (sr.py:441-526).
THEOREM AttachedAreServed == Spec => []Served
<1>1. Init => Served
  BY DEF Init, Served
<1>. QED
  BY <1>1, SrInvariant, ServedStep, PTL DEF Spec

-----------------------------------------------------------------------------
(* Zvols and rows.                                                         *)

LEMMA AdoptInvStep ==
  ASSUME Inv, AdoptInv, Next
  PROVE  AdoptInv'
<1>0. TreeInv /\ TypeInv /\ NoNesting /\ StageInv /\ SrsInv
  BY DEF Inv
<1>1. op \in OpType
  BY <1>0 DEF TypeInv
<1>. SUFFICES ASSUME op'.kind = "adopt", op'.sr \notin unlisted',
                     NEW v \in Zvols(op.ds)', op'.pc \in {"return", "register"}
              PROVE  /\ op'.pc = "return" => Last(v) \in fs'[op'.ds].rows
                     /\ op'.pc = "register" => \/ op'.failed \/ Last(v) \in fs'[op'.ds].rows
                                               \/ \E i \in DOMAIN op'.todo : op'.todo[i] = <<v, 0>>
  BY DEF AdoptInv
<1>2. op'.kind \in Makes /\ op' # NoCall
  BY DEF Makes, NoCall
<1>3. \A u \in Uuids, p \in Places : ~Create(u, p)
  BY DEF Create, NoCall
<1>4. \A u \in Uuids, p \in Adoptable : ~Adopt(u, p)
  BY DEF Adopt, NoCall
<1>5. ~Make
  <2>1. Make => op.kind = "create" /\ op'.kind = op.kind
    BY <1>1 DEF Make, At, Goto, OpType
  <2>. QED
    BY <2>1
<1>6. ~Writes
  <2>1. ASSUME Writes PROVE FALSE
    <3>1. /\ op'.kind = op.kind
          /\ op'.pc \in {"point", "mount", "database", "meta", "list"} \/ op.kind = "create"
      BY <1>0, <1>1, <2>1, WritesMakes, WritesEffect DEF Wrote, OpType
    <3>. QED
      BY <3>1
  <2>. QED
    BY <2>1
<1>7. ListZvols \/ Register \/ AdoptEnd
  BY <1>0, <1>2, <1>3, <1>4, <1>5, <1>6, MakesSteps
<1>8. vol' = vol /\ op'.ds = op.ds /\ op'.sr = op.sr /\ op.kind = "adopt"
  BY <1>1, <1>2, <1>7
     DEF ListZvols, Register, AdoptEnd, AdoptOutcome, Goto, At, pool, OpType
<1>9. v \in Zvols(op.ds)
  BY <1>8 DEF Zvols
<1>10. CASE ListZvols
  <2>1. CASE op.sr \in unlisted'
    BY <1>8, <2>1
  <2>2. CASE op.sr \notin unlisted'
    <3>1. PICK s \in Listings(ZvolNodes(op.ds)) : op' = [op EXCEPT !.pc = "register", !.todo = s]
      BY <1>10, <2>2 DEF ListZvols, ZvolNodes
    <3>2. <<v, 0>> \in ZvolNodes(op.ds)
      BY <1>9 DEF ZvolNodes
    <3>3. \E i \in DOMAIN s : s[i] = <<v, 0>>
      BY <1>0, <3>2, ZvolNodesFinite, ListingSeq
    <3>4. op'.todo = s /\ op'.pc = "register"
      BY <1>1, <3>1 DEF OpType
    <3>. QED
      BY <3>3, <3>4
  <2>. QED
    BY <2>1, <2>2
<1>11. CASE Register
  <2>1. /\ op.pc = "register" /\ op.todo \in Seq(NodeSet) /\ op.todo # <<>>
        /\ op'.pc = "register" /\ op'.todo = Tail(op.todo)
        /\ unlisted' = unlisted
        /\ op.failed => op'.failed
    BY <1>1, <1>11 DEF Register, At, OpType
  <2>2. op.ds \in DOMAIN fs
    BY <1>0, <1>8, <2>1 DEF StageInv, Makes
  <2>3. \/ op.failed \/ Last(v) \in fs[op.ds].rows
        \/ \E i \in DOMAIN op.todo : op.todo[i] = <<v, 0>>
    BY <1>8, <1>9, <2>1 DEF AdoptInv
  <2>4. op'.failed \/ fs'[op.ds].rows = fs[op.ds].rows \cup {Last(Head(op.todo)[1])}
    <3>1. FsOK(fs[op.ds])
      BY <1>0, <2>2 DEF TypeInv
    <3>2. CASE fs' = [fs EXCEPT ![op.ds].rows = @ \cup {Last(Head(op.todo)[1])}]
      <4>1. "rows" \in DOMAIN fs[op.ds]
        BY <3>1 DEF FsOK, Bare
      <4>. QED
        BY <2>2, <3>2, <4>1
    <3>3. CASE op' = [op EXCEPT !.todo = Tail(@), !.failed = TRUE]
      BY <1>1, <3>3 DEF OpType
    <3>. QED
      BY <1>11, <3>2, <3>3 DEF Register
  <2>5. ASSUME NEW i \in DOMAIN op.todo, op.todo[i] = <<v, 0>>
        PROVE  \/ <<v, 0>> = Head(op.todo)
               \/ \E j \in DOMAIN Tail(op.todo) : Tail(op.todo)[j] = <<v, 0>>
    <3>1. CASE i = 1
      BY <2>1, <2>5, <3>1
    <3>2. CASE i # 1
      <4>1. i - 1 \in DOMAIN Tail(op.todo) /\ Tail(op.todo)[i - 1] = op.todo[i]
        BY <2>1, <3>2
      <4>. QED
        BY <2>5, <4>1
    <3>. QED
      BY <3>1, <3>2
  <2>6. <<v, 0>> = Head(op.todo) => Last(Head(op.todo)[1]) = Last(v)
    OBVIOUS
  <2>. QED
    BY <1>8, <2>1, <2>3, <2>4, <2>5, <2>6
<1>12. CASE AdoptEnd
  <2>1. /\ op.pc = "register" /\ op.todo = <<>> /\ ~op.failed
        /\ op'.pc = "return" /\ fs' = fs /\ unlisted' = unlisted
    BY <1>1, <1>2, <1>12 DEF AdoptEnd, AdoptOutcome, Goto, At, pool, History, OpType
  <2>. QED
    BY <1>8, <1>9, <2>1 DEF AdoptInv
<1>. QED
  BY <1>7, <1>10, <1>11, <1>12

LEMMA RowsKept ==
  ASSUME TypeInv, StageInv, Next, NEW u \in DOMAIN srs,
         NEW p, p = srs[u], p \in DOMAIN fs \cap DOMAIN fs'
  PROVE  \/ fs'[p].rows = fs[p].rows
         \/ \E w \in Uuids, c \in Contents : Fill(w, c) /\ srs[w] = p
<1>1. op.pc = "make" => op.ds \notin Taken
  BY MakePC DEF StageInv, Makes
<1>2. FsOK(fs[p])
  BY DEF TypeInv
<1>3. ASSUME NEW m, fs'[p] = [fs[p] EXCEPT !.mounted = m] PROVE fs'[p].rows = fs[p].rows
  BY <1>2, <1>3 DEF FsOK, Bare
<1>4. ASSUME NEW w \in Uuids, \/ \E q \in Places : Create(w, q)
                              \/ \E q \in Adoptable : Adopt(w, q)
                              \/ Destroy(w)
      PROVE  fs'[p] = fs[p]
  BY <1>4 DEF Create, Adopt, Destroy, pool
<1>5. Make => fs'[p] = fs[p]
  BY <1>1 DEF Make, With, At, Taken
<1>6. Writes => fs'[p] = fs[p]
  <2>1. Writes => p # op.ds
    BY WritesMakes DEF StageInv
  <2>. QED
    BY <2>1 DEF Writes, Mark, SetMountpoint, Mount, CreateDatabase, UpdateMeta, Step
<1>7. Register => fs'[p] = fs[p]
  <2>1. Register => p # op.ds
    BY DEF Register, At, StageInv, Makes
  <2>. QED
    BY <2>1 DEF Register
<1>8. ListZvols \/ AdoptEnd \/ Created \/ List \/ Destroyed \/ Fail => fs'[p] = fs[p]
  BY DEF ListZvols, AdoptEnd, Created, List, Destroyed, Fail, pool
<1>9. ASSUME NEW w \in Uuids, Attach(w) \/ Detach(w)
      PROVE  fs'[p] = fs[p] \/ \E m : fs'[p] = [fs[p] EXCEPT !.mounted = m]
  BY <1>9 DEF Attach, AttachMount, Detach
<1>10. ASSUME NEW w \in Uuids, NEW c \in Contents, Fill(w, c), srs[w] # p
       PROVE  fs'[p] = fs[p]
  BY <1>10 DEF Fill
<1>11. Unmount \/ Reboot => fs'[p] = fs[p] \/ \E m : fs'[p] = [fs[p] EXCEPT !.mounted = m]
  BY DEF Unmount, Reboot
<1>12. Erase \/ CliErase => fs'[p] = fs[p]
  BY DEF Erase, CliErase, Vanish, pool
<1>13. \/ fs'[p] = fs[p] \/ \E m : fs'[p] = [fs[p] EXCEPT !.mounted = m]
       \/ \E w \in Uuids, c \in Contents : Fill(w, c) /\ srs[w] = p
  BY <1>4, <1>5, <1>6, <1>7, <1>8, <1>9, <1>10, <1>11, <1>12 DEF Next, Writes
<1>. QED
  BY <1>3, <1>13

\* New zvols come from the volume operations.
LEMMA NewZvols ==
  ASSUME TreeInv, TypeInv, Next, NEW v \in DOMAIN vol', v \notin DOMAIN vol
  PROVE  \E w \in Uuids, c \in Contents :
            /\ Fill(w, c) /\ Front(v) = srs[w] /\ Last(v) \in DOMAIN c
            /\ Zvols(srs[w]) = {} /\ DOMAIN fs' = DOMAIN fs /\ srs[w] \in DOMAIN fs
            /\ fs'[srs[w]].rows = DOMAIN c
<1>1. ~Keeps /\ ~Make
  BY DEF Keeps, Make
<1>2. \A n : ~Erasing(n)
  BY DEF Erasing, Vanish
<1>3. PICK w \in Uuids, c \in Contents : Fill(w, c)
  BY <1>1, <1>2, PoolSteps
<1>4. PICK new : Filling(w, c, new)
  BY <1>3, FillEffect
<1>5. FsOK(fs[srs[w]])
  BY <1>4 DEF Filling, TypeInv
<1>6. fs'[srs[w]].rows = DOMAIN c
  BY <1>4, <1>5 DEF Filling, FsOK, Bare
<1>. QED
  BY <1>3, <1>4, <1>6 DEF Filling

LEMMA AdoptedStep ==
  ASSUME Inv, AdoptInv, Adopted, Next
  PROVE  Adopted'
<1>0. TreeInv /\ TypeInv /\ NoNesting /\ StageInv /\ SrsInv /\ DestroyInv
  BY DEF Inv
<1>. SUFFICES ASSUME NEW u \in DOMAIN srs' \ unlisted', NEW v \in Zvols(srs[u])',
                     srs'[u] \in DOMAIN fs'
              PROVE  Last(v) \in fs'[srs'[u]].rows
  BY DEF Adopted
<1>1. v \in DOMAIN vol' /\ v # Root /\ Front(v) = srs'[u] /\ u \notin unlisted
  BY <1>0, XapiEffect DEF Zvols
<1>2. CASE Created /\ u = op.sr /\ srs'[u] = op.ds
  <2>1. /\ op.kind \in {"create", "adopt"} /\ op.pc = "return" /\ fs' = fs /\ vol' = vol
    BY <1>2 DEF Created, pool
  <2>2. v \in Zvols(op.ds) /\ v \in Path
    BY <1>0, <1>1, <1>2, <2>1 DEF Zvols, TreeInv
  <2>3. CASE op.kind = "create"
    <3>1. op.ds \notin Above(v)
      BY <1>0, <1>1, <2>1, <2>3 DEF StageInv, Makes
    <3>. QED
      BY <1>1, <1>2, <2>2, <3>1, FrontAbove
  <2>4. CASE op.kind = "adopt"
    BY <1>1, <1>2, <2>1, <2>2, <2>4 DEF AdoptInv
  <2>. QED
    BY <2>1, <2>3, <2>4
<1>3. CASE u \in DOMAIN srs /\ srs'[u] = srs[u]
  <2>1. CASE v \notin DOMAIN vol
    <3>1. PICK w \in Uuids, c \in Contents :
            Front(v) = srs[w] /\ Last(v) \in DOMAIN c /\ fs'[srs[w]].rows = DOMAIN c
      BY <1>0, <1>1, <2>1, NewZvols
    <3>. QED
      BY <1>1, <1>3, <3>1
  <2>2. CASE v \in DOMAIN vol
    <3>1. v \in Zvols(srs[u])
      BY <1>1, <1>3, <2>2 DEF Zvols
    <3>2. srs[u] \in DOMAIN fs
      BY <1>0, <3>1, NothingBelow
    <3>3. Last(v) \in fs[srs[u]].rows
      BY <1>1, <1>3, <3>1, <3>2 DEF Adopted
    <3>4. ASSUME NEW w \in Uuids, NEW c \in Contents, Fill(w, c), srs[w] = srs[u]
          PROVE  FALSE
      BY <3>1, <3>4 DEF Fill
    <3>5. fs'[srs[u]].rows = fs[srs[u]].rows
      BY <1>0, <1>3, <3>2, <3>4, RowsKept
    <3>. QED
      BY <1>3, <3>3, <3>5
  <2>. QED
    BY <2>1, <2>2
<1>. QED
  BY <1>0, <1>2, <1>3, XapiEffect

\* No zvol right under the dataset of an SR is without a row, however many
\* registrations failed on the way, unless the listing did (sr.py:364-409).
THEOREM ZvolsAreAdopted == Spec => []Adopted
<1>. DEFINE RowsInv == AdoptInv /\ Adopted
<1>1. Init => RowsInv
  BY DEF Init, AdoptInv, Adopted, NoCall
<1>2. Inv /\ RowsInv /\ [Next]_vars => RowsInv'
  <2>1. CASE Next
    BY <2>1, AdoptInvStep, AdoptedStep
  <2>2. CASE UNCHANGED vars
    BY <2>2 DEF vars, pool, xapi, AdoptInv, Adopted, Zvols
  <2>. QED
    BY <2>1, <2>2
<1>3. RowsInv => Adopted
  OBVIOUS
<1>. HIDE DEF RowsInv
<1>. QED
  BY <1>1, <1>2, <1>3, SrInvariant, PTL DEF Spec

-----------------------------------------------------------------------------
(* The order of a destroy.                                                 *)

LEMMA NameAsymmetric ==
  ASSUME NEW p \in Path, NEW q \in Path, NameBefore(p, q), NameBefore(q, p)
  PROVE  FALSE
<1>. DEFINE Differ(a, b, i) == /\ i \in DOMAIN a \cap DOMAIN b /\ a[i] < b[i]
                               /\ \A j \in 1..(i - 1) : a[j] = b[j]
<1>1. ASSUME NEW a \in Path, NEW b \in Path, NameBefore(a, b)
      PROVE  a \in Above(b) \/ \E i : Differ(a, b, i)
  <2>1. ASSUME NEW i \in DOMAIN a \cap DOMAIN b, SubSeq(a, 1, i - 1) = SubSeq(b, 1, i - 1)
        PROVE  \A j \in 1..(i - 1) : a[j] = b[j]
    <3>1. i - 1 \in 0..Len(a) /\ i - 1 \in 0..Len(b)
      BY DEF Path
    <3>. QED
      BY <2>1, <3>1, PrefixPath
  <2>. QED
    BY <1>1, <2>1 DEF NameBefore
<1>2. ASSUME NEW a \in Path, NEW b \in Path, a \in Above(b), NEW i, Differ(b, a, i)
      PROVE  FALSE
  <2>1. i \in 1..Len(a) /\ a[i] \in Nat /\ b[i] < a[i]
    BY <1>2 DEF Path
  <2>2. a[i] = b[i]
    BY <1>2, <2>1, AboveIff
  <2>. QED
    BY <2>1, <2>2
<1>3. ASSUME NEW i, NEW k, Differ(p, q, i), Differ(q, p, k) PROVE FALSE
  <2>1. /\ i \in Nat \ {0} /\ k \in Nat \ {0}
        /\ p[i] \in Nat /\ q[i] \in Nat /\ p[k] \in Nat /\ q[k] \in Nat
        /\ p[i] < q[i] /\ q[k] < p[k]
    BY <1>3 DEF Path
  <2>2. i < k => p[i] = q[i]
    BY <1>3, <2>1
  <2>3. k < i => p[k] = q[k]
    BY <1>3, <2>1
  <2>. QED
    BY <2>1, <2>2, <2>3
<1>4. ~(p \in Above(q) /\ q \in Above(p))
  BY AboveStrict
<1>. HIDE DEF Differ
<1>. QED
  BY <1>1, <1>2, <1>3, <1>4

LEMMA ListedAsymmetric ==
  ASSUME NEW m \in NodeSet, NEW n \in NodeSet, ListedBefore(m, n), ListedBefore(n, m)
  PROVE  FALSE
<1>1. m[1] \in Path /\ n[1] \in Path /\ m[2] \in {0, 1} /\ n[2] \in {0, 1}
  BY DEF NodeSet
<1>. QED
  BY <1>1, NameAsymmetric DEF ListedBefore

\* What is to do is in the reverse of the listed order, and nothing is missing.
OrderInv ==
    op.kind = "destroy" /\ op.pc \in {"unmount", "erase"} =>
      /\ \A i, j \in DOMAIN op.todo : i < j => ListedBefore(op.todo[j], op.todo[i])
      /\ \A n \in Nodes(op.ds) : Exists(n) => \E i \in DOMAIN op.todo : op.todo[i] = n

LEMMA OrderStep ==
  ASSUME Inv, OrderInv, Next
  PROVE  OrderInv'
<1>0. TreeInv /\ TypeInv /\ DestroyInv /\ op \in OpType
  BY DEF Inv, TypeInv
<1>. SUFFICES ASSUME op'.kind = "destroy", op'.pc \in {"unmount", "erase"}
              PROVE  /\ \A i, j \in DOMAIN op'.todo :
                          i < j => ListedBefore(op'.todo[j], op'.todo[i])
                     /\ \A n \in Nodes(op.ds)' :
                          Exists(n)' => \E i \in DOMAIN op'.todo : op'.todo[i] = n
  BY DEF OrderInv
<1>1. \A u \in Uuids : ~Destroy(u)
  BY DEF Destroy, NoCall
<1>2. CASE List
  <2>1. PICK s \in Listings(Nodes(op.ds)) : op' = [op EXCEPT !.pc = "unmount", !.todo = Order(s)]
    BY <1>2 DEF List
  <2>2. op.ds \in Path
    BY <1>0 DEF OpType
  <2>3. /\ s \in Seq(Nodes(op.ds)) /\ Len(s) \in Nat
        /\ \A n \in Nodes(op.ds) : \E i \in 1..Len(s) : s[i] = n
        /\ \A i, j \in 1..Len(s) : i < j => ListedBefore(s[i], s[j])
    BY <1>0, <2>2, NodesFinite, ListingSeq
  <2>4. /\ Order(s) \in Seq(Nodes(op.ds)) /\ Len(Order(s)) = Len(s)
        /\ \A i \in 1..Len(s) : Order(s)[i] = s[Len(s) - i + 1]
    BY <2>3, ReverseSeq
  <2>5. op'.todo = Order(s) /\ op'.ds = op.ds /\ DOMAIN op'.todo = 1..Len(s)
    BY <1>0, <2>1, <2>4 DEF OpType
  <2>6. Nodes(op.ds)' = Nodes(op.ds)
    BY <1>2, <2>5 DEF List, pool, Nodes, Below
  <2>7. ASSUME NEW i \in 1..Len(s), NEW j \in 1..Len(s), i < j
        PROVE  ListedBefore(op'.todo[j], op'.todo[i])
    <3>1. /\ Len(s) - i + 1 \in 1..Len(s) /\ Len(s) - j + 1 \in 1..Len(s)
          /\ Len(s) - j + 1 < Len(s) - i + 1
      BY <2>3, <2>7
    <3>. QED
      BY <2>3, <2>4, <2>5, <3>1
  <2>8. ASSUME NEW n \in Nodes(op.ds) PROVE \E i \in 1..Len(s) : op'.todo[i] = n
    <3>1. PICK k \in 1..Len(s) : s[k] = n
      BY <2>3
    <3>2. Len(s) - k + 1 \in 1..Len(s) /\ Len(s) - (Len(s) - k + 1) + 1 = k
      BY <2>3
    <3>3. op'.todo[Len(s) - k + 1] = n
      BY <2>4, <2>5, <3>1, <3>2
    <3>. QED
      BY <3>2, <3>3
  <2>. QED
    BY <2>5, <2>6, <2>7, <2>8
<1>3. CASE Unmount
  <2>1. /\ op.kind = "destroy" /\ op.pc = "unmount" /\ op'.todo = op.todo /\ op'.ds = op.ds
        /\ DOMAIN fs' = DOMAIN fs /\ vol' = vol /\ snap' = snap
    BY <1>0, <1>3 DEF Unmount, At, OpType
  <2>2. Nodes(op.ds)' = Nodes(op.ds) /\ \A n : Exists(n)' <=> Exists(n)
    BY <2>1 DEF Nodes, Below, Exists
  <2>. QED
    BY <2>1, <2>2 DEF OrderInv
<1>4. CASE Erase
  <2>0. op' # NoCall
    BY DEF NoCall
  <2>1. /\ op.kind = "destroy" /\ op.pc = "erase" /\ op.todo \in Seq(NodeSet) /\ op.todo # <<>>
        /\ op'.ds = op.ds
    BY <1>0, <1>4, <2>0 DEF Erase, At, TypeInv, OpType
  <2>2. /\ \A i, j \in DOMAIN op.todo : i < j => ListedBefore(op.todo[j], op.todo[i])
        /\ \A n \in Nodes(op.ds) : Exists(n) => \E i \in DOMAIN op.todo : op.todo[i] = n
    BY <2>1 DEF OrderInv
  <2>3. CASE op'.todo = op.todo /\ UNCHANGED pool
    <3>1. Nodes(op.ds)' = Nodes(op.ds) /\ \A n : Exists(n)' <=> Exists(n)
      BY <2>1, <2>3 DEF pool, Nodes, Below, Exists
    <3>. QED
      BY <2>2, <2>3, <3>1
  <2>4. CASE /\ op'.todo = Tail(op.todo)
             /\ \/ ~Exists(Head(op.todo)) /\ UNCHANGED pool
                \/ Vanish(Head(op.todo))
    <3>. DEFINE h == Head(op.todo)
    <3>1. h \in NodeSet /\ h = op.todo[1]
      BY <2>1
    <3>2. h = <<h[1], h[2]>> /\ h[2] \in {0, 1}
      BY <3>1 DEF NodeSet
    <3>3. ASSUME NEW i \in DOMAIN Tail(op.todo)
          PROVE  i \in Nat /\ i + 1 \in DOMAIN op.todo /\ Tail(op.todo)[i] = op.todo[i + 1]
      BY <2>1
    <3>4. ASSUME NEW i \in DOMAIN op.todo, op.todo[i] # h
          PROVE  \E j \in DOMAIN Tail(op.todo) : Tail(op.todo)[j] = op.todo[i]
      <4>1. i - 1 \in DOMAIN Tail(op.todo) /\ Tail(op.todo)[i - 1] = op.todo[i]
        BY <2>1, <3>1, <3>4
      <4>. QED
        BY <4>1
    <3>. HIDE DEF h
    <3>5. ASSUME NEW n \in Nodes(op.ds)', Exists(n)'
          PROVE  n \in Nodes(op.ds) /\ Exists(n) /\ n # h
      <4>1. CASE ~Exists(h) /\ UNCHANGED pool
        <5>1. n \in Nodes(op.ds) /\ Exists(n)
          BY <2>1, <3>5, <4>1 DEF pool, Nodes, Below, Exists
        <5>. QED
          BY <4>1, <5>1
      <4>2. CASE Vanish(h) /\ h[2] = 1
        BY <2>1, <3>2, <3>5, <4>2 DEF Vanish, Nodes, Below, Exists
      <4>3. CASE Vanish(h) /\ h[2] = 0
        <5>1. /\ DOMAIN fs' = DOMAIN fs \ {h[1]} /\ DOMAIN vol' = DOMAIN vol \ {h[1]}
              /\ snap' = snap
          BY <4>3 DEF Vanish
        <5>. QED
          BY <2>1, <3>2, <3>5, <4>3, <5>1 DEF Nodes, Below, Exists
      <4>. QED
        BY <2>4, <3>2, <4>1, <4>2, <4>3 DEF h
    <3>6. \A i, j \in DOMAIN Tail(op.todo) :
             i < j => ListedBefore(Tail(op.todo)[j], Tail(op.todo)[i])
      BY <2>2, <3>3
    <3>. QED
      BY <2>2, <2>4, <3>4, <3>5, <3>6
  <2>. QED
    BY <1>0, <1>4, <2>0, <2>3, <2>4 DEF Erase, OpType
<1>5. CASE CliErase
  BY <1>5 DEF CliErase, At
<1>. QED
  BY <1>0, <1>1, <1>2, <1>3, <1>4, <1>5, DestroySteps

LEMMA OrderEnough ==
  ASSUME Inv, OrderInv
  PROVE  OrderSuffices
<1>0. TreeInv /\ TypeInv /\ DestroyInv
  BY DEF Inv
<1>. SUFFICES ASSUME At("destroy", "erase"),
                     \A v \in Below(op.ds) \cap DOMAIN vol :
                        vol[v] # NoOrigin => NameBefore(vol[v], v)
              PROVE  Dependents(Head(op.todo)) = {}
  BY DEF OrderSuffices
<1>. DEFINE n == Head(op.todo)
<1>1. /\ op.kind = "destroy" /\ op.pc = "erase" /\ op.todo \in Seq(NodeSet) /\ op.todo # <<>>
      /\ op.ds \in Path
  BY <1>0 DEF At, TypeInv, OpType
<1>2. n \in NodeSet /\ 1 \in DOMAIN op.todo /\ n = op.todo[1]
  BY <1>1
<1>3. /\ \A i, j \in DOMAIN op.todo : i < j => ListedBefore(op.todo[j], op.todo[i])
      /\ \A m \in Nodes(op.ds) : Exists(m) => \E i \in DOMAIN op.todo : op.todo[i] = m
  BY <1>1 DEF OrderInv
<1>4. AtOrBelow(n[1], op.ds) /\ op.ds \notin DOMAIN vol
  BY <1>0, <1>1, <1>2 DEF DestroyInv
<1>. HIDE DEF n
<1>5. n[1] \in Path /\ n[2] \in {0, 1}
  BY <1>2 DEF NodeSet
\* Whatever is still there was listed before the head.
<1>6. ASSUME NEW m \in Nodes(op.ds), Exists(m), ListedBefore(n, m)
      PROVE  FALSE
  <2>1. PICK i \in DOMAIN op.todo : op.todo[i] = m
    BY <1>3, <1>6
  <2>2. m \in NodeSet
    BY <1>1, <2>1
  <2>3. i = 1 \/ 1 < i
    BY <1>1, <2>1
  <2>4. m = n \/ ListedBefore(m, n)
    BY <1>2, <1>3, <2>1, <2>3
  <2>. QED
    BY <1>2, <1>6, <2>2, <2>4, ListedAsymmetric
<1>7. ASSUME NEW v \in DOMAIN vol, vol[v] = n[1], n[2] = 1
      PROVE  FALSE
  <2>1. n[1] # Root
    BY <1>0, <1>1, <1>4, AboveRoot DEF AtOrBelow, DestroyInv
  <2>2. n[1] \in DOMAIN vol /\ Front(n[1]) = Front(v)
    BY <1>0, <1>7, <2>1 DEF NoOrigin, TreeInv
  <2>3. op.ds \in Above(n[1])
    BY <1>4, <2>2 DEF AtOrBelow
  <2>4. v \in Path /\ v # Root
    BY <1>0 DEF TreeInv
  <2>5. op.ds \in Above(v)
    BY <1>5, <2>1, <2>2, <2>3, <2>4, FrontAbove
  <2>6. v \in Below(op.ds)
    BY <2>5 DEF Below
  <2>7. NameBefore(n[1], v)
    BY <1>7, <2>1, <2>6 DEF NoOrigin
  <2>8. <<v, 0>> \in Nodes(op.ds) /\ Exists(<<v, 0>>) /\ ListedBefore(n, <<v, 0>>)
    BY <2>6, <2>7 DEF Nodes, Exists, ListedBefore
  <2>. QED
    BY <1>6, <2>8
<1>8. ASSUME NEW q \in Below(n[1]) PROVE FALSE
  <2>1. q \in Path /\ n[1] \in Above(q) /\ q \in DOMAIN fs \cup DOMAIN vol
    BY <1>0 DEF Below, TreeInv
  <2>2. op.ds \in Above(q)
    BY <1>4, <2>1, AboveTransitive DEF AtOrBelow
  <2>3. <<q, 0>> \in Nodes(op.ds) /\ Exists(<<q, 0>>) /\ ListedBefore(n, <<q, 0>>)
    BY <2>1, <2>2 DEF Nodes, Below, Exists, ListedBefore, NameBefore
  <2>. QED
    BY <1>6, <2>3
<1>9. ASSUME n[1] \in snap, n[2] = 0 PROVE FALSE
  <2>1. n[1] \in DOMAIN vol
    BY <1>0, <1>9 DEF TreeInv
  <2>2. n[1] \in Below(op.ds)
    BY <1>4, <2>1 DEF AtOrBelow, Below
  <2>3. <<n[1], 1>> \in Nodes(op.ds) /\ Exists(<<n[1], 1>>)
    BY <1>9, <2>2 DEF Nodes, Exists
  <2>4. ListedBefore(n, <<n[1], 1>>)
    BY <1>9 DEF ListedBefore
  <2>. QED
    BY <1>6, <2>3, <2>4
<1>10. Dependents(n) = {}
  BY <1>5, <1>7, <1>8, <1>9 DEF Dependents
<1>. QED
  BY <1>10 DEF n

\* Where clones sort after their origins, the reversed listing is an order in which
\* everything can be destroyed (zfs_operations.py:332-344).
THEOREM NamesInOrderSuffice == Spec => []OrderSuffices
<1>1. Init => OrderInv
  BY DEF Init, OrderInv, NoCall
<1>2. Inv /\ OrderInv /\ [Next]_vars => OrderInv'
  <2>1. CASE Next
    BY <2>1, OrderStep
  <2>2. CASE UNCHANGED vars
    BY <2>2 DEF vars, pool, OrderInv, Nodes, Below, Exists
  <2>. QED
    BY <2>1, <2>2
<1>3. Inv /\ OrderInv => OrderSuffices
  BY OrderEnough
<1>. QED
  BY <1>1, <1>2, <1>3, SrInvariant, PTL DEF Spec

=============================================================================
