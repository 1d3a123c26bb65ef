------------------------------ MODULE VdiSize ------------------------------
(***************************************************************************)
(* The size of one VDI: the vsize of its metabase row, the volsize of its  *)
(* zvol, its reservation, and the calls that read and write them:          *)
(* Volume.resize, stat (and SR.ls, which recovers the same way), clone,    *)
(* set and unset of the property `copies`.                                 *)
(*                                                                         *)
(* Volume.resize opens its VolumeContext "r" and takes no "gl" PollLock.   *)
(* A metabase transaction holds the database from its first INSERT or      *)
(* UPDATE to its end (`writer`); what it read before may be stale by then. *)
(***************************************************************************)
EXTENDS Integers, FiniteSets

CONSTANTS Callers,    \* slots for calls in progress at the same time
          MaxSize,    \* bound: sizes, in volume blocks
          MaxCopies,  \* bound: values of the property copies
          Overlap     \* the pairs {k1, k2} of kinds of call that may overlap

ASSUME SizeAssumption ==
    /\ MaxSize \in Nat \ {0} /\ MaxCopies \in Nat \ {0}
    /\ Overlap \subseteq SUBSET {"resize", "stat", "clone", "set", "unset"}

None    == 0
Sizes   == 1 .. MaxSize
Copies  == 1 .. MaxCopies
Inherited == 1      \* copies of the SR's dataset

VARIABLES
    row,       \* vsize of the volume row, None while it is NULL
    volsize,   \* volsize of the zvol
    copies,    \* property copies of the zvol
    refres,    \* its refreservation, 0 for a thin VDI
    key,       \* custom key copies of the VDI, None if it has none
    clones,    \* clones made: the vsize of their row, volsize, refreservation
    writer,    \* the caller, if any, whose transaction has written the metabase
    call,      \* call[p]: what caller p is executing
    suspect    \* history: what a call that failed or crashed has left half done

zfs  == <<volsize, copies, refres>>
vars == <<row, zfs, key, clones, writer, call, suspect>>

\* A call: its argument, the vsize it holds in memory, the vsize its
\* transaction writes (None if it writes none), the size and the
\* reservation it got from ZFS.
NoCall == [kind |-> "idle", pc |-> "idle", arg |-> 0,
           known |-> None, new |-> None, got |-> 0, res |-> 0]

Init ==
    /\ volsize \in Sizes /\ row = volsize
    /\ copies = Inherited /\ refres \in {0, volsize * copies}
    /\ key = None /\ clones = {}
    /\ writer = {} /\ call = [p \in Callers |-> NoCall] /\ suspect = {}

At(p, kind, pc) == call[p].kind = kind /\ call[p].pc = pc
Goto(p, pc) == call' = [call EXCEPT ![p].pc = pc]
Return(p) == call' = [call EXCEPT ![p] = NoCall]
CanWrite(p) == writer \subseteq {p}

Start(p, kind, pc, arg) ==
    /\ call[p] = NoCall
    /\ \A q \in Callers : call[q] = NoCall \/ {kind, call[q].kind} \in Overlap
    /\ call' = [call EXCEPT ![p] = [NoCall EXCEPT !.kind = kind, !.pc = pc, !.arg = arg]]
    /\ UNCHANGED <<row, zfs, key, clones, writer, suspect>>

Resize(p) == \E n \in Sizes : Start(p, "resize", "read", n)
Stat(p)   == Start(p, "stat", "read", 0)
Clone(p)  == (\A q \in Callers : call[q].kind # "clone") /\ Start(p, "clone", "read", 0)
Set(p)    == \E c \in Copies : Start(p, "set", "property", c)
Unset(p)  == Start(p, "unset", "property", Inherited)

-----------------------------------------------------------------------------
(* get_vdi_by_id, then recover_vdi_vsize: a NULL vsize is replaced by what *)
(* ZFS says, first in memory and then by an UPDATE.                        *)

AfterRead == [resize |-> "check", stat |-> "report", clone |-> "clone"]

ReadNullRow(p) ==  \* mutant of ReadRow
    /\ call[p].pc = "read"
    /\ call' = [call EXCEPT ![p].known = row, ![p].pc = AfterRead[call[p].kind]]
    /\ UNCHANGED <<row, zfs, key, clones, writer, suspect>>

ReadRow(p) ==
    /\ call[p].pc = "read"
    /\ call' = [call EXCEPT ![p].known = row,
                            ![p].pc = IF row = None THEN "ask"
                                      ELSE AfterRead[call[p].kind]]
    /\ UNCHANGED <<row, zfs, key, clones, writer, suspect>>

AskZfs(p) ==
    /\ call[p].pc = "ask"
    /\ call' = [call EXCEPT ![p].known = volsize, ![p].pc = "recover"]
    /\ UNCHANGED <<row, zfs, key, clones, writer, suspect>>

Recover(p) ==
    /\ call[p].pc = "recover" /\ CanWrite(p)
    /\ writer' = {p}
    /\ call' = [call EXCEPT ![p].new = call[p].known, ![p].pc = AfterRead[call[p].kind]]
    /\ UNCHANGED <<row, zfs, key, clones, suspect>>

\* A transaction that ends leaves what it wrote in the row, if it wrote the
\* vsize, and the database to the others.
Written(p) == IF call[p].new = None THEN row ELSE call[p].new
Release(p) == writer' = writer \ {p}
Record(p) ==
    /\ row' = Written(p) /\ Release(p)
    /\ suspect' = suspect \ {"row"}

Report(p) ==
    /\ At(p, "stat", "report")
    /\ Record(p) /\ Return(p)
    /\ UNCHANGED <<zfs, key, clones>>

-----------------------------------------------------------------------------
(* Volume.resize.                                                          *)

\* The exception rolls a recovered size back.
RejectShrink(p) ==
    /\ At(p, "resize", "check") /\ call[p].arg < call[p].known
    /\ Release(p)
    /\ Return(p)
    /\ UNCHANGED <<row, zfs, key, clones, suspect>>

ClearAnySize(p) ==  \* mutant of ClearSize
    /\ At(p, "resize", "check") /\ CanWrite(p)
    /\ row' = None /\ Release(p)
    /\ call' = [call EXCEPT ![p].new = None, ![p].pc = "grow"]
    /\ UNCHANGED <<zfs, key, clones, suspect>>

KeepSizeSet(p) ==  \* mutant of ClearSize
    /\ At(p, "resize", "check") /\ call[p].arg >= call[p].known /\ CanWrite(p)
    /\ row' = call[p].arg /\ Release(p)
    /\ call' = [call EXCEPT ![p].new = None, ![p].pc = "grow"]
    /\ UNCHANGED <<zfs, key, clones, suspect>>

\* The first transaction ends with the vsize set to NULL.
ClearSize(p) ==
    /\ At(p, "resize", "check") /\ call[p].arg >= call[p].known /\ CanWrite(p)
    /\ row' = None /\ Release(p)
    /\ call' = [call EXCEPT ![p].new = None, ![p].pc = "grow"]
    /\ UNCHANGED <<zfs, key, clones, suspect>>

Grow(p) ==
    /\ At(p, "resize", "grow")
    /\ volsize' = call[p].arg
    /\ Goto(p, "measure")
    /\ UNCHANGED <<row, copies, refres, key, clones, writer, suspect>>

\* get_zvol_size_bytes: what ZFS made of the requested size.
Measure(p) ==
    /\ At(p, "resize", "measure")
    /\ call' = [call EXCEPT ![p].got = volsize, ![p].pc = "update"]
    /\ UNCHANGED <<row, zfs, key, clones, writer, suspect>>

RecordOldSize(p) ==  \* mutant of UpdateSize
    /\ At(p, "resize", "update") /\ CanWrite(p)
    /\ writer' = {p}
    /\ call' = [call EXCEPT ![p].new = call[p].known, ![p].pc = "sync"]
    /\ UNCHANGED <<row, zfs, key, clones, suspect>>

UpdateSize(p) ==
    /\ At(p, "resize", "update") /\ CanWrite(p)
    /\ writer' = {p}
    /\ call' = [call EXCEPT ![p].new = call[p].got, ![p].pc = "sync"]
    /\ UNCHANGED <<row, zfs, key, clones, suspect>>

\* vol_sync_thick_refreservation: a thick VDI reserves volsize * copies.
ReadReservation(p) ==
    /\ call[p].pc = "sync"
    /\ call' = [call EXCEPT ![p].pc = "reserve",
                            ![p].res = IF refres > 0 THEN volsize * copies ELSE 0]
    /\ UNCHANGED <<row, zfs, key, clones, writer, suspect>>

Reserve(p) ==
    /\ call[p].pc = "reserve"
    /\ refres' = IF call[p].res > 0 THEN call[p].res ELSE refres
    /\ suspect' = suspect \ {"refres"}
    /\ Goto(p, "commit")
    /\ UNCHANGED <<row, volsize, copies, key, clones, writer>>

CommitSize(p) ==
    /\ At(p, "resize", "commit")
    /\ Record(p) /\ Return(p)
    /\ UNCHANGED <<zfs, key, clones>>

-----------------------------------------------------------------------------
(* Volume.clone, as far as sizes go: the row of the clone gets the vsize   *)
(* read first, its zvol the size the zvol has when it is snapshotted.      *)

MakeClone(p) ==
    /\ At(p, "clone", "clone") /\ CanWrite(p)
    /\ writer' = {p}
    /\ call' = [call EXCEPT ![p].got = volsize, ![p].pc = "thick"]
    /\ UNCHANGED <<row, zfs, key, clones, suspect>>

Thicken(p) ==
    /\ At(p, "clone", "thick")
    /\ call' = [call EXCEPT ![p].pc = "commit",
                            ![p].res = IF refres > 0 THEN call[p].got * Inherited ELSE 0]
    /\ UNCHANGED <<row, zfs, key, clones, writer, suspect>>

CommitClone(p) ==
    /\ At(p, "clone", "commit")
    /\ clones' = clones \cup {[vsize |-> call[p].known, volsize |-> call[p].got,
                               refres |-> call[p].res]}
    /\ Record(p) /\ Return(p)
    /\ UNCHANGED <<zfs, key>>

-----------------------------------------------------------------------------
(* Volume.set and unset of copies: the ZFS property and the reservation    *)
(* that follows from it first, the custom key under the lock afterwards.   *)

SetPropertyOnly(p) ==  \* mutant of SetProperty
    /\ call[p].kind \in {"set", "unset"} /\ call[p].pc = "property"
    /\ copies' = call[p].arg
    /\ Goto(p, "commit")
    /\ UNCHANGED <<row, volsize, refres, key, clones, writer, suspect>>

SetProperty(p) ==
    /\ call[p].kind \in {"set", "unset"} /\ call[p].pc = "property"
    /\ copies' = call[p].arg
    /\ Goto(p, "sync")
    /\ UNCHANGED <<row, volsize, refres, key, clones, writer, suspect>>

KeyKept(p) == IF call[p].kind = "set" THEN call[p].arg ELSE key  \* mutant of KeyOf
KeyOf(p) == IF call[p].kind = "set" THEN call[p].arg ELSE None

CommitKey(p) ==
    /\ call[p].kind \in {"set", "unset"} /\ call[p].pc = "commit"
    /\ writer = {} /\ \A q \in Callers : call[q].kind # "clone"
    /\ key' = KeyOf(p)
    /\ suspect' = suspect \ {"key"}
    /\ Return(p)
    /\ UNCHANGED <<row, zfs, clones, writer>>

-----------------------------------------------------------------------------
(* A ZFS command fails, or the process dies: its transaction is rolled     *)
(* back, the transaction and the ZFS commands before it are not.           *)

Cleared(c)    == c.kind = "resize" /\ c.pc \in {"grow", "measure", "update", "sync",
                                                "reserve", "commit"}
Unreserved(c) == c.pc \in {"measure", "update", "sync", "reserve"}
KeyBehind(c)  == c.kind \in {"set", "unset"} /\ c.pc \in {"sync", "reserve", "commit"}

HalfDone(c) == {x \in {"row", "refres", "key"} : \/ x = "row" /\ Cleared(c)
                                                 \/ x = "refres" /\ Unreserved(c)
                                                 \/ x = "key" /\ KeyBehind(c)}

Fail(p) ==
    /\ call[p] # NoCall
    /\ Return(p) /\ Release(p)
    /\ suspect' = suspect \cup HalfDone(call[p])
    /\ UNCHANGED <<row, zfs, key, clones>>

Step(p) ==
    \/ Resize(p) \/ Stat(p) \/ Clone(p) \/ Set(p) \/ Unset(p)
    \/ ReadRow(p) \/ AskZfs(p) \/ Recover(p) \/ Report(p)
    \/ RejectShrink(p) \/ ClearSize(p) \/ Grow(p) \/ Measure(p)
    \/ UpdateSize(p) \/ CommitSize(p)
    \/ ReadReservation(p) \/ Reserve(p)
    \/ MakeClone(p) \/ Thicken(p) \/ CommitClone(p)
    \/ SetProperty(p) \/ CommitKey(p)
    \/ Fail(p)

Next == \E p \in Callers : Step(p)
Spec == Init /\ [][Next]_vars

-----------------------------------------------------------------------------
(* Properties.                                                             *)

NoneIn(kinds) == \A p \in Callers : call[p].kind \notin kinds

Kinds == {"idle", "resize", "stat", "clone", "set", "unset"}
Pcs   == {"idle", "read", "ask", "recover", "report", "check", "grow", "measure",
          "update", "sync", "reserve", "commit", "clone", "thick", "property"}

\* Every variable keeps its type: sizes within the bound, a reservation never
\* negative, no row beyond what a zvol can be.
TypeOK ==
    /\ row \in Sizes \cup {None} /\ volsize \in Sizes
    /\ copies \in Copies /\ refres \in Nat
    /\ key \in Copies \cup {None}
    /\ clones \subseteq [vsize : Sizes, volsize : Sizes, refres : Nat]
    /\ writer \subseteq Callers
    /\ call \in [Callers -> [kind : Kinds, pc : Pcs, arg : Nat, known : Sizes \cup {None},
                             new : Sizes \cup {None}, got : Sizes \cup {0}, res : Nat]]
    /\ suspect \subseteq {"row", "refres", "key"}

\* A vsize the metabase holds is the size of the zvol, whatever call failed
\* where: Volume.resize clears it before it touches the zvol, and whoever
\* finds it cleared asks ZFS.  It is missing only while a resize runs, or after
\* one failed and until the next call that reads it has returned
\* (recover_vdi_vsize: "so the VDI is usable again without operator
\* intervention").
RowAgrees ==
    /\ row \in {None, volsize}
    /\ NoneIn({"resize"}) /\ "row" \notin suspect => row = volsize

\* No sequence of resizes, recoveries and failures makes the zvol smaller:
\* the check of Volume.resize is against a vsize read from the metabase.
NeverShrinks == [][volsize' >= volsize]_vars

\* A clone is registered with the size its zvol has, and a clone of a thick
\* VDI reserves all of it (Volume.clone, vol_set_thick_refreservation).
ClonesSized ==
    \A c \in clones : c.vsize = c.volsize /\ (c.refres > 0 => c.refres >= c.volsize)

\* While no call is about to change it, a thick VDI reserves its size times
\* its copies.  A call that fails half-way may leave it short, until the next
\* resize, set or unset that gets as far as vol_sync_thick_refreservation.
Guaranteed ==
    NoneIn({"resize", "set", "unset"}) /\ "refres" \notin suspect =>
        refres \in {0, volsize * copies}

\* The custom key says what the zvol has, from the first set or unset that
\* returns after one that failed between the property and the key.
KeysAgree == NoneIn({"set", "unset"}) /\ "key" \notin suspect => key \in {None, copies}
=============================================================================
