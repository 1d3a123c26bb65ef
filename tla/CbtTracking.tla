----------------------------- MODULE CbtTracking -----------------------------
(***************************************************************************)
(* Changed-block tracking of one VDI: the dirty bitmaps inside the QEMUs   *)
(* that have it open, their capture after a ZFS snapshot, what activate    *)
(* and deactivate do with them, the payload files under the SR mount, and  *)
(* the list_changed_blocks of ChangedBlocks that reads through the files.  *)
(*                                                                         *)
(* Two kinds of QEMU open the zvol: the daemon that Datapath.attach spawns *)
(* and registers, which serves NBD clients and sits idle while a VM runs,  *)
(* and the qemu-dm of a domain.  Each has bitmaps of its own, which record *)
(* its own writes only.  The capture, activate and deactivate talk to the  *)
(* daemon when one is registered, and to a domain's QEMU only otherwise.   *)
(*                                                                         *)
(* A payload holds the NAME of an NBD export, not bits: the bits are in    *)
(* memory of a QEMU.  Key 0 is the VDI, key s > 0 its s-th snapshot; the   *)
(* bitmap of a key is "cbt-active" or "cbt-snap-<s>", and <<q, k>> names   *)
(* that of QEMU q.                                                         *)
(***************************************************************************)
EXTENDS ChangedBlocks

CONSTANTS
    Daemon,     \* qemu-storage-daemon of the device; its sockets never change
    Domains,    \* ids of domains that may run: each has its own qemu-dm and sockets
    Limits      \* per mode, what else may happen, the bounds: snapshots taken,
                \* writes, QEMUs that end, granularities, extents that a list asks
                \* for, and the starts: QEMUs that run, and those that track

Modes == DOMAIN Limits

ASSUME CbtAssumption ==
    /\ Domains \subseteq Nat /\ Daemon \notin Domains
    /\ Modes \subseteq {"destroys", "failures", "restarts"}
    /\ \A m \in Modes : /\ Limits[m].snaps \in Nat /\ Limits[m].writes \in Nat
                        /\ Limits[m].exits \in Nat /\ Limits[m].grans \subseteq {1, 2}
                        /\ Limits[m].asked \subseteq Units \X (1..Size)
                        /\ \A s \in Limits[m].starts :
                             /\ s[2] \subseteq s[1] /\ s[1] \subseteq {Daemon} \cup Domains
                             /\ \A d, e \in s[1] \ {Daemon} : d = e

VARIABLES
    mode,       \* chosen at the start: what may go wrong in this behaviour
    gran,       \* granularity the tracking was enabled with
    reg,        \* the registry has an entry for the device
    fresh,      \* domains that have not run yet
    up,         \* QEMUs that have the zvol open
    exits,      \* number of QEMUs that ended
    bitmap,     \* bitmap of a name
    exported,   \* names whose bitmap an NBD server exports
    file,       \* payload file of a key: the names of the bitmaps it refers to
    legacy,     \* a payload under the device key, from before the upgrade
    alive,      \* snapshots that exist
    taken,      \* number of snapshots taken
    writes,     \* number of writes
    changed,    \* units written since the last ZFS snapshot
    told,       \* ... and of each QEMU those its tracking bitmap has recorded
    interval,   \* the same of a snapshot, at its ZFS snapshot,
    late,       \* and the units its capture may add
    saved,      \* units a payload stood for when it was saved, and those it
                \* stands for as long as the QEMU it names lives
    owed,       \* `saved` of the key asked for, when the list began
    cap,        \* the capture in progress, and the QEMU it talks to
    deact       \* the deactivate in progress, and its QEMU

Head  == 0
Limit == Limits[mode]
Snaps == UNION {1..Limits[m].snaps : m \in Modes}
Keys  == {Head} \cup Snaps
Qemus == {Daemon} \cup Domains
Names == Qemus \X Keys

None == [st |-> "none", bits |-> {}]
Empty(st) == [st |-> st, bits |-> {}]

qemu    == <<reg, fresh, up, exits, bitmap, exported>>
disk    == <<changed, told, interval, late, alive, taken, writes>>
ledger  == <<saved, owed>>
config  == <<mode, gran>>
vars    == <<config, qemu, file, legacy, disk, ledger, cap, deact, list>>

\* A write of unit u sets the bit of its block.
Block(u) == {v \in Units : v \div gran = u \div gran}

Nothing == [ever |-> {}, live |-> {}]
Save(k, units) == saved' = [saved EXCEPT ![k] = [ever |-> units, live |-> units]]

CapIdle   == [pc |-> "idle", snap |-> Head, qemu |-> Daemon]
DeactIdle == [pc |-> "idle", qemu |-> Daemon]

\* The VDI may be attached, a domain may run, and tracking has been enabled, or
\* not, on each QEMU.  A payload of an older version is from a daemon that ended.
Init ==
    /\ mode \in Modes
    /\ gran \in Limit.grans
    /\ \E s \in Limit.starts :
         /\ up = s[1] /\ reg = (Daemon \in up) /\ fresh = Domains \ up
         /\ bitmap = [n \in Names |-> IF n[1] \in s[2] /\ n[2] = Head THEN Empty("on") ELSE None]
    /\ exits = 0
    /\ exported = {}
    /\ file = [k \in Keys |-> {}]
    /\ legacy \in (IF mode = "restarts" /\ bitmap = [n \in Names |-> None]
                  THEN BOOLEAN ELSE {FALSE})
    /\ alive = {} /\ taken = 0 /\ writes = 0
    /\ changed = {} /\ told = [q \in Qemus |-> {}]
    /\ interval = [s \in Snaps |-> [all |-> {}, told |-> [q \in Qemus |-> {}]]]
    /\ late = [s \in Snaps |-> {}]
    /\ saved = [k \in Keys |-> Nothing] /\ owed = Nothing
    /\ cap = CapIdle /\ deact = DeactIdle
    /\ list = Idle

-----------------------------------------------------------------------------
(* QEMU.                                                                   *)

\* The QEMU of a domain that has the zvol open, by the scan of their sockets.
Matched == up \ {Daemon}

\* Whom capture, activate and deactivate talk to: the registered daemon, dead or
\* alive, and only when none is registered the QEMU of a domain.
Found      == IF reg THEN {Daemon} ELSE Matched
Tracked(q) == q \in up /\ bitmap[<<q, Head>>].st # "none"

\* A command on a bitmap that is exported is refused: the bitmap is in use.
\* Each command connects anew, and reaches whoever listens on the socket.
Usable(n) == n[1] \in up /\ bitmap[n].st # "none" /\ n \notin exported

SetState(n, st) == bitmap' = [bitmap EXCEPT ![n].st = st]

\* A capture that has not cleared the active bitmap yet carries a write into the
\* bitmap of the snapshot, whose ZFS snapshot is from before it; until it has
\* enabled the bitmap again nothing is recorded.
Moving(q) ==
    \/ cap.pc = "find"
    \/ cap.qemu = q /\ cap.pc \in {"disable", "add", "merge", "clear", "enable"}

\* Otherwise a tracking bitmap may be off only after a capture that broke off,
\* or a deactivate.
Records(q) ==
    /\ bitmap[<<q, Head>>].st # "none" /\ ~Moving(q)
    /\ mode = "destroys" \/ bitmap[<<q, Head>>].st = "on"

Wrote(u) ==
    /\ writes < Limit.writes
    /\ writes' = writes + 1
    /\ changed' = changed \cup {u}
    /\ late' = IF cap.pc = "idle" THEN late
               ELSE [late EXCEPT ![cap.snap] = @ \cup {u}]
    /\ UNCHANGED <<config, reg, fresh, up, exits, exported, file, legacy, interval, alive,
                   taken, ledger, cap, deact, list>>

\* Through a QEMU: an NBD client of the daemon (a migration or a copy that fills
\* the VDI), or a domain's emulated disk.
Write(u, q) ==
    /\ q \in up /\ Wrote(u)
    /\ bitmap' = [n \in Names |-> IF n[1] = q /\ bitmap[n].st = "on"
                                  THEN [bitmap[n] EXCEPT !.bits = @ \cup Block(u)]
                                  ELSE bitmap[n]]
    /\ told' = IF Records(q) THEN [told EXCEPT ![q] = @ \cup {u}] ELSE told

\* Through the kernel's block backend, which serves a domain's PV disk: no QEMU
\* sees it.
WriteDirect(u) == Wrote(u) /\ UNCHANGED <<bitmap, told>>

\* Bitmaps and exports were in the memory of the QEMU, and a fetch from it ends
\* with it.  The payloads that name it stay.
Ended(q) ==
    /\ mode = "restarts" /\ q \in up /\ exits < Limit.exits
    /\ up' = up \ {q} /\ exits' = exits + 1
    /\ bitmap' = [n \in Names |-> IF n[1] = q THEN None ELSE bitmap[n]]
    /\ exported' = {n \in exported : n[1] # q}
    /\ IF list.pc \in {"request", "reply"} /\ list.bitmap[1] = q
       THEN ListFetchFails ELSE UNCHANGED list
    /\ saved' = [k \in Keys |-> IF \E n \in file[k] : n[1] = q
                                THEN [saved[k] EXCEPT !.live = {}] ELSE saved[k]]
    /\ owed' = IF \E n \in list.names : n[1] = q THEN [owed EXCEPT !.live = {}] ELSE owed
    /\ told' = [told EXCEPT ![q] = {}]
    /\ interval' = [s \in Snaps |-> [interval[s] EXCEPT !.told = [@ EXCEPT ![q] = {}]]]
    /\ UNCHANGED <<config, fresh, file, legacy, changed, late, alive, taken, writes, cap, deact>>

\* A domain stops, or a QEMU dies; the registry does not notice.
Exit(q) == Ended(q) /\ UNCHANGED reg

\* A domain starts, under the next id; xapi gives the VDI to one at a time.
Boot(d) ==
    /\ mode = "restarts" /\ up \subseteq {Daemon}
    /\ d \in fresh /\ \A e \in fresh : d <= e
    /\ up' = up \cup {d} /\ fresh' = fresh \ {d}
    /\ UNCHANGED <<config, reg, exits, bitmap, exported, file, legacy, disk, ledger, cap, deact, list>>

\* Datapath.attach reuses the daemon that lives, and spawns one otherwise; it goes
\* on without one when that fails.
Attach ==
    /\ mode = "restarts" /\ Daemon \notin up
    /\ \/ reg' = TRUE /\ up' = up \cup {Daemon}
       \/ reg' = FALSE /\ UNCHANGED up
    /\ UNCHANGED <<config, fresh, exits, bitmap, exported, file, legacy, disk, ledger, cap, deact, list>>

\* The collection of any other attach drops the entry of a daemon that died.
Collect ==
    /\ reg /\ Daemon \notin up
    /\ reg' = FALSE
    /\ UNCHANGED <<config, fresh, up, exits, bitmap, exported, file, legacy, disk, ledger, cap,
                   deact, list>>

\* Datapath.detach, when no domain has the VDI any more.
Detach == up = {Daemon} /\ Ended(Daemon) /\ reg' = FALSE

Lifecycle ==
    \/ \E q \in up : Exit(q)
    \/ \E d \in fresh : Boot(d)
    \/ Attach \/ Collect \/ Detach

-----------------------------------------------------------------------------
(* Volume.snapshot of the VDI and its capture, one QMP command each.       *)

Active == <<cap.qemu, Head>>      \* "cbt-active" of the QEMU the capture talks to
Frozen == <<cap.qemu, cap.snap>>  \* the bitmap it makes there

CapGoto(pc) == cap' = [cap EXCEPT !.pc = pc]
CapRest     == UNCHANGED <<config, reg, fresh, up, exits, file, legacy, disk, ledger, deact, list>>

\* The ZFS snapshot is taken and committed under the lock, the capture follows
\* outside of it; xapi does not start a second snapshot of the VDI meanwhile.
TakeSnapshot ==
    /\ cap.pc = "idle" /\ taken < Limit.snaps
    /\ LET s == taken + 1
       IN /\ taken' = s /\ alive' = alive \cup {s}
          /\ interval' = [interval EXCEPT ![s] = [all |-> changed, told |-> told]]
          /\ cap' = [pc |-> "find", snap |-> s, qemu |-> Daemon]
    /\ changed' = {} /\ told' = [q \in Qemus |-> {}]
    /\ UNCHANGED <<config, qemu, file, legacy, writes, late, ledger, deact, list>>

\* No QEMU has the VDI, or the one that is found does not track it: nothing to
\* do, whatever another QEMU may have recorded.
CapFind ==
    /\ cap.pc = "find"
    /\ \/ \E q \in Found : Tracked(q) /\ cap' = [cap EXCEPT !.pc = "disable", !.qemu = q]
       \/ (\A q \in Found : ~Tracked(q)) /\ cap' = CapIdle
    /\ CapRest /\ UNCHANGED <<bitmap, exported>>

CapDisable ==
    /\ cap.pc = "disable" /\ Usable(Active)
    /\ SetState(Active, "off") /\ CapGoto("add")
    /\ CapRest /\ UNCHANGED exported

\* QEMU creates a bitmap enabled: it records writes until it is exported.
CapAdd ==
    /\ cap.pc = "add" /\ cap.qemu \in up /\ bitmap[Frozen].st = "none"
    /\ bitmap' = [bitmap EXCEPT ![Frozen] = Empty("on")]
    /\ CapGoto("merge")
    /\ CapRest /\ UNCHANGED exported

CapMerge ==
    /\ cap.pc = "merge" /\ Usable(Active) /\ Usable(Frozen)
    /\ bitmap' = [bitmap EXCEPT ![Frozen].bits = @ \cup bitmap[Active].bits]
    /\ CapGoto("clear")
    /\ CapRest /\ UNCHANGED exported

CapClearSkipped ==  \* mutant of CapClear
    /\ cap.pc = "clear" /\ Usable(Active)
    /\ CapGoto("enable")
    /\ CapRest /\ UNCHANGED <<bitmap, exported>>

CapClear ==
    /\ cap.pc = "clear" /\ Usable(Active)
    /\ bitmap' = [bitmap EXCEPT ![Active].bits = {}]
    /\ CapGoto("enable")
    /\ CapRest /\ UNCHANGED exported

CapEnableForgotten ==  \* mutant of CapEnable
    /\ cap.pc = "enable" /\ Usable(Active)
    /\ CapGoto("freeze")
    /\ CapRest /\ UNCHANGED <<bitmap, exported>>

CapEnable ==
    /\ cap.pc = "enable" /\ Usable(Active)
    /\ SetState(Active, "on") /\ CapGoto("freeze")
    /\ CapRest /\ UNCHANGED exported

CapFreeze ==
    /\ cap.pc = "freeze" /\ Usable(Frozen)
    /\ SetState(Frozen, "off") /\ CapGoto("export")
    /\ CapRest /\ UNCHANGED exported

\* An enabled bitmap cannot be exported read-only, and no name twice.
Exportable(n) == Usable(n) /\ bitmap[n].st = "off"

CapExport ==
    /\ cap.pc = "export" /\ Exportable(Frozen)
    /\ exported' = exported \cup {Frozen}
    /\ CapGoto("save")
    /\ CapRest /\ UNCHANGED bitmap

\* The file is replaced in one step, by a rename.
WritePayload(k, names) == file' = [file EXCEPT ![k] = names]
RemovePayload(k)       == WritePayload(k, {})

CapSaveUnderParent ==  \* mutant of CapSave
    /\ cap.pc = "save"
    /\ WritePayload(Head, {Frozen})
    /\ Save(Head, interval[cap.snap].told[cap.qemu])
    /\ cap' = CapIdle
    /\ UNCHANGED <<config, qemu, legacy, disk, owed, deact, list>>

CapSave ==
    /\ cap.pc = "save"
    /\ WritePayload(cap.snap, {Frozen})
    /\ Save(cap.snap, interval[cap.snap].told[cap.qemu])
    /\ cap' = CapIdle
    /\ UNCHANGED <<config, qemu, legacy, disk, owed, deact, list>>

\* QEMU refuses a command or does not answer: the snapshot succeeds all the
\* same, and whatever the capture has done so far stays.
Refused ==
    CASE cap.pc = "add" -> cap.qemu \notin up \/ bitmap[Frozen].st # "none"
      [] cap.pc = "merge" -> ~Usable(Active) \/ ~Usable(Frozen)
      [] cap.pc \in {"disable", "clear", "enable"} -> ~Usable(Active)
      [] cap.pc = "freeze" -> ~Usable(Frozen)
      [] cap.pc = "export" -> ~Exportable(Frozen)
      [] OTHER -> FALSE

CapFails ==
    /\ cap.pc # "idle"
    /\ mode = "failures" \/ Refused
    /\ cap' = CapIdle
    /\ CapRest /\ UNCHANGED <<bitmap, exported>>

Capture ==
    \/ CapFind \/ CapDisable \/ CapAdd \/ CapMerge \/ CapClear \/ CapEnable
    \/ CapFreeze \/ CapExport \/ CapSave \/ CapFails

\* xapi can name a snapshot only when Volume.snapshot has returned.
DestroySnapshot(s) ==
    /\ mode = "destroys"
    /\ s \in alive /\ cap.snap # s
    /\ alive' = alive \ {s}
    /\ RemovePayload(s)
    /\ UNCHANGED <<config, qemu, legacy, changed, told, interval, late, taken, writes,
                   ledger, cap, deact, list>>

-----------------------------------------------------------------------------
(* Datapath.activate and deactivate.                                       *)

\* What the upgrade left under the old key, unless there is a newer payload.
Migrated == IF legacy /\ file[Head] = {} THEN [file EXCEPT ![Head] = {<<Daemon, Head>>}] ELSE file

\* A bitmap that exists is left as it is, enabled or not; a QEMU that does not
\* answer gets none.
Prepared(q) ==
    IF q \in up /\ bitmap[<<q, Head>>].st = "none"
    THEN [bitmap EXCEPT ![<<q, Head>>] = Empty("on")] ELSE bitmap

Activate ==
    /\ mode = "restarts" /\ deact.pc = "idle"
    /\ file' = Migrated /\ legacy' = FALSE
    /\ \E q \in Found : bitmap' = IF Migrated[Head] # {} THEN Prepared(q) ELSE bitmap
    /\ UNCHANGED <<config, reg, fresh, up, exits, exported, disk, ledger, cap, deact, list>>

DeactActive   == <<deact.qemu, Head>>
DeactGoto(pc) == deact' = [deact EXCEPT !.pc = pc]
DeactRest     == UNCHANGED <<config, reg, fresh, up, exits, disk, owed, cap, list>>

Deactivate ==
    /\ mode = "restarts" /\ deact.pc = "idle"
    /\ \E q \in Found : Tracked(q) /\ deact' = [pc |-> "freeze", qemu |-> q]
    /\ file' = Migrated /\ legacy' = FALSE
    /\ DeactRest /\ UNCHANGED <<bitmap, exported, saved>>

DeactFreeze ==
    /\ deact.pc = "freeze" /\ Usable(DeactActive)
    /\ SetState(DeactActive, "off")
    /\ DeactGoto("export")
    /\ DeactRest /\ UNCHANGED <<exported, file, legacy, saved>>

DeactExport ==
    /\ deact.pc = "export" /\ Exportable(DeactActive)
    /\ exported' = exported \cup {DeactActive}
    /\ DeactGoto("save")
    /\ DeactRest /\ UNCHANGED <<bitmap, file, legacy, saved>>

DeactSave ==
    /\ deact.pc = "save"
    /\ WritePayload(Head, {DeactActive})
    /\ Save(Head, told[deact.qemu])
    /\ deact' = DeactIdle
    /\ DeactRest /\ UNCHANGED <<bitmap, exported, legacy>>

DeactFails ==
    /\ \/ deact.pc = "freeze" /\ ~Usable(DeactActive)
       \/ deact.pc = "export" /\ ~Exportable(DeactActive)
    /\ deact' = DeactIdle
    /\ DeactRest /\ UNCHANGED <<bitmap, exported, file, legacy, saved>>

Datapath == Activate \/ Deactivate \/ DeactFreeze \/ DeactExport \/ DeactSave \/ DeactFails

-----------------------------------------------------------------------------
(* Volume.list_changed_blocks.                                             *)

ListRest == UNCHANGED <<config, qemu, file, legacy, disk, saved, cap, deact>>

Fetching == list.pc \in {"request", "reply"}

Listing(k, off, len) ==
    /\ ListBegin(k, file[k], off, len)
    /\ owed' = saved[k]

ListReturns ==
    /\ ListReturn
    /\ owed' = Nothing

ListStep ==
    \/ ListConnect(exported)
    \/ ListRequest
    \/ Fetching /\ ListReply(bitmap[list.bitmap].bits)
    \/ ListChunkDone
    \/ mode = "failures" /\ ListFetchFails
    \/ ListFetched
    \/ ListPack(IF file[list.key] = {} THEN {} ELSE {gran})

List ==
    /\ \/ \E k \in {Head} \cup alive, e \in Limit.asked : Listing(k, e[1], e[2])
       \/ ListStep /\ UNCHANGED owed
       \/ ListReturns
    /\ ListRest

-----------------------------------------------------------------------------
Next ==
    \/ \E u \in Units : WriteDirect(u) \/ \E q \in up : Write(u, q)
    \/ Lifecycle
    \/ TakeSnapshot \/ Capture
    \/ \E s \in Snaps : DestroySnapshot(s)
    \/ Datapath
    \/ List

Spec == Init /\ [][Next]_vars

-----------------------------------------------------------------------------
(* Properties.                                                             *)

\* Types; only a QEMU that runs has bitmaps, an export has a frozen one behind
\* it, a daemon that runs is registered, a file names bitmaps of its own key
\* only, and what a QEMU has recorded has changed.
TypeOK ==
    /\ mode \in Modes /\ gran \in {1, 2} /\ reg \in BOOLEAN /\ legacy \in BOOLEAN
    /\ fresh \subseteq Domains /\ up \subseteq Qemus \ fresh /\ exits \in 0..Limit.exits
    /\ Daemon \in up => reg
    /\ bitmap \in [Names -> [st : {"none", "on", "off"}, bits : SUBSET Units]]
    /\ \A n \in Names : n[1] \notin up => bitmap[n] = None
    /\ exported \subseteq {n \in Names : bitmap[n].st = "off"}
    /\ file \in [Keys -> SUBSET Names] /\ \A k \in Keys : file[k] \subseteq Qemus \X {k}
    /\ alive \subseteq 1..taken /\ taken \in 0..Limit.snaps /\ writes \in 0..Limit.writes
    /\ changed \subseteq Units /\ told \in [Qemus -> SUBSET changed]
    /\ deact \in [pc : {"idle", "freeze", "export", "save"}, qemu : Qemus]
    /\ list.got \subseteq Extent /\ list.all \subseteq Extent

Answered  == list.pc = "done" /\ list.names # {}
Complete  == Answered /\ ~list.omitted
ReplyOf(units) == BlocksOf(units, list.off, list.len, list.gran)

\* list_changed_blocks: a reply read from all the payloads of a key names every
\* block whose write the tracking bitmap of the QEMU the payload names recorded
\* between the ZFS snapshot before it and the key, but for writes made while a
\* capture or a deactivate had stopped the tracking, and those whose bits were in a
\* QEMU that has ended.  It says NOTHING of writes that went another way, through
\* the kernel or another QEMU: the code reports none of them.
NothingMissed == Complete => ReplyOf(owed.live) \subseteq list.bits

\* ... and when no capture breaks off no other block, but for writes made during the
\* capture of the snapshot itself.
NothingExtra ==
    mode = "destroys" /\ Answered /\ list.key # Head =>
        list.bits \subseteq
            ReplyOf(UNION {Block(u) : u \in interval[list.key].all \cup late[list.key]})

\* However the walk is cut into chunks and descriptors, and whatever extent is
\* asked for, the reply has exactly the blocks that are dirty in the bitmaps.
ReportsBitmaps ==
    mode # "restarts" /\ Complete =>
        list.bits = ReplyOf(UNION {bitmap[n].bits : n \in list.names})

\* A payload once saved tells what was written, whatever became of the QEMU.
Durable == Answered => ReplyOf(owed.ever) \subseteq list.bits
=============================================================================
