# Formal models of the ZFS-Live SMAPIv3 driver

This directory holds TLA+ specifications of the driver in `src/`, the TLC
configurations that check them on small instances, and TLAPS proofs of the
properties that matter most. `PROJECT.json` relates every definition to the
lines it models and lists the runs, the mutants, the findings and the hazards.

## 1. The system

The driver is a set of Python plugins that xapi executes, one process per call.
State lives in ZFS, in the SR's *metabase* (a libcow sqlite database), in small
files on the host, and in daemons (qemu-dp, NBD proxies) that outlive a call.

| Component | Source | State it keeps | Operations |
|---|---|---|---|
| Volume operations | `volume/volume.py` | metabase rows (`vdi`, `volume`), zvols, ZFS snapshots | `create`, `destroy`, `snapshot`, `clone`, `stat` |
| Resize, properties | `volume/volume.py` | `vsize` of a volume row, `volsize` of the zvol, custom keys | `resize`, `set`, `unset`, `recover_vdi_vsize` |
| Copy and import | `volume/volume.py` | temporary snapshot, destination zvol without a row | `copy`, `import_existing` |
| SR and orphan scan | `volume/sr.py`, `volume/zfs_operations.py` | pool, dataset, mount, SR marker, metadata file | `create`, `destroy`, `attach`, `detach`, `ls`, `stat`, `probe` |
| ZFS layer | `volume/zfs_operations.py`, `volume/lzc.py` | none (caches) | one function per ZFS command, EBUSY retries, recursive destroy |
| Datapath | `datapath/datapath.py`, `datapath/qemudisk_raw.py` | pickle file per device, qemu-dp process, QMP state | `attach`, `activate`, `deactivate`, `detach`, `open`, `close`, import variants, mirrors |
| Changed-block tracking | `volume/volume.py`, `datapath/qemudisk_raw.py`, `datapath/cbt_consumer.py` | dirty bitmaps in qemu-dp, `<sr>/.zfs-live/cbt/*.pickle` | capture at snapshot, persist at deactivate, restore at activate, `list_changed_blocks` |
| NBD | `datapath/nbd_proxy.py`, `datapath/nbd_client.py` | sockets | proxying, block-status walk |
| Host shims | `shim/xe_wrapper.py`, `shim/xapi_compat.py`, `shim/*sr_metadata.py` | sidecar files | cross-host copy, import compatibility |
| Installer, plugin glue | `installer.sh`, `plugin*.py`, `sr_capability_summary.py`, `libcow/imageformat.py` | files on a host | install, query |

How they interact:

* A `Volume.*` operation takes the `gl` PollLock, opens one metabase
  transaction (`db_context`), runs ZFS commands, and commits when the block
  ends. ZFS commands take effect at once; rows appear at the commit.
* `SR.ls` does **not** take the `gl` lock. It reads the rows, then lists zvols
  and snapshots, and destroys those without a row (with
  `auto_cleanup_orphans`), unless a process holds the device open or they are
  younger than `orphan_grace_period_seconds`.
* The datapath opens the zvols; the orphan scan looks at its pickle files.
* `Volume.snapshot` calls into the datapath's CBT helpers after its commit.

### What is hard

Unlocked readers against locked writers (orphan scan, resize), the gap between
ZFS effects and commit (crash, exception), clone and promote re-parenting
snapshots, daemons whose registry is a file, retries on EBUSY, and sequences of
legal calls (snapshot, destroy parent, destroy snapshot). `PROJECT.json`
"hazards" lists each one at its line.

### What makes each component correct

* Volume operations and scan: no VDI with a row loses its zvol or snapshot; no
  object in the making is destroyed; a destroy leaves nothing; what crashes
  leave behind is destroyed in the end; a snapshot never changes.
* Resize: the row's size is the zvol's size whenever nobody is resizing; a
  resize never shrinks a zvol.
* Copy: the copy holds the source's content, or is not registered at all; a
  copy that failed leaves nothing; one command makes one copy.
* CBT: what the QEMU a payload names has recorded is in the reply, and nothing
  else; what it has not recorded is lost (Observations).
* Datapath: every daemon can be found again; a zvol has one at most, and
  none once it is detached; no daemon is taken from a domain that was handed it.
* SR life cycle: no SR inside another; an SR is found, mounted and destroyed by
  the marker and the files its create left; a destroy takes its own only.
* Recursive destroy: the order never comes to an origin before its clone.

## 2. Modules

| Module | Models | Composes |
|---|---|---|
| `VdiCatalog` | abstract: the catalog of VDIs and contents clients are promised | |
| `VolumeStore` | `Volume.create/snapshot/clone/destroy` under the lock, `SR.ls` without it, device users, time, crash | refines `VdiCatalog` (`ImplementsCatalog`) |
| `VolumeStoreProofs` | type correctness, the store's inductive invariants with and without a grace period, the refinement | extends `VolumeStore` |
| `VolumeLineageProofs` | the promotions of a destroy suffice, what an interrupted one leaves | extends `VolumeStoreProofs` |
| `VdiSize` | the size of one VDI: `resize`, `stat` and the recovery it shares with `SR.ls`, `clone`, `set`/`unset` of `copies` | |
| `VdiSizeProofs` | type correctness, sizes, reservations and keys | extends `VdiSize` |
| `VdiCopy` | one `Volume.copy` against the `SR.ls` of both SRs and a `Volume.destroy` of the source | |
| `VdiCopyProofs` | type correctness, clean-up, the grace period | extends `VdiCopy` |
| `XeWrapper` | `xe vdi-copy` through the wrapper: `Volume.copy` on this host, the transfer to another one and its `Volume.import_existing`, the fallback to the real xe | extends `VdiCopy`, whose steps are its "same host" path |
| `XeWrapperProofs` | the wrapper implements `Volume.copy`, one copy, clean-up | extends `XeWrapper`, `VdiCopyProofs` |
| `DaemonRegistry` | attach, `import_activate`, detach, close and the garbage collection: daemons, proxies and their pickle files | |
| `DaemonRegistryProofs` | type correctness, findable, one daemon, released, served | extends `DaemonRegistry` |
| `ChangedBlocks` | `Volume.list_changed_blocks`: payloads, NBD requests, packing | |
| `CbtTracking` | the registered daemon and the QEMUs of domains, each with its bitmaps; capture after a snapshot, activate and deactivate, payload files | extends `ChangedBlocks`, to whose actions it gives the bitmaps |
| `CbtTrackingProofs` | type correctness, packing, what a list misses and adds | extends `CbtTracking` |
| `SrLifecycle` | SR create, adopt, attach, detach, destroy, probe, reboot; recursive destroy and its EBUSY retries | |
| `SrLifecycleProofs` | the tree, nesting, files, adoption, order and reach of destroys | extends `SrLifecycle` |
| `MC...` | the instance of each module that TLC checks | extends the module |

### VolumeStore: state and actions

| Variable | Code |
|---|---|
| `zvol`, `origin`, `holder`, `ro` | the zvols below `<pool>/<sr>`, their `origin`, the zvol `z` of each snapshot `z@s`, `readonly=on` |
| `data`, `snapData` | what a zvol and a snapshot contain (a version number per guest write) |
| `vdis`, `snapRows`, `parent` | committed `vdi` rows, those whose volume row has `snap = 1`, `parent_id` |
| `open` | devices some process holds open or serves (`_zvol_device_is_open`, `_zvol_has_active_datapath`) |
| `op` | the one operation that holds `gl`: kind, program counter, uuids it draws, rows its transaction will insert, `vol_dependencies` |
| `ls` | the `SR.ls` in progress: `known_vdi_uuids`, the orphans still to be destroyed |
| `aged`, `next` | objects older than the grace period; the next uuid |
| `doomed` | history: VDIs a destroy has begun to take apart |

Each ZFS command is one action, so `SR.ls`, a failure (`Abort`) or a crash can
come between any two. The commit (`Commit`) inserts and deletes all rows of the
operation at once. `Abort` stands for the exception of any failing command; it
must be taken when the guard of the next command is false, and may be taken
anywhere.

Reading decisions:

* `VolumeContext` is a shared-file context and not taken to exclude others;
  exclusion comes from `PollLock(opq, "gl", ...)`, which every modelled
  operation takes and `SR.ls` does not. One `SR.ls` runs at a time.
* Identifiers are drawn in increasing order and never reused (uuid4). Their
  order is the order of creation, which is the order `zfs list -t snapshot`
  prints and the order `zfs promote` splits snapshots by. An operation that
  draws two (`clone`) uses them in that order.
* The grace period (3600 s by default) is assumed longer than an operation plus
  a scan: `Age` never passes what was created since either began. This is the
  assumption under which the scan is safe; with `UseGrace = FALSE` it is not.
* Thick reservations, names, sizes and CBT capture are left out of this module.
* A destroy attempted by the scan fails exactly when ZFS refuses it; sporadic
  failures are logged by the code and retried by the next scan.

### VdiSize: state and actions

| Variable | Code |
|---|---|
| `row` | `vsize` of the volume row, `None` while it is NULL |
| `volsize`, `copies`, `refres` | the ZFS properties of the zvol |
| `key` | the custom key `copies` |
| `clones` | what clones were registered and made with |
| `writer` | the transaction that has written the metabase and not ended |
| `call` | per caller: kind, program counter, argument, `vdi.volume.vsize` in memory, what its transaction will write, sizes read from ZFS |
| `suspect` | history: what a call that failed or crashed has left half done (the row NULL, the reservation, the key), until a call puts it right |

Every ZFS command and every metabase statement that matters is an action, so
calls interleave inside `resize`, which takes no `gl` lock. A metabase
transaction excludes other writers from its first INSERT or UPDATE to its end
(sqlite as Python's module uses it); its SELECTs come before and exclude nobody.
`Fail` stands for any exception and for a crash; the transaction is rolled
back, ZFS stays as it is. Sizes are numbers of volume blocks, so the rounding
ZFS does is left out. The three property reads of
`vol_sync_thick_refreservation` are one action; the write is another. Snapshots
register the size they read in the same way as clones. `Overlap` is the set of
pairs of kinds of call that may be in progress at the same time.

### VdiCopy: state and actions

| Variable | Code |
|---|---|
| `same`, `src` | `same_pool`; the source VDI exists |
| `snap` | the zvol that holds the transient snapshot (a promotion moves it) |
| `dest`, `recv` | the zvol of the copy, absent, being received or there; the snapshot `zfs receive` makes of it |
| `row` | the row phase 4 inserts |
| `pc` | the next step of `Volume.copy`, its two exception handlers included |
| `old` | objects past the grace period |
| `scan` | per SR the `SR.ls` in progress: whether it knows the row, whether it began after the copy ended, orphans found |

The phases run without a lock except the first (source SR) and the last
(destination SR), each of which is one action. `DestroySource` is the effect of
`Volume.destroy`, which `VolumeStore` models in detail: a snapshot on the source
goes to the copy when that is its clone, else to a VDI made for the purpose.
`zfs receive` creates the dataset when it begins, so its age counts from there,
and keeps the creation time of the snapshot sent. A zvol being received, and a
snapshot being sent, are busy: ZFS refuses to destroy them, and to promote.
`auto_cleanup_orphans` is taken to be true.

### XeWrapper: state and actions

`XeWrapper` extends `VdiCopy`: on the route "same" its `volume_copy` step is the
whole of `Volume.copy`, and the scans and the destroy of the source go on around
it.

| Variable | Code |
|---|---|
| `route` | what `_should_intercept` and the SR look-ups amount to: same host, cross host, neither |
| `step` | control of `main` and `_invoke_cross_host_copy` |
| `near` | the snapshot `_invoke_cross_host_copy` takes of the source |
| `far` | on the other host: the zvol, the received snapshot, the row |
| `import` | control of `Volume.import_existing`, a process of the other host |
| `slow` | a copy the real xe has made |
| `shown` | the wrapper printed the new uuid |
| `slipped` | history: an answer was lost or wrong, or a best-effort clean-up did nothing |

The import is a process of its own: when the connection breaks the wrapper goes
on to its clean-up and to the fallback while the import may still commit. A
clean-up may do nothing, as the code ignores its failures. The parsing of
arguments and the queries behind the decision are the choice of `route`.

### DaemonRegistry: state and actions

| Variable | Code |
|---|---|
| `zvol` | the device nodes that exist |
| `reg` | per device its metadata directory and pickle file: neither, the directory only, the file truncated and not written, the file with pid and proxy pid |
| `proc`, `dying` | live processes (qemu-storage-daemon, SCM proxy); daemons told to quit that have not exited |
| `call` | per device the call in progress, with the entry it holds in memory and what its collection has listed and looked at |
| `users` | domains a device is attached to |
| `nbd` | daemons whose socket `attach` replied with |
| `leak`, `crashes` | history: devices a call was killed on, or one of whose processes outlived its entry; calls killed |

`Probe` to `ForkProxy` are `attach` and `import_activate`, one action per file
operation or process started; `GcList` to `GcRmdir` are `_gc_orphan_daemons`;
`DetachQuit` and `DetachRemove` are `detach` (and `close`, which is the same).
`save_metadata` is three actions, because `open(path, "wb")` truncates the file
before `pickle.dump` writes it and no lock is held.

xapi does not run two calls on one device at a time. What else it may do is
`mode`, drawn at the start: calls are killed, a device is shared by several
domains, or calls on different devices overlap. A pid that something remembers
is not given to another process: pid reuse is left out. So is a call that fails
with ENOENT because another removed the same entry between the `exists` and the
`unlink` of `remove_metadata` (`qemudisk_raw.py:1267-1269`): here the second
removal finds nothing to do, and the call goes on.

### ChangedBlocks and CbtTracking: state and actions

| Variable | Code |
|---|---|
| `list` | the `list_changed_blocks` in progress: payload names, NBD connection, chunk, extents read, the bits of the reply |
| `reg` | the pickle entry of the device: `Datapath.attach` has registered a daemon, that may have died since |
| `up`, `fresh` | the QEMUs that have the zvol open: the daemon, and the qemu-dm of a domain; domains that have not run |
| `bitmap`, `exported` | per name `<<q, k>>` the bitmap of key `k` in QEMU `q` (none, on, off) and its bits; the exports of the NBD servers |
| `file`, `legacy` | the payload pickles below `<sr>/.zfs-live/cbt`, and one under the key of an older version |
| `cap`, `deact` | the capture after a snapshot and the deactivate in progress, and the QEMU each talks to |
| `alive`, `taken`, `writes`, `exits` | snapshots, and what is bounded |
| `changed`, `told`, `interval`, `late`, `saved`, `owed` | history: what was written since the last ZFS snapshot, what of it the tracking bitmap of each QEMU has recorded, the same of each snapshot, and what each payload stands for |

Two kinds of QEMU have the zvol open. `attach` spawns and registers a
qemu-storage-daemon, which serves NBD clients and idles while a VM runs
(`datapath.py:214-216`); a running domain has its own qemu-dm. Capture, activate
and deactivate ask the registry first (`volume.py:1019`, `datapath.py:1014`,
`1103`), also when the registered daemon is dead, and scan the sockets of the
domains only when nothing is registered (`Found`, `Matched`). A write goes
through one QEMU and sets bits in its bitmaps only (`Write`), or through the
kernel's block backend and sets none (`WriteDirect`).

Each QMP command is an action, so writes, the end of a QEMU, an attach, a
deactivate, a destroy and a list come between any two. The bits are in memory of
the QEMU; a payload holds the name of an export. `PackExtents` translates the
code's clipping and rounding of extents; `BlocksOf` is the reference it is
checked against (`ReportsBitmaps`), for every way QEMU may cut a bitmap into
descriptors. Offsets count the smallest granularity QEMU tracks. `mode` says
what may go wrong in a behaviour: snapshots are destroyed, commands fail, or
QEMUs end and start again with attach, detach, activates and deactivates.

What `NothingMissed` promises is what the code can keep: the writes recorded by
the tracking bitmap of the QEMU that the payload names, before the ZFS snapshot,
while that QEMU lives. It exempts, by the definition of `told`, every write that
went through the kernel or another QEMU, those made while a capture or a
deactivate had stopped the tracking, and those of a QEMU that has ended. The
first of these is not a corner: see Observations.

Left out: other VDIs of the same QEMU (`_detect_block_node` falls back to any
drive that has dirty bitmaps, `qemudisk_raw.py:196-203`, and may take the drive
of another VDI for this one), a daemon that survives the `quit` of a detach
(`DaemonRegistry` has it), and domain ids used again after a reboot of the host.

### SrLifecycle: state and actions

| Variable | Code |
|---|---|
| `fs` | the filesystems of the pool by path: local marker (`xcp:sr`), mountpoint, mounted, metabase, `meta.json`, rows |
| `vol`, `snap` | the zvols with the snapshot each was cloned from; zvols that have a snapshot |
| `srs`, `attached` | what xapi knows: SRs with their device-config, attached SRs with the mountpoint it was told |
| `op` | the SR call in progress: kind, program counter, dataset, what is left to do, tries |
| `lzc` | libzfs_core can be loaded |
| `used`, `unlisted`, `doomed`, `failures` | history and bound |

A path is a sequence of names, names are numbers, so that their order (which
`zfs list` sorts by and the recursive destroy walks backwards) is in the model.
The order of names is total on each level and a listing that covers all nodes in
that order is taken as ZFS gives it (`Listings`). Adopt is guarded by what the
operator has to see to: a dataset is adopted at the bare pool or where its marker
shows an old SR, and not where a live SR is (`docs/installation.md:90-111`).
Markers are inherited as ZFS user properties are. Each ZFS command and each file
write of create, adopt and destroy is an action; `Fail` and `Reboot` may come
between any two, and nothing undoes what a failed call did. `Erase` is
`lzc_destroy` with its errno classes: only EBUSY is tried again, up to
`MaxTries` times (10 in the code). `CliErase` is `zfs destroy -r`, used where the
library cannot be loaded. Attach and detach each make one ZFS change and are one
action. xapi runs one SR call at a time on a host.

### What the runs check

| Run | Bounds | Shows |
|---|---|---|
| `store_core` | 4 uuids, no guest | `RowsBacked`, `PromotionsSuffice`, `InterruptedDestroy`, `DestroyComplete`, `ScanSparesInFlight` |
| `store_life` | 3 uuids, 1 open device, 1 write, fair scans and time | `TypeOK`, `SnapshotsImmutable`, `CopiesFaithful`, `ImplementsCatalog`, `OrphansReclaimed` |
| `store_safe_to_destroy` | 4 uuids | violated: a snapshot VDI becomes undestroyable |
| `size_calls` | 2 callers, 3 sizes, 2 values of copies; a stat overlaps a stat, clone, set or unset, a clone a set or unset | `TypeOK`, `RowAgrees`, `ClonesSized`, `Guaranteed`, `KeysAgree`, `NeverShrinks` |
| `size_scan_shrink` | 3 sizes, `stat`/`SR.ls` overlap | violated: a stale recovery lets a zvol shrink |
| `copy_short` | all routes and both topologies, the transfer within the grace period | `TypeOK`, `CopyBacked`, `CopyTidy`, `OneCopy`, `FarBacked`, `CrossTidy`, `CopyReclaimed` |
| `daemon_life` | 2 devices (one is never destroyed), 2 domains, 2 pids, 1 killed call | `TypeOK`, `Findable`, `OneServer`, `UsersServed`, `OrphansReaped` |
| `daemon_gc` | as `daemon_life`, no killed call | violated: a collection drops the entry of a daemon about to serve |
| `cbt_life` | disk of 3 units, chunks of 2, the daemon and 2 domains; "destroys": 2 snapshots, 2 writes, granularity 1; "failures": 2 snapshots, 1 write, granularity 1 or 2; "restarts": 1 snapshot, 1 write, 1 end of a QEMU, granularity 1 | `TypeOK`, `NothingMissed`, `NothingExtra`, `ReportsBitmaps` |
| `cbt_lost` | 1 snapshot, 1 write, 1 end of a QEMU; a domain alone or a daemon alone at the start | violated: a payload says "no changes" after the QEMU has ended |
| `sr_life` | 2 SRs, 4 paths, an old SR with a zvol, a clone and a nested dataset to adopt, 2 failures or reboots, 2 tries | `TypeOK`, `NoNesting`, `Whole`, `Served`, `Adopted`, `ProbeHonest`, `OrderSuffices`, `DestroysOwn` |
| `sr_destroy_order` | as `sr_life` | violated: the recursive destroy meets an origin before its clone |

Why these bounds. Four uuids are enough for a VDI with two snapshots and a
clone, for a clone of a clone, and for a destroy that has to create a clone (the
shortest such behaviour draws four); the properties that need a guest or
liveness are checked with three. One write is enough to tell a content taken
before it from one taken after. Three sizes are the least for a shrink that an
older, smaller size lets through. `VdiCopy` and `XeWrapper` have no bound: one
command, and one scan of each SR at a time, are all they are about. Two devices
are a collector and the collected, two pids a daemon and its proxy or two
daemons. Three units with chunks of two and blocks of one or two have a chunk
and a block that end at the end of the disk and ones that do not, and `asked`
has an extent that starts and ends inside a block. Two snapshots have an
interval each, and a capture that starts from what the first left. The starts of
`cbt_life` are a VM whose attach got no daemon, an attached VDI with a VM where
both QEMUs track or only that of the VM, and an attached VDI that no VM uses; a
second domain is the next boot of the VM, with other sockets. One write is
enough for "failures" and "restarts", where the properties speak of each unit by
itself; two in "destroys" make dirty patterns with a gap. Two SRs with
one old one are the least for nesting by create, by adopt and by a left-over of
a failed create. The proofs below remove the bounds of the modules they are
about.

Fairness. `FairSpec` of `VolumeStore`: weak fairness of the scan's steps and of
time. xapi scans an attached SR periodically, and a started call runs to its
end. `OrphansReclaimed` supposes that from some point on no operation runs,
nothing is open and no crash cuts a scan short; operations need no fairness.
`XeFairSpec` assumes the same of the scans and of time, and nothing of the copy;
`CopyReclaimed` speaks of a copy that has ended. `FairSpec` of `DaemonRegistry`:
a call that has begun runs to its end unless it is killed, a daemon told to quit
exits (SIGKILL has been sent), and xapi keeps attaching the devices that stay,
which is strong fairness because other calls come in between. `OrphansReaped`
rests on that last assumption: nothing but an attach runs the collection, which
is why a host that attaches nothing keeps its orphans.

### What is proved

For every value of the constants, from the named assumptions of each module:

**`VolumeStore`** (`ConstantsAssumption`: the bounds are natural numbers, at
least one uuid):

* `TypeCorrect`: `Spec => []TypeOK`, with `OpShape` (what the fields of `op`
  mean for each kind) as strengthening.
* With or without a grace period: `PromotionsAlwaysSuffice`,
  `DestroysAreComplete` and `InterruptedDestroysLeaveOnlyTheRow`, so that not even
  a scan that destroys what is in the making spoils a destroy.
* With a grace period (`ASSUME UseGrace`): `VdisStayBacked`,
  `SnapshotsStayImmutable`, `CopiesAreFaithful`, `ScansSpareInFlight`, and
  `StoreImplementsCatalog` (every step of the store is a step of the catalog or
  leaves it alone).

`RowsBacked` is not inductive. `StoreInv` adds `IdOrder` (everything the scan
does not know of is younger than the scan or belongs to the operation, and
whatever is past the grace period is older than both) and `Progress` (what the
operation has made so far is still there, what is open is a live VDI). The
argument: a scan only destroys what is past the grace period and was without a
row when it read them; such a uuid is smaller than `ls.since`, all rows
committed later are not. `CopiesAreFaithful` needs `Copied` beside it: until the
commit the new zvol is a clone of a snapshot that is still there, and shows what
that snapshot shows.

Without a grace period less is true, and `GoneInv` says what is: a VDI whose
destroy has begun keeps its row, has no zvol and is not open, and a destroy that
has come to its commit has begun. `PromotionsSuffice` needs `LineageInv`: `Tree`
(a zvol's origin is older than every snapshot it holds, hence no cycles), `Fresh`
and `Covered` (each snapshot of the doomed zvol is still to be handled or has a
clone to be promoted). The two together give
`InterruptedDestroysLeaveOnlyTheRow`.

**`VdiSize`** (`SizeAssumption`: positive bounds; any set of callers, any set
`Overlap` of kinds that may overlap):

* `SizeTypeCorrect`: `Spec => []TypeOK`, whatever calls overlap. The
  strengthening `CallShape` says which stages each kind of call has and what it
  holds at each.
* `RowsAgree`, `ClonesAreSized` and `ResizesNeverShrink` under `SizesApart`: no resize overlaps another resize, a stat (or SR.ls) or a clone.
* `RestingVdi` under `Apart(Movers)`: no two of resize, set and unset overlap.
* `RestingKeys` under `Apart(Setters)`: no two of set and unset overlap.

Calls fail wherever they like, and whatever the assumption does not name
overlaps freely. For every pair an assumption names, TLC finds a property of the
theorem violated when that pair alone may overlap; the exception is two unsets,
which write the same values and which the assumptions rule out only to stay
simple. They are assumptions on xapi, not on this code, which excludes no two of these calls. There are three
inductive invariants, so that none assumes more than it needs. `SizeInv` adds
`Knows` (a call holds the size the zvol has, and a resize keeps the row NULL from
its first commit on); `ReserveInv` says that a reservation that does not fit is
being adjusted, by a call that has computed it from what the zvol still has, or
is noted in `suspect`; `KeyInv` says the same of the custom key.

**`VdiCopy`**: `CopyTypeCorrect` and `CopiesAreTidy` hold however long the
transfer takes; they follow from `StageInv`, which says what exists at each stage of the copy and its clean-ups. `CopiesAreBacked` needs
`ASSUME ~LongCopies` and `GraceInv`: nothing is past the grace period before the
copy has ended, a scan that meets such an object began after that and so knows
the row, and a scan that knows the row has no orphan in the copy.

**`XeWrapper`**: `WrapperImplementsCopy` (`XeSpec => Spec`): on the SRs of this
host the wrapper does what one `Volume.copy` does and nothing else, so the
theorems of `VdiCopy` hold under it (`WrapperCopiesAreBacked`). `NoSecondCopy`,
`FarCopiesAreBacked` and `CrossFailuresAreTidy` follow from `OutcomeInv`, which
relates the control of the wrapper to that of the import on the other host: as
long as no answer was lost, the wrapper is on its way to the fallback only with
an import that failed or never began.

**`DaemonRegistry`** (`RegistryAssumption`; any devices, users, pids and
crashes): `RegistryTypeCorrect` in all modes (a remembered pid belonged to the
device and the kind it is remembered for); `DaemonsAreFindable`,
and `OneServerPerDevice` from `FoundInv`; `UsersAreServed` from
`ServedInv`. All hold in all modes, also where calls on different devices
overlap. `FoundInv` says, per device and stage of the call on it, who names the
daemon and the proxy; another device's call may meanwhile take the entry away,
which `FoundInv` survives where the entry said nothing of a live process: an
empty directory, or an entry nothing runs under. What remains is in `leak`, and
no more than that: a device is in it once a call on it (or the collection looking
at it) was killed, a call met its directory removed before it could save the
entry, or a collection dropped the entry over a proxy or, where calls overlap,
over a daemon that stays. That the last cannot happen unless calls overlap is part
of `FoundInv` (one call at a time, and what the collection saw is still what the
registry says), and `CollectionsSpareServing` states it by itself: it is the
property `daemon_gc` finds violated, and needs the overlap. `ServedInv` says that
the daemon a domain was handed is the registered one or will be, and that no
collection has the device of a user in its hands while the zvol exists. It exempts
only devices a call was killed on: a collection that drops the entry of a
daemon beside another call loses the daemon, but does not stop it.

**`SrLifecycle`** (`SrAssumption`: uuids and names are numbers, no uuid is a name
on an adoptable path, an SR has finitely many zvols; `PoolAssumption`: the pool
before zfs-live is a finite tree, clones lie beside their origins, old SRs are
not nested and carry no uuid of the new ones): all eight properties of `sr_life`,
for any pool, any number of SRs, failures and tries. `Inv` consists of `TreeInv`
(the paths form a tree, and a zvol's origin lies beside it), `TypeInv`,
`NoNesting`, `StageInv` (what a create has written at each step; its uuid and its
dataset are nobody else's, and until the marker is set no marker is on its path
or below it), `SrsInv` (a mountpoint `u` is on the dataset of SR `u` only) and
`DestroyInv` (a destroy has found the dataset of its own SR and walks below it).
`SrsDoNotNest`, `SrsStayWhole`, `SrTypeCorrect`, `ProbesAreHonest` and
`DestroysTakeTheirOwn` follow from it: with at most one marker on a path, the
inherited marker of anything a destroy removes is that of its own SR.
`AttachedAreServed` is inductive beside `Inv`; `ZvolsAreAdopted` needs `AdoptInv`
(each zvol has a row, or is still to be registered, or a failure is noted), and
`NamesInOrderSuffice` needs `OrderInv` (what is left to do is in strictly falling
order of names and misses nothing that is still there) and the asymmetry of that
order.

**`CbtTracking`** (`BlocksAssumption`: a disk, a chunk and a default granularity
of at least one unit; `CbtAssumption`: the bounds are natural numbers, extents
lie in the disk, the daemon is no domain, one domain at most runs at the start):
`CbtTypeCorrect`, `ListsMissNothing`, `RepliesMatchBitmaps` and `ListsAddNothing`,
for any disk, chunk, set of domains, number of snapshots, writes and ends of
QEMU. `CbtInv` consists of `TypeInv` (a file has one name at most, of its own
key); `QemuInv` and `OrderInv` (which state the bitmaps are in at each step of a
capture, and that no other QEMU has one for the snapshot); `MissInv` (for each
QEMU: what it has told is in its active bitmap; the capture carries it from there
into the snapshot's, and a payload that stands for any has its export); `WalkInv`
(what the walk has read covers exactly the dirty units below its position); and
`ExtraInv` (when nothing breaks off, a bitmap of the QEMU that captures talk to
holds marks of its own interval only). They rest on two lemmas: the bits of an
exported bitmap change only with the end of its QEMU (`ExportsStay`), and the
packing of extents, with its floors and ceilings, is the set of blocks they touch
for every granularity (`PackIsBlocks`). `ListsMissNothing` is about the capture,
the walk and the packing: that no write which was recorded gets lost between
them. It is no proof that backups see every write.

Only model-checked: the liveness properties `OrphansReclaimed`, `CopyReclaimed`
and `OrphansReaped`, which are out of the prover's reach.

### Findings

Five runs end in a violation; "findings" in `PROJECT.json` quotes what each
contradicts. All are bugs of the code: a snapshot VDI that can never be
destroyed (`store_safe_to_destroy`); a zvol that shrinks after a recovery takes
a resize in progress for an interrupted one (`size_scan_shrink`); a collection
that forgets a running daemon (`daemon_gc`); changed blocks reported as
unchanged after the QEMU has ended (`cbt_lost`); a recursive destroy that stops
half-way (`sr_destroy_order`).

### Observations

Met while modelling, without a run of their own; the models show those marked
with the setting in brackets.

* Volumes. A destroy may publish a VDI no client asked for, the heir of an
  implicit snapshot. A snapshot of a snapshot shows the parent's present
  content. With `orphan_grace_period_seconds = 0` the scan destroys zvols in the
  making [`UseGrace = FALSE` breaks `ScanSparesInFlight`]. A destroy that
  crashes between its ZFS destroys and its commit leaves a row without a zvol:
  nothing else is left (`InterruptedDestroy`), and nothing repairs it.
* Sizes. Overlapping resizes shrink a zvol [`Overlap = {{"resize"}}`]; a set of
  `copies` that overlaps a resize leaves too small a reservation
  [`Overlap = {{"resize", "set"}}` breaks `Guaranteed`].
* Copies. One that outlasts the grace period may be registered without its zvol
  [`LongCopies = TRUE` breaks `CopyBacked`]. A failed copy between pools leaves
  its zvol until a scan. After a cross-host copy the received snapshot stays on
  the destination. An answer lost after the commit of `Volume.copy` or
  `import_existing` makes the wrapper copy a second time, or destroy the zvol
  under the row; `OneCopy` and `FarBacked` exempt exactly that. The docstring of
  `xe_wrapper.py` has any failure fall back to the real xe, but a failed sr-scan
  returns 1.
* Tracking: writes that the captured bitmap never sees. While a daemon is
  registered and tracks, a capture takes its bitmap whoever does the writing. A
  VM runs on an attached VDI and both QEMUs track (`Both`): (1) the VM writes a
  block, through the kernel (`WriteDirect`) or its qemu-dm; (2) the snapshot is
  taken; (3) the capture finds the daemon, freezes and exports its empty bitmap
  and saves the payload; (4) `list_changed_blocks` reads it completely and
  replies that nothing changed. `docs/backup-integration.md:33-40` says that
  "Writes to the VDI are tracked in the bitmap" and that the list "returns the
  dirty extents between two snapshots". TLC finds the trace for
  `Complete /\ list.key # Head => ReplyOf(interval[list.key].all) \subseteq
  list.bits` with the limits of `cbt_life`. Where only the VM's QEMU tracks
  (`Hidden`), the capture finds a daemon without a bitmap and does nothing: the
  snapshot has no payload, and the reply says "no changes" as well.
* Tracking. Writes tracked by an earlier QEMU are not in the payload of a
  snapshot (`qemudisk_raw.py:905-930`). A deactivate leaves the bitmap of a
  living QEMU off and exported, and activate leaves it so.
  `docs/backup-integration.md` has activate create the bitmap; it does so only
  where there is a payload.
* SRs. A listing that fails makes an adopt succeed with nothing registered
  (`zfs_operations.py:596`). An adopt of a live SR overwrites its marker and
  mountpoint (`docs/installation.md:90-93` leaves that to the operator, and the
  model too); an adopt tried again meets the rows of the first. A failed create
  leaves dataset, marker and metabase behind, which probe reports as an SR, as it
  does child filesystems that inherit the marker. Below an SR adopted at the
  pool root another one can be created, because `dataset_get_parents` leaves out
  the root; `NoNesting` exempts it. A destroy that fails half-way leaves rows
  without zvols and an SR that is not mounted.
* Features. When the scan of pool features fails, `zfs_features.py:295-320`
  takes lz4 for available by the version.

## 3. Plan

Done: `VolumeStore`, `VdiCatalog`, `VdiSize`, `VdiCopy`, `XeWrapper`,
`DaemonRegistry`, `SrLifecycle`, `ChangedBlocks`, `CbtTracking`, with their proofs.

Left, in order of importance:

1. The NBD proxy's accept loop and its forwarding of descriptors.
2. The other volume properties of `set` and `unset`, once one of them moves more
   than a value.
3. Proofs: `RestingVdi` and `RestingKeys` with two unsets that overlap.

## 4. Not modelled

* ZFS feature detection: version strings and pool features, no state but a cache.
* xapi compatibility shims and SR metadata sidecars: import hooks and one JSON
  read.
* Plugin entry points, capability summary, image formats: stateless dispatch and
  constant answers.
* Installer and Ansible role: file copies and service restarts on a host.

Partly modelled: the libzfs_core binding (its retries and errno classes are in
`SrLifecycle`; the ctypes declarations and nvlists behind snapshot, clone and
create are one atomic ZFS command each in `VolumeStore`), the NBD server (its
process in `DaemonRegistry`; it forwards a descriptor and keeps no other state),
and `set`/`unset` (the property `copies`). `SR.stat`, `set_name`,
`set_description` and the validation of the device-config read, rename or
refuse. Sizes are volume blocks, contents are version numbers, and command
lines, parsing, logging and time-outs of single commands are left out; a command
that times out is one that fails.
