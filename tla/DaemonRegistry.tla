--------------------------- MODULE DaemonRegistry ---------------------------
(***************************************************************************)
(* The qemu-storage-daemons and SCM proxies the raw-qdisk datapath leaves  *)
(* running between its calls, and the registry, one pickle file per        *)
(* device, that is all a later call knows of them.                         *)
(*                                                                         *)
(* Every call is a process of its own.  Calls on one device follow one     *)
(* another (xapi serialises them).  What else may complicate matters is    *)
(* `mode`, fixed at the start: "killed" calls, a device "shared" by several *)
(* domains, or calls on different devices that "overlap".                  *)
(***************************************************************************)
EXTENDS Naturals, FiniteSets

CONSTANTS
    Devices,      \* zvols that may be attached
    Stays,        \* those that are never destroyed
    MaxUsers,     \* bound: domains a device is attached to, in "shared"
    MaxPid,       \* bound: processes that run or are remembered
    MaxCrashes    \* bound: calls killed half-way

ASSUME RegistryAssumption ==
    /\ Stays \subseteq Devices /\ "none" \notin Devices
    /\ MaxUsers \in Nat \ {0} /\ MaxPid \in Nat /\ MaxCrashes \in Nat

VARIABLES
    mode,
    zvol,      \* the devices that exist
    reg,       \* per device: its metadata directory and file
    proc,      \* per pid: the device and kind of a live process
    dying,     \* daemons told to quit that have not exited yet
    call,      \* per device: the call in progress
    users,     \* per device: the number of domains it is attached to (a domain whose
               \* operation was aborted never detaches)
    nbd,       \* per device: the daemons whose Nbd implementation was handed out
    leak,      \* history: devices a call was killed on, or one of whose processes
               \* outlived its entry: the call could not register it, or the
               \* collection of another call dropped the entry
    crashes    \* history: calls killed

procs == <<proc, dying>>
vars  == <<mode, zvol, reg, procs, call, users, nbd, leak, crashes>>

Pids  == 1..MaxPid
NoPid == 0
Gone  == [dev |-> "none", kind |-> "none"]
None  == [st |-> "none", pid |-> NoPid, scm |-> NoPid]    \* no directory
Empty == [None EXCEPT !.st = "empty"]    \* the directory without the file
Torn  == [None EXCEPT !.st = "torn"]     \* the file, truncated and not written yet
Saved == [st : {"saved"}, pid : Pids, scm : {NoPid} \cup Pids]
NoCall == [op |-> "none", pc |-> "idle", mem |-> None,
           todo |-> {}, look |-> "none", seen |-> None]

Init ==
    /\ mode \in {"killed", "shared", "overlap"}
    /\ zvol = Devices
    /\ reg = [d \in Devices |-> None]
    /\ proc = [p \in Pids |-> Gone] /\ dying = {}
    /\ call = [d \in Devices |-> NoCall]
    /\ users = [d \in Devices |-> 0] /\ nbd = [d \in Devices |-> {}]
    /\ leak = {} /\ crashes = 0

-----------------------------------------------------------------------------
(* Processes and the registry.                                             *)

Alive(p) == p \in Pids /\ proc[p] # Gone
Daemons(d) == {p \in Pids : proc[p] = [dev |-> d, kind |-> "daemon"]}
Proxies(d) == {p \in Pids : proc[p] = [dev |-> d, kind |-> "proxy"]}
Registered(e) == e.st = "saved"

QuitDaemonOnly(e) ==  \* mutant of Quit
    \E slow \in SUBSET {p \in {e.pid} : Alive(p)} :
       /\ proc' = [p \in Pids |-> IF p = e.pid /\ p \notin slow THEN Gone ELSE proc[p]]
       /\ dying' = (dying \ {e.pid}) \cup slow

\* Stops the proxy, then the daemon by QMP or SIGKILL, and waits two seconds:
\* a daemon still flushing is left to exit by itself.
Quit(e) ==
    \E slow \in SUBSET {p \in {e.pid} : Alive(p)} :
       /\ proc' = [p \in Pids |-> IF p = e.scm \/ (p = e.pid /\ p \notin slow)
                                  THEN Gone ELSE proc[p]]
       /\ dying' = (dying \ {e.pid}) \cup slow

RemoveMetadata(d) == reg' = [reg EXCEPT ![d] = None]

\* A pid is not given to another process while anything names it.
Free == {p \in Pids : /\ proc[p] = Gone
                      /\ \A d \in Devices :
                           /\ \A e \in {reg[d], call[d].mem, call[d].seen} : p \notin {e.pid, e.scm}
                           /\ p \notin nbd[d]}

Start(p, dev, kind) ==
    /\ p \in Free /\ \A q \in Free : p <= q
    /\ proc' = [proc EXCEPT ![p] = [dev |-> dev, kind |-> kind]]
    /\ UNCHANGED dying

At(d, s) == call[d].pc = s
Goto(d, s) == call' = [call EXCEPT ![d].pc = s]
World == UNCHANGED <<mode, zvol, leak, crashes>>
Returns(d) ==
    /\ call' = [call EXCEPT ![d] = NoCall]
    /\ UNCHANGED users
\* An exception, or attach without an Nbd implementation.
Fails(d) == Returns(d) /\ UNCHANGED nbd

\* What attach replies with: the daemon's socket.
Hands(d, p) ==
    /\ nbd' = [nbd EXCEPT ![d] = @ \cup {q \in {p} : Alive(q)}]
    /\ Returns(d)

-----------------------------------------------------------------------------
(* Datapath.attach and import_activate.                                    *)

MayStart(d) ==
    /\ call[d] = NoCall
    /\ mode # "overlap" => \A e \in Devices : call[e] = NoCall

\* The device must exist; import_activate looks for a daemon and a proxy first.
\* A domain may ask again for a device it has.
Begin(d, op) ==
    /\ d \in zvol /\ MayStart(d)
    /\ call' = [call EXCEPT ![d] = [NoCall EXCEPT !.op = op,
                    !.pc = IF op = "import" THEN "probe" ELSE "list"]]
    /\ \/ users[d] < (IF mode = "shared" THEN MaxUsers ELSE 1)
          /\ users' = [users EXCEPT ![d] = @ + 1]
       \/ users[d] > 0 /\ UNCHANGED users
    /\ World /\ UNCHANGED <<reg, procs, nbd>>

Probe(d) ==
    /\ At(d, "probe")
    /\ LET e == reg[d] IN
       \/ e.st = "torn" /\ Fails(d) /\ UNCHANGED procs
       \/ e.st \in {"none", "empty"} /\ Goto(d, "list") /\ UNCHANGED <<procs, users, nbd>>
       \/ /\ Registered(e) /\ Alive(e.pid) /\ Alive(e.scm)
          /\ Hands(d, e.pid) /\ UNCHANGED procs
       \/ /\ Registered(e) /\ Alive(e.pid) /\ ~Alive(e.scm)
          /\ Goto(d, "list") /\ UNCHANGED <<procs, users, nbd>>
       \/ /\ Registered(e) /\ ~Alive(e.pid)
          /\ Quit(e) /\ Goto(d, "probe_clear") /\ UNCHANGED <<users, nbd>>
    /\ World /\ UNCHANGED reg

ProbeClear(d) ==
    /\ At(d, "probe_clear")
    /\ RemoveMetadata(d) /\ Goto(d, "list")
    /\ World /\ UNCHANGED <<procs, users, nbd>>

\* _gc_orphan_daemons: the entries of all other devices, one after another.
GcList(d) ==
    /\ At(d, "list")
    /\ call' = [call EXCEPT ![d].pc = "gc",
                            ![d].todo = {e \in Devices \ {d} : reg[e] # None}]
    /\ World /\ UNCHANGED <<reg, procs, users, nbd>>

ReapableAlways(e) == TRUE    \* mutant of Reapable
ReapableNever(e) == FALSE    \* mutant of Reapable
Reapable(e) == e \notin zvol

\* What GC makes of an entry: keep it, drop the file, or stop the daemon first.
Verdict(e) ==
    CASE reg[e].st \in {"none", "empty"} -> "rmdir"
      [] reg[e].st = "torn" -> "drop"
      [] Registered(reg[e]) /\ ~Alive(reg[e].pid) -> "drop"
      [] Registered(reg[e]) /\ Alive(reg[e].pid) /\ Reapable(e) -> "reap"
      [] OTHER -> "leave"

GcRead(d) ==
    /\ At(d, "gc")
    /\ \E e \in call[d].todo :
         LET v == Verdict(e) IN
         call' = [call EXCEPT
            ![d].todo = @ \ {e},
            ![d].look = IF v = "leave" THEN "none" ELSE e,
            ![d].seen = IF v = "reap" THEN reg[e] ELSE None,
            ![d].pc = IF v = "leave" THEN "gc" ELSE v]
    /\ World /\ UNCHANGED <<reg, procs, users, nbd>>

GcReap(d) ==
    /\ At(d, "reap")
    /\ Quit(call[d].seen) /\ Goto(d, "drop")
    /\ World /\ UNCHANGED <<reg, users, nbd>>

Seen(d) == call' = [call EXCEPT ![d].pc = "gc", ![d].look = "none", ![d].seen = None]

\* Where calls overlap, the entry may meanwhile be that of a new daemon.
Unregisters(e) == mode = "overlap" /\ reg[e] # None /\ ~(Daemons(e) \subseteq dying)

\* The entry of a dead daemon goes without a look at its proxy.
GcDrop(d) ==
    /\ At(d, "drop")
    /\ RemoveMetadata(call[d].look) /\ Seen(d)
    /\ leak' = leak \cup {e \in {call[d].look} : Proxies(e) # {} \/ Unregisters(e)}
    /\ UNCHANGED <<mode, zvol, crashes, procs, users, nbd>>

\* rmdir fails, and is ignored, if the file has been made meanwhile.
GcRmdir(d) ==
    /\ At(d, "rmdir")
    /\ IF reg[call[d].look] = Empty THEN RemoveMetadata(call[d].look) ELSE UNCHANGED reg
    /\ Seen(d)
    /\ World /\ UNCHANGED <<procs, users, nbd>>

\* _ensure_qemu_daemon: reuse the registered daemon, or clear what is left of it.
Load(d) ==
    /\ At(d, "gc") /\ call[d].todo = {}
    /\ LET e == reg[d] IN
       \/ e.st = "torn" /\ Fails(d) /\ UNCHANGED procs
       \/ e.st \in {"none", "empty"} /\ Goto(d, "spawn") /\ UNCHANGED <<procs, users, nbd>>
       \/ /\ Registered(e) /\ Alive(e.pid) /\ call[d].op = "attach"
          /\ Hands(d, e.pid) /\ UNCHANGED procs
       \/ /\ Registered(e) /\ Alive(e.pid) /\ call[d].op = "import"
          /\ call' = [call EXCEPT ![d].pc = "proxy", ![d].mem = e]
          /\ UNCHANGED <<procs, users, nbd>>
       \/ /\ Registered(e) /\ ~Alive(e.pid)
          /\ Quit(e) /\ Goto(d, "clear") /\ UNCHANGED <<users, nbd>>
    /\ World /\ UNCHANGED reg

Clear(d) ==
    /\ At(d, "clear")
    /\ RemoveMetadata(d) /\ Goto(d, "spawn")
    /\ World /\ UNCHANGED <<procs, users, nbd>>

SpawnUnread(d) ==  \* mutant of Spawn
    /\ At(d, "spawn") /\ d \in zvol
    /\ \E p \in Pids :
         /\ Start(p, d, "daemon")
         /\ call' = [call EXCEPT ![d].pc = "mkdir", ![d].mem = [None EXCEPT !.st = "saved"]]
    /\ World /\ UNCHANGED <<reg, users, nbd>>

Spawn(d) ==
    /\ At(d, "spawn") /\ d \in zvol
    /\ \E p \in Pids :
         /\ Start(p, d, "daemon")
         /\ call' = [call EXCEPT ![d].pc = "mkdir",
                                 ![d].mem = [None EXCEPT !.st = "saved", !.pid = p]]
    /\ World /\ UNCHANGED <<reg, users, nbd>>

\* attach replies without Nbd; import_activate fails on the missing daemon.
SpawnFails(d) ==
    /\ At(d, "spawn")
    /\ Fails(d)
    /\ World /\ UNCHANGED <<reg, procs>>

\* save_metadata: make the directory, truncate the file, write it.
SaveMkdir(d) ==
    /\ At(d, "mkdir")
    /\ reg' = [reg EXCEPT ![d] = IF @ = None THEN Empty ELSE @]
    /\ Goto(d, "open")
    /\ World /\ UNCHANGED <<procs, users, nbd>>

\* Fails if the directory has been removed meanwhile.
SaveOpen(d) ==
    /\ At(d, "open")
    /\ IF reg[d] = None
       THEN Fails(d) /\ leak' = leak \cup {d} /\ UNCHANGED reg
       ELSE /\ reg' = [reg EXCEPT ![d] = Torn]
            /\ Goto(d, "write") /\ UNCHANGED <<leak, users, nbd>>
    /\ UNCHANGED <<mode, zvol, crashes, procs>>

\* A file removed meanwhile is written and lost.
SaveWrite(d) ==
    /\ At(d, "write")
    /\ reg' = [reg EXCEPT ![d] = IF @ = Torn THEN call[d].mem ELSE @]
    /\ IF call[d].op = "import" /\ call[d].mem.scm = NoPid
       THEN Goto(d, "proxy") /\ UNCHANGED <<users, nbd>>
       ELSE Hands(d, call[d].mem.pid)
    /\ World /\ UNCHANGED procs

\* import_activate forks the proxy and saves the entry again, from memory.
ForkProxy(d) ==
    /\ At(d, "proxy")
    /\ \E p \in Pids :
         /\ Start(p, d, "proxy")
         /\ call' = [call EXCEPT ![d].pc = "mkdir", ![d].mem.scm = p]
    /\ World /\ UNCHANGED <<reg, users, nbd>>

ForkFails(d) ==
    /\ At(d, "proxy")
    /\ Fails(d)
    /\ World /\ UNCHANGED <<reg, procs>>

-----------------------------------------------------------------------------
(* Datapath.detach and close.                                              *)

BeginDetach(d) ==
    /\ users[d] > 0 /\ MayStart(d)
    /\ call' = [call EXCEPT ![d] = [NoCall EXCEPT !.op = "detach", !.pc = "detach"]]
    /\ World /\ UNCHANGED <<reg, procs, users, nbd>>

Detached(d) ==
    /\ call' = [call EXCEPT ![d] = NoCall]
    /\ users' = [users EXCEPT ![d] = @ - 1]
    /\ nbd' = [nbd EXCEPT ![d] = IF users[d] = 1 THEN {} ELSE @]

DetachForgets(d) ==  \* mutant of DetachQuit
    /\ At(d, "detach")
    /\ Goto(d, "remove")
    /\ World /\ UNCHANGED <<reg, procs, users, nbd>>

\* A truncated file makes detach raise.
DetachQuit(d) ==
    /\ At(d, "detach")
    /\ LET e == reg[d] IN
       \/ e.st = "torn" /\ Fails(d) /\ UNCHANGED procs
       \/ e.st \in {"none", "empty"} /\ Detached(d) /\ UNCHANGED procs
       \/ /\ Registered(e) /\ Quit(e)
          /\ nbd' = [nbd EXCEPT ![d] = IF users[d] = 1 THEN {} ELSE @]
          /\ Goto(d, "remove") /\ UNCHANGED users
    /\ World /\ UNCHANGED reg

DetachRemove(d) ==
    /\ At(d, "remove")
    /\ RemoveMetadata(d) /\ Detached(d)
    /\ World /\ UNCHANGED procs

-----------------------------------------------------------------------------
(* What else happens.                                                      *)

\* The plugin process of a call is killed.
Crash(d) ==
    /\ mode = "killed" /\ call[d] # NoCall /\ crashes < MaxCrashes
    /\ crashes' = crashes + 1
    /\ leak' = leak \cup ({d, call[d].look} \cap Devices)
    /\ call' = [call EXCEPT ![d] = NoCall]
    /\ UNCHANGED <<mode, zvol, reg, procs, users, nbd>>

\* A process dies by itself; who used it has lost it.
Die(p) ==
    /\ Alive(p)
    /\ proc' = [proc EXCEPT ![p] = Gone]
    /\ dying' = dying \ {p}
    /\ nbd' = [d \in Devices |-> nbd[d] \ {p}]
    /\ UNCHANGED <<mode, zvol, reg, call, users, leak, crashes>>

\* A daemon holds the zvol open: `zfs destroy` is refused while it runs.
Destroy(d) ==
    /\ d \in zvol \ Stays /\ call[d] = NoCall /\ Daemons(d) = {}
    /\ zvol' = zvol \ {d}
    /\ UNCHANGED <<mode, reg, procs, call, users, nbd, leak, crashes>>

\* The pool goes away under the daemon.
Lose(d) ==
    /\ d \in zvol \ Stays
    /\ zvol' = zvol \ {d}
    /\ UNCHANGED <<mode, reg, procs, call, users, nbd, leak, crashes>>

Step(d) ==
    \/ Probe(d) \/ ProbeClear(d) \/ GcList(d) \/ GcRead(d) \/ GcReap(d) \/ GcDrop(d)
    \/ GcRmdir(d) \/ Load(d) \/ Clear(d) \/ Spawn(d) \/ SpawnFails(d)
    \/ SaveMkdir(d) \/ SaveOpen(d) \/ SaveWrite(d) \/ ForkProxy(d) \/ ForkFails(d)
    \/ DetachQuit(d) \/ DetachRemove(d)

Next ==
    \/ \E d \in Devices :
         \/ Step(d) \/ Crash(d) \/ Destroy(d) \/ Lose(d)
         \/ \E op \in {"attach", "import"} : Begin(d, op)
         \/ BeginDetach(d)
    \/ \E p \in Pids : Die(p)

Spec == Init /\ [][Next]_vars

\* A call that has begun runs to its end, a daemon told to quit does, and xapi
\* keeps attaching the devices that stay.
FairSpec ==
    /\ Spec
    /\ \A d \in Devices : WF_vars(Step(d))
    /\ \A d \in Stays : SF_vars(Begin(d, "attach"))
    /\ \A p \in Pids : WF_vars(p \in dying /\ Die(p))
-----------------------------------------------------------------------------
(* Properties.                                                             *)

\* Every variable keeps its type; a registered or remembered pid was started.
TypeOK ==
    /\ mode \in {"killed", "shared", "overlap"}
    /\ zvol \subseteq Devices /\ Stays \subseteq zvol
    /\ crashes \in 0..MaxCrashes
    /\ reg \in [Devices -> {None, Empty, Torn} \cup Saved]
    /\ proc \in [Pids -> {Gone} \cup [dev : Devices, kind : {"daemon", "proxy"}]]
    /\ dying \subseteq {p \in Pids : proc[p] # Gone}
    /\ users \in [Devices -> 0..MaxUsers]
    /\ nbd \in [Devices -> SUBSET Pids]
    /\ leak \subseteq Devices
    /\ \A d \in Devices : call[d].op \in {"none", "attach", "import", "detach"}

\* Every daemon that runs can be found by a later call: the registry names it,
\* or the call in progress does.  Only a call killed half-way, or a collection
\* that removes the entry while another call replaces it, can leave one behind.
Findable ==
    \A d \in Devices \ leak : \A p \in Daemons(d) \ dying :
       \/ Registered(reg[d]) /\ reg[d].pid = p
       \/ call[d].mem.pid = p

\* A zvol is written through one daemon at a time, and its descriptors are served
\* by one proxy: no call starts a second one beside one that stays, whatever was
\* detached, imported again, collected or died before (datapath.py:696-712).
\* detach releases the zvol: a device attached to nobody is held by no daemon
\* that stays, and by no proxy, so that it can be destroyed.
OneServer ==
    \A d \in Devices \ leak :
       /\ \A p, q \in Daemons(d) \ dying : p = q
       /\ \A p, q \in Proxies(d) : p = q
       /\ users[d] = 0 /\ call[d] = NoCall =>
             Daemons(d) \subseteq dying /\ Proxies(d) = {}

\* No call takes the daemon away from a domain it was handed to: neither the
\* collection of another device's call, even if it overlaps and drops the entry,
\* nor an attach that comes again; after a call was killed on the device one may.
UsersServed ==
    mode # "shared" =>
      \A d \in zvol : (mode = "killed" => d \notin leak) =>
         \A p \in nbd[d] : proc[p] # Gone /\ p \notin dying

\* GC leaves the registry entry of a daemon alone that serves an existing device.
GcSparesServing ==
    [][\A d \in Devices : GcDrop(d) =>
         \A e \in zvol : e = call[d].look => Daemons(e) \subseteq dying]_vars

\* The daemon of a device that is gone is stopped by the next attach of another.
OrphansReaped ==
    \A d \in Devices \ Stays :
       (mode # "overlap" /\ d \notin zvol /\ Registered(reg[d]))
          ~> (Daemons(d) = {} \/ d \in leak)
=============================================================================
