------------------------- MODULE DaemonRegistryProofs -------------------------
(***************************************************************************)
(* Proofs about DaemonRegistry.  TypeInv adds to TypeOK that a pid the     *)
(* registry or a call remembers has not been given to another process.     *)
(* FoundInv says what an entry and the call in progress know of a daemon   *)
(* and a proxy, at each point of the call: they are known until the call   *)
(* that stops them has removed the entry, and another device's call may    *)
(* take away only an entry that says nothing.  ServedInv says that the     *)
(* daemon a domain was handed is the registered one or about to be.        *)
(***************************************************************************)
EXTENDS DaemonRegistry, TLAPS

Entries == {None, Empty, Torn} \cup Saved
Kinds   == {"daemon", "proxy"}
Gc      == {"gc", "reap", "drop", "rmdir"}
Saving  == {"mkdir", "open", "write", "proxy"}
PCs     == {"idle", "probe", "probe_clear", "list", "clear", "spawn", "detach", "remove"}
           \cup Gc \cup Saving
CallType == [op : {"none", "attach", "import", "detach"}, pc : PCs, mem : Entries,
             todo : SUBSET Devices, look : Devices \cup {"none"}, seen : Entries]

\* A pid that is remembered as the `kind` of d is that process of pr or has ended.
Was(pr, p, d, kind) == p \in Pids => pr[p] \in {Gone, [dev |-> d, kind |-> kind]}
Names(pr, e, d) == Was(pr, e.pid, d, "daemon") /\ Was(pr, e.scm, d, "proxy")

\* What holds of a call c on d, attached to u domains, with the processes pr.
CallOK(c, d, u, pr) ==
    /\ c \in CallType
    /\ Names(pr, c.mem, d)
    /\ IF c.look = "none" THEN c.seen = None ELSE Names(pr, c.seen, c.look)
    /\ c.pc \in {"reap", "drop", "rmdir"} <=> c.look # "none"
    /\ IF c.pc \in Saving THEN c.mem \in Saved ELSE c.mem = None
    /\ c.pc \in {"detach", "remove"} => u > 0
    /\ c.pc = "idle" => c = NoCall

TypeInv ==
    /\ TypeOK
    /\ call \in [Devices -> CallType]
    /\ \A d \in Devices :
         /\ Names(proc, reg[d], d)
         /\ CallOK(call[d], d, users[d], proc)
         /\ \A p \in nbd[d] : Was(proc, p, d, "daemon")
    /\ \A p \in dying : proc[p].kind = "daemon"

Running(d) == Daemons(d) \ dying

\* What an entry r and a call c say of the daemons ds that stay, the proxies ps
\* and the u domains of a device.
Found(r, c, ds, ps, u) ==
    /\ ds \subseteq {r.pid, c.mem.pid} /\ ps \subseteq {r.scm, c.mem.scm}
    /\ r.st = "saved" \/ c # NoCall => u > 0
    /\ r.st = "torn" => c.pc = "write"
    /\ c.pc \in {"probe_clear", "clear", "spawn", "remove"} => ds = {} /\ ps = {}
    /\ c.op = "import" /\ c.pc \in Gc \cup {"list"} => ps = {}
    /\ c.pc = "proxy" => ps = {}
    /\ c.pc \in Saving => ds \subseteq {c.mem.pid} /\ ps \subseteq {c.mem.scm}
    /\ c.pc = "write" => r = Torn \/ (ds = {} /\ ps = {})
    /\ c.pc = "proxy" => ds = {} \/ (r.st = "saved" /\ r.pid = c.mem.pid)

FoundAt(d) == d \notin leak => Found(reg[d], call[d], Running(d), Proxies(d), users[d])

\* What the collection knows of the entry it has read: nothing, where the call
\* on that device goes on meanwhile.
LookAt(d) ==
    /\ d \notin call[d].todo /\ call[d].look # d
    /\ mode # "overlap" /\ call[d].look \in Devices \ leak =>
         /\ call[d].pc = "drop" => Running(call[d].look) = {}
         /\ call[d].pc = "reap" => call[d].seen = reg[call[d].look]

OneCall == \A d, e \in Devices : call[d] # NoCall /\ call[e] # NoCall => d = e

FoundInv == (mode # "overlap" => OneCall) /\ \A d \in Devices : FoundAt(d) /\ LookAt(d)

\* What an entry r, a call c, the daemons ns handed out and the processes say of
\* a device with u domains.
Served(r, c, ns, dy, pr, u) ==
    /\ u <= 1
    /\ \A p \in ns : pr[p] # Gone /\ p \notin dy
    /\ r.pid \in dy => c.pc = "remove"
    /\ c.mem.pid \notin dy
    /\ c.pc = "remove" => ns = {}

ServedAt(d) == Served(reg[d], call[d], nbd[d], dying, proc, users[d])

\* The devices that exist and on which no call was killed.
Held == {d \in zvol : mode = "killed" => d \notin leak}

ServedInv ==
    /\ \A d \in Devices : call[d].pc = "reap" => call[d].look \notin zvol
    /\ mode # "shared" => \A d \in Held : ServedAt(d)

-----------------------------------------------------------------------------
(* Entries, processes and what is remembered of them.                      *)

\* TypeOK but for the calls.
DataOK ==
    /\ mode \in {"killed", "shared", "overlap"}
    /\ zvol \subseteq Devices /\ Stays \subseteq zvol
    /\ crashes \in 0..MaxCrashes
    /\ reg \in [Devices -> Entries]
    /\ proc \in [Pids -> {Gone} \cup [dev : Devices, kind : Kinds]]
    /\ dying \subseteq {p \in Pids : proc[p] # Gone}
    /\ users \in [Devices -> 0..MaxUsers]
    /\ nbd \in [Devices -> SUBSET Pids]
    /\ leak \subseteq Devices

LEMMA DataOfType == TypeInv => DataOK
  BY DEF TypeInv, TypeOK, DataOK, Entries, Kinds

LEMMA EntryTypes ==
  /\ NoPid \notin Pids
  /\ {None, Empty, Torn} \subseteq Entries
  /\ \A e \in {None, Empty, Torn} : e.pid = NoPid /\ e.scm = NoPid
  /\ None.st = "none" /\ Empty.st = "empty" /\ Torn.st = "torn"
  /\ \A e \in Saved : e \in Entries /\ e.st = "saved" /\ e.pid \in Pids /\ e.scm \in {NoPid} \cup Pids
  BY RegistryAssumption DEF NoPid, Pids, None, Empty, Torn, Entries, Saved

LEMMA EntryFields ==
  ASSUME NEW e \in Entries
  PROVE  /\ e.pid \in {NoPid} \cup Pids /\ e.scm \in {NoPid} \cup Pids
         /\ e.st = "saved" <=> e \in Saved
         /\ e.st \in {"none", "empty", "torn", "saved"}
         /\ e.st = "none" <=> e = None
         /\ e.st = "empty" <=> e = Empty
         /\ e.st = "torn" <=> e = Torn
  BY EntryTypes DEF Entries

LEMMA NamesNothing ==
  ASSUME NEW e \in {None, Empty, Torn}, NEW d, NEW pr
  PROVE  Names(pr, e, d)
  BY EntryTypes DEF Names, Was

LEMMA NoCallOK ==
  ASSUME NEW d, NEW u, NEW pr
  PROVE  CallOK(NoCall, d, u, pr)
<1>1. NoCall \in CallType
  BY EntryTypes DEF NoCall, CallType, PCs, Entries
<1>2. /\ NoCall.mem = None /\ NoCall.seen = None /\ NoCall.look = "none" /\ NoCall.pc = "idle"
      /\ NoCall.op = "none"
  BY DEF NoCall
<1> QED
  BY <1>1, <1>2, NamesNothing DEF CallOK, Saving

\* All that is remembered is still true of the processes pr.
Kept(pr) ==
    \A e \in Devices :
       /\ Names(pr, reg[e], e)
       /\ CallOK(call[e], e, users[e], pr)
       /\ \A p \in nbd[e] : Was(pr, p, e, "daemon")

LEMMA KeptSame == TypeInv => Kept(proc)
  BY DEF TypeInv, Kept

LEMMA KeptShrink ==
  ASSUME TypeInv, NEW pr, \A p \in Pids : pr[p] \in {Gone, proc[p]}
  PROVE  Kept(pr)
<1>1. \A p, d, k : Was(proc, p, d, k) => Was(pr, p, d, k)
  BY DEF Was
<1> QED
  BY <1>1 DEF TypeInv, Kept, CallOK, Names

LEMMA StartFacts ==
  ASSUME TypeInv, NEW p, NEW d \in Devices, NEW kind \in Kinds, Start(p, d, kind)
  PROVE  /\ p \in Pids /\ p \notin dying /\ proc[p] = Gone
         /\ proc' \in [Pids -> {Gone} \cup [dev : Devices, kind : Kinds]]
         /\ proc' = [proc EXCEPT ![p] = [dev |-> d, kind |-> kind]]
         /\ UNCHANGED dying
         /\ Kept(proc')
         /\ \A e \in Devices : /\ p \notin {reg[e].pid, reg[e].scm, call[e].mem.pid, call[e].mem.scm}
                               /\ p \notin nbd[e]
<1> USE DEF TypeInv
<1>1. /\ p \in Pids /\ proc[p] = Gone /\ proc' = [proc EXCEPT ![p] = [dev |-> d, kind |-> kind]]
      /\ UNCHANGED dying
      /\ \A e \in Devices : /\ p \notin {reg[e].pid, reg[e].scm, call[e].mem.pid, call[e].mem.scm}
                            /\ p \notin {call[e].seen.pid, call[e].seen.scm}
                            /\ p \notin nbd[e]
  BY DEF Start, Free
<1>2. p \notin dying
  BY <1>1 DEF TypeOK
<1>3. proc' \in [Pids -> {Gone} \cup [dev : Devices, kind : Kinds]]
  BY <1>1, DataOfType DEF DataOK
<1>4. \A q, e, k : q # p /\ Was(proc, q, e, k) => Was(proc', q, e, k)
  BY <1>1, DataOfType DEF DataOK, Was
<1>5. Kept(proc')
  BY <1>1, <1>4 DEF Kept, CallOK, Names
<1> QED
  BY <1>1, <1>2, <1>3, <1>5

LEMMA QuitFacts ==
  ASSUME TypeInv, NEW e \in Entries, NEW d, Names(proc, e, d), Quit(e)
  PROVE  /\ proc' \in [Pids -> {Gone} \cup [dev : Devices, kind : Kinds]]
         /\ \A p \in Pids : proc'[p] \in {Gone, proc[p]}
         /\ dying' \subseteq {p \in Pids : proc'[p] # Gone}
         /\ \A p \in dying' : proc'[p].kind = "daemon"
         /\ dying' \subseteq dying \cup {e.pid}
         /\ \A p \in dying \ dying' : proc'[p] = Gone
         /\ e.pid \in Pids => proc'[e.pid] = Gone \/ e.pid \in dying'
         /\ e.scm \in Pids => proc'[e.scm] = Gone
         /\ \A p \in Pids \ {e.pid, e.scm} : proc'[p] = proc[p]
         /\ e.pid \in Pids /\ proc[e.pid] = Gone => dying' \subseteq dying
         /\ Kept(proc')
<1>1. PICK slow \in SUBSET {p \in {e.pid} : Alive(p)} :
         /\ proc' = [p \in Pids |-> IF p = e.scm \/ (p = e.pid /\ p \notin slow)
                                    THEN Gone ELSE proc[p]]
         /\ dying' = (dying \ {e.pid}) \cup slow
  BY DEF Quit
<1>2. /\ e.pid \in Pids => proc[e.pid] = Gone \/ proc[e.pid].kind = "daemon"
      /\ e.scm \in Pids => proc[e.scm] = Gone \/ proc[e.scm].kind = "proxy"
      /\ Gone.kind = "none"
  BY DEF Names, Was, Gone
<1>3. /\ proc \in [Pids -> {Gone} \cup [dev : Devices, kind : Kinds]]
      /\ \A p \in dying : p \in Pids /\ proc[p] # Gone /\ proc[p].kind = "daemon"
  BY DataOfType DEF TypeInv, DataOK
<1>4. e.scm \notin dying
  BY <1>2, <1>3
<1>5. slow \subseteq {e.pid} /\ \A p \in slow : p \in Pids /\ proc[p] # Gone /\ proc[p].kind = "daemon"
  BY <1>2 DEF Alive
<1>6. e.scm \notin slow
  BY <1>2, <1>5
<1>7. /\ proc' \in [Pids -> {Gone} \cup [dev : Devices, kind : Kinds]]
      /\ \A p \in Pids : proc'[p] \in {Gone, proc[p]}
      /\ \A p \in Pids \ {e.pid, e.scm} : proc'[p] = proc[p]
  BY <1>1, <1>3
<1>8. \A p \in dying' : p \in Pids /\ proc'[p] = proc[p] /\ proc[p] # Gone /\ proc[p].kind = "daemon"
  BY <1>1, <1>3, <1>4, <1>5, <1>6
<1>9. /\ dying' \subseteq dying \cup {e.pid}
      /\ \A p \in dying \ dying' : proc'[p] = Gone
      /\ e.pid \in Pids => proc'[e.pid] = Gone \/ e.pid \in dying'
      /\ e.scm \in Pids => proc'[e.scm] = Gone
      /\ e.pid \in Pids /\ proc[e.pid] = Gone => dying' \subseteq dying
  BY <1>1, <1>3, <1>5 DEF Alive
<1>10. Kept(proc')
  BY <1>7, KeptShrink
<1> QED
  BY <1>7, <1>8, <1>9, <1>10

-----------------------------------------------------------------------------
(* The type.                                                               *)

\* A step of the call on d that leaves what is remembered of others alone.
LEMMA Close ==
  ASSUME TypeInv, DataOK', Kept(proc'), NEW d \in Devices, NEW c,
         \A p \in dying' : proc'[p].kind = "daemon",
         call' = [call EXCEPT ![d] = c], CallOK(c, d, users'[d], proc'),
         \A e \in Devices \ {d} : users'[e] = users[e],
         \A e \in Devices : \/ reg'[e] \in {reg[e], None, Empty, Torn}
                            \/ e = d /\ reg'[e] = call[d].mem,
         \A e \in Devices : \A p \in nbd'[e] : p \in nbd[e] \/ Was(proc', p, e, "daemon")
  PROVE  TypeInv'
<1>1. call' \in [Devices -> CallType]
  BY DEF TypeInv, CallOK
<1>2. \A e \in Devices : CallOK(call'[e], e, users'[e], proc')
  BY DEF Kept, TypeInv
<1>3. \A e \in Devices : Names(proc', reg'[e], e)
  BY NamesNothing DEF Kept, CallOK
<1>4. \A e \in Devices : \A p \in nbd'[e] : Was(proc', p, e, "daemon")
  BY DEF Kept
<1>5. TypeOK'
  BY <1>1 DEF DataOK, TypeOK, CallType, Entries, Kinds
<1> QED
  BY <1>1, <1>2, <1>3, <1>4, <1>5 DEF TypeInv

\* The call on d moves on, or returns.
LEMMA MoveOK ==
  ASSUME NEW c, NEW d, NEW u, NEW pr, CallOK(c, d, u, pr), NEW s \in PCs \ {"idle"},
         s \in {"reap", "drop", "rmdir"} <=> c.pc \in {"reap", "drop", "rmdir"},
         s \in Saving <=> c.pc \in Saving,
         s \in {"detach", "remove"} => u > 0
  PROVE  CallOK([c EXCEPT !.pc = s], d, u, pr)
  BY DEF CallOK, CallType

LEMMA HandOK ==
  ASSUME TypeInv, UNCHANGED proc, NEW d \in Devices, NEW p, Was(proc, p, d, "daemon"), Hands(d, p)
  PROVE  /\ call' = [call EXCEPT ![d] = NoCall] /\ UNCHANGED users
         /\ nbd' \in [Devices -> SUBSET Pids]
         /\ \A e \in Devices : \A q \in nbd'[e] : q \in nbd[e] \/ Was(proc', q, e, "daemon")
  BY DataOfType DEF Hands, Returns, Alive, DataOK

LEMMA TypeInit == Init => TypeInv
<1> SUFFICES ASSUME Init PROVE TypeInv
  OBVIOUS
<1>1. \A d \in Devices : CallOK(NoCall, d, 0, proc)
  BY NoCallOK
<1>2. call \in [Devices -> CallType] /\ \A d \in Devices : call[d] = NoCall
  BY <1>1 DEF Init, CallOK
<1>3. TypeOK
  BY <1>2, EntryTypes, RegistryAssumption DEF Init, TypeOK, NoCall, Entries
<1>4. dying = {} /\ \A d \in Devices : reg[d] = None /\ users[d] = 0 /\ nbd[d] = {}
  BY DEF Init
<1> QED
  BY <1>1, <1>2, <1>3, <1>4, NamesNothing DEF TypeInv

LEMMA TypeStep == TypeInv /\ [Next]_vars => TypeInv'
<1> SUFFICES ASSUME TypeInv, [Next]_vars PROVE TypeInv'
  OBVIOUS
<1> USE DataOfType
<1>0. /\ DataOK /\ call \in [Devices -> CallType]
      /\ \A d \in Devices : CallOK(call[d], d, users[d], proc) /\ Names(proc, reg[d], d)
      /\ \A p \in dying : proc[p].kind = "daemon"
  BY DEF TypeInv
<1>1. ASSUME UNCHANGED proc PROVE Kept(proc')
  BY <1>1, KeptSame
<1>2. ASSUME NEW d \in Devices, GcList(d) PROVE TypeInv'
  <2>1. CallOK([call[d] EXCEPT !.pc = "gc", !.todo = {e \in Devices \ {d} : reg[e] # None}],
               d, users[d], proc)
    BY <1>0, <1>2 DEF GcList, At, CallOK, CallType, PCs, Gc, Saving
  <2>2. DataOK'
    BY <1>0, <1>2 DEF GcList, World, procs, DataOK
  <2> QED
    BY <1>0, <1>1, <1>2, <2>1, <2>2, Close DEF GcList, World, procs
<1>3. ASSUME NEW d \in Devices, SaveMkdir(d) PROVE TypeInv'
  <2>1. CallOK([call[d] EXCEPT !.pc = "open"], d, users[d], proc)
    BY <1>0, <1>3, MoveOK DEF SaveMkdir, At, PCs, Gc, Saving
  <2> QED
    BY <1>0, <1>1, <1>3, <2>1, Close, EntryTypes DEF SaveMkdir, Goto, World, procs, DataOK
<1>4. ASSUME NEW d \in Devices, NEW op \in {"attach", "import"}, Begin(d, op) PROVE TypeInv'
  <2> DEFINE c == [NoCall EXCEPT !.op = op, !.pc = IF op = "import" THEN "probe" ELSE "list"]
  <2>1. \A u : CallOK(c, d, u, proc)
    <3>1. c \in CallType
      BY EntryTypes DEF NoCall, CallType, PCs, Entries
    <3>2. c.mem = None /\ c.seen = None /\ c.look = "none" /\ c.pc \in {"probe", "list"}
      BY DEF NoCall
    <3> HIDE DEF c
    <3> QED
      BY <3>1, <3>2, NamesNothing DEF CallOK, Saving
  <2>2. /\ users' \in [Devices -> 0..MaxUsers] /\ call' = [call EXCEPT ![d] = c]
        /\ \A e \in Devices \ {d} : users'[e] = users[e]
    BY <1>0, <1>4, RegistryAssumption DEF Begin, DataOK
  <2> HIDE DEF c
  <2>3. DataOK'
    BY <1>0, <1>4, <2>2 DEF Begin, World, procs, DataOK
  <2> QED
    BY <1>0, <1>1, <1>4, <2>1, <2>2, <2>3, Close DEF Begin, World, procs
<1>5. ASSUME NEW d \in Devices, BeginDetach(d) PROVE TypeInv'
  <2> DEFINE c == [NoCall EXCEPT !.op = "detach", !.pc = "detach"]
  <2>1. CallOK(c, d, users[d], proc)
    <3>1. c \in CallType
      BY EntryTypes DEF NoCall, CallType, PCs, Entries
    <3>2. c.mem = None /\ c.seen = None /\ c.look = "none" /\ c.pc = "detach"
      BY DEF NoCall
    <3>3. users[d] > 0
      BY <1>5 DEF BeginDetach
    <3> HIDE DEF c
    <3> QED
      BY <3>1, <3>2, <3>3, NamesNothing DEF CallOK, Saving
  <2>2. call' = [call EXCEPT ![d] = c]
    BY <1>5 DEF BeginDetach
  <2> HIDE DEF c
  <2> QED
    BY <1>0, <1>1, <1>5, <2>1, <2>2, Close DEF BeginDetach, World, procs, DataOK
<1>6. ASSUME NEW d \in Devices, Probe(d) PROVE TypeInv'
  <2>0. reg[d] \in Entries /\ Names(proc, reg[d], d) /\ UNCHANGED <<reg, mode, zvol, leak, crashes>>
    BY <1>0, <1>6 DEF DataOK, Probe, World
  <2>1. CASE Fails(d) /\ UNCHANGED procs
    BY <1>0, <1>1, <2>0, <2>1, NoCallOK, Close DEF Fails, Returns, procs, DataOK
  <2>2. CASE Goto(d, "list") /\ UNCHANGED <<procs, users, nbd>>
    <3>1. CallOK([call[d] EXCEPT !.pc = "list"], d, users[d], proc)
      BY <1>0, <1>6, MoveOK DEF Probe, At, PCs, Gc, Saving
    <3> QED
      BY <1>0, <1>1, <2>0, <2>2, <3>1, Close DEF Goto, procs, DataOK
  <2>3. CASE Hands(d, reg[d].pid) /\ UNCHANGED procs
    BY <1>0, <1>1, <2>0, <2>3, HandOK, NoCallOK, Close DEF Names, procs, DataOK
  <2>4. CASE Quit(reg[d]) /\ Goto(d, "probe_clear") /\ UNCHANGED <<users, nbd>>
    <3>1. Kept(proc')
      BY <2>0, <2>4, QuitFacts
    <3>2. CallOK([call[d] EXCEPT !.pc = "probe_clear"], d, users[d], proc')
      BY <3>1, <1>6, MoveOK DEF Kept, Probe, At, PCs, Gc, Saving
    <3> QED
      BY <1>0, <2>0, <2>4, <3>1, <3>2, Close, QuitFacts DEF Goto, DataOK
  <2> QED
    BY <1>6, <2>1, <2>2, <2>3, <2>4 DEF Probe
<1>7. ASSUME NEW d \in Devices, ProbeClear(d) PROVE TypeInv'
  <2>1. CallOK([call[d] EXCEPT !.pc = "list"], d, users[d], proc)
    BY <1>0, <1>7, MoveOK DEF ProbeClear, At, PCs, Gc, Saving
  <2> QED
    BY <1>0, <1>1, <1>7, <2>1, Close, EntryTypes DEF ProbeClear, RemoveMetadata, Goto, World, procs, DataOK
<1>8. ASSUME NEW d \in Devices, GcRead(d) PROVE TypeInv'
  <2>1. PICK e \in call[d].todo :
          LET v == Verdict(e) IN
          call' = [call EXCEPT
            ![d].todo = @ \ {e},
            ![d].look = IF v = "leave" THEN "none" ELSE e,
            ![d].seen = IF v = "reap" THEN reg[e] ELSE None,
            ![d].pc = IF v = "leave" THEN "gc" ELSE v]
    BY <1>8 DEF GcRead
  <2> DEFINE c == [call[d] EXCEPT !.todo = @ \ {e},
                     !.look = IF Verdict(e) = "leave" THEN "none" ELSE e,
                     !.seen = IF Verdict(e) = "reap" THEN reg[e] ELSE None,
                     !.pc = IF Verdict(e) = "leave" THEN "gc" ELSE Verdict(e)]
  <2>2. e \in Devices /\ Names(proc, reg[e], e) /\ reg[e] \in Entries /\ call[d] \in CallType
    BY <1>0 DEF CallType, DataOK
  <2>3. Verdict(e) \in {"reap", "drop", "rmdir", "leave"}
    BY DEF Verdict
  <2>4. c \in CallType /\ c.mem = call[d].mem
    BY <2>2, <2>3, EntryTypes DEF CallType, PCs, Gc
  <2>5. /\ c.seen \in {reg[e], None}
        /\ c.look = "none" \/ c.look = e
        /\ c.look = "none" => c.seen = None
        /\ c.pc \in {"reap", "drop", "rmdir", "gc"}
        /\ c.pc = "gc" <=> c.look = "none"
    <3>1. "none" \notin Devices
      BY RegistryAssumption
    <3> QED
      BY <2>2, <2>3, <3>1 DEF CallType
  <2>6. call[d].mem = None
    BY <1>0, <1>8 DEF GcRead, At, CallOK, Saving
  <2> HIDE DEF c
  <2>7. CallOK(c, d, users[d], proc)
    BY <2>2, <2>4, <2>5, <2>6, NamesNothing DEF CallOK, Saving
  <2>8. call' = [call EXCEPT ![d] = c]
    BY <1>0, <2>1 DEF c
  <2> QED
    BY <1>0, <1>1, <1>8, <2>7, <2>8, Close DEF GcRead, World, procs, DataOK
<1>9. ASSUME NEW d \in Devices, GcReap(d) PROVE TypeInv'
  <2>1. call[d].seen \in Entries /\ Names(proc, call[d].seen, call[d].look)
    BY <1>0, <1>9 DEF GcReap, At, CallOK, CallType
  <2>2. Quit(call[d].seen)
    BY <1>9 DEF GcReap
  <2>3. Kept(proc')
    BY <2>1, <2>2, QuitFacts
  <2>4. CallOK([call[d] EXCEPT !.pc = "drop"], d, users[d], proc')
    BY <2>3, <1>9, MoveOK DEF Kept, GcReap, At, PCs, Gc, Saving
  <2> QED
    BY <1>0, <1>9, <2>1, <2>2, <2>3, <2>4, Close, QuitFacts DEF GcReap, Goto, World, DataOK
<1>10. ASSUME NEW d \in Devices, At(d, "drop") \/ At(d, "rmdir") PROVE
         /\ CallOK([call[d] EXCEPT !.pc = "gc", !.look = "none", !.seen = None], d, users[d], proc)
         /\ call[d].look \in Devices
  <2>1. CallOK(call[d], d, users[d], proc) /\ call[d].pc \in {"drop", "rmdir"}
    BY <1>0, <1>10 DEF At
  <2>2. call[d] \in CallType /\ call[d].look # "none" /\ call[d].mem = None
    BY <2>1 DEF CallOK, Saving
  <2> QED
    BY <2>1, <2>2, EntryTypes DEF CallOK, CallType, PCs, Gc, Saving
<1>11. ASSUME NEW d \in Devices, GcDrop(d) PROVE TypeInv'
  <2> DEFINE c == [call[d] EXCEPT !.pc = "gc", !.look = "none", !.seen = None]
  <2>1. CallOK(c, d, users[d], proc) /\ call[d].look \in Devices
    BY <1>10, <1>11 DEF GcDrop
  <2>2. call' = [call EXCEPT ![d] = c]
    BY <1>0, <1>11 DEF GcDrop, Seen
  <2> HIDE DEF c
  <2>3. DataOK' /\ \A x \in Devices : reg'[x] \in {reg[x], None}
    BY <1>0, <1>11, <2>1, EntryTypes DEF GcDrop, RemoveMetadata, procs, DataOK
  <2> QED
    BY <1>0, <1>1, <1>11, <2>1, <2>2, <2>3, Close DEF GcDrop, procs
<1>12. ASSUME NEW d \in Devices, GcRmdir(d) PROVE TypeInv'
  <2> DEFINE c == [call[d] EXCEPT !.pc = "gc", !.look = "none", !.seen = None]
  <2>1. CallOK(c, d, users[d], proc) /\ call[d].look \in Devices
    BY <1>10, <1>12 DEF GcRmdir
  <2>2. call' = [call EXCEPT ![d] = c]
    BY <1>0, <1>12 DEF GcRmdir, Seen
  <2> HIDE DEF c
  <2>3. DataOK' /\ \A x \in Devices : reg'[x] \in {reg[x], None}
    BY <1>0, <1>12, <2>1, EntryTypes DEF GcRmdir, RemoveMetadata, World, procs, DataOK
  <2> QED
    BY <1>0, <1>1, <1>12, <2>1, <2>2, <2>3, Close DEF GcRmdir, World, procs
<1>13. ASSUME NEW d \in Devices, Load(d) PROVE TypeInv'
  <2>0. reg[d] \in Entries /\ Names(proc, reg[d], d) /\ UNCHANGED <<reg, mode, zvol, leak, crashes>>
    BY <1>0, <1>13 DEF DataOK, Load, World
  <2>1. CASE Fails(d) /\ UNCHANGED procs
    BY <1>0, <1>1, <2>0, <2>1, NoCallOK, Close DEF Fails, Returns, procs, DataOK
  <2>2. CASE Goto(d, "spawn") /\ UNCHANGED <<procs, users, nbd>>
    <3>1. CallOK([call[d] EXCEPT !.pc = "spawn"], d, users[d], proc)
      BY <1>0, <1>13, MoveOK DEF Load, At, PCs, Gc, Saving
    <3> QED
      BY <1>0, <1>1, <2>0, <2>2, <3>1, Close DEF Goto, procs, DataOK
  <2>3. CASE Hands(d, reg[d].pid) /\ UNCHANGED procs
    BY <1>0, <1>1, <2>0, <2>3, HandOK, NoCallOK, Close DEF Names, procs, DataOK
  <2>4. CASE /\ Registered(reg[d]) /\ call' = [call EXCEPT ![d].pc = "proxy", ![d].mem = reg[d]]
             /\ UNCHANGED <<procs, users, nbd>>
    <3>1. CallOK([call[d] EXCEPT !.pc = "proxy", !.mem = reg[d]], d, users[d], proc)
      BY <1>0, <1>13, <2>0, <2>4, EntryFields
         DEF Load, At, Registered, CallOK, CallType, PCs, Gc, Saving
    <3>2. call' = [call EXCEPT ![d] = [call[d] EXCEPT !.pc = "proxy", !.mem = reg[d]]]
      BY <1>0, <2>4
    <3> QED
      BY <1>0, <1>1, <2>0, <2>4, <3>1, <3>2, Close DEF procs, DataOK
  <2>5. CASE Quit(reg[d]) /\ Goto(d, "clear") /\ UNCHANGED <<users, nbd>>
    <3>1. Kept(proc')
      BY <2>0, <2>5, QuitFacts
    <3>2. CallOK([call[d] EXCEPT !.pc = "clear"], d, users[d], proc')
      BY <3>1, <1>13, MoveOK DEF Kept, Load, At, PCs, Gc, Saving
    <3> QED
      BY <1>0, <2>0, <2>5, <3>1, <3>2, Close, QuitFacts DEF Goto, DataOK
  <2> QED
    BY <1>13, <2>1, <2>2, <2>3, <2>4, <2>5 DEF Load
<1>14. ASSUME NEW d \in Devices, Clear(d) PROVE TypeInv'
  <2>1. CallOK([call[d] EXCEPT !.pc = "spawn"], d, users[d], proc)
    BY <1>0, <1>14, MoveOK DEF Clear, At, PCs, Gc, Saving
  <2> QED
    BY <1>0, <1>1, <1>14, <2>1, Close, EntryTypes DEF Clear, RemoveMetadata, Goto, World, procs, DataOK
<1>15. ASSUME NEW d \in Devices, Spawn(d) PROVE TypeInv'
  <2>1. PICK p \in Pids :
          /\ Start(p, d, "daemon")
          /\ call' = [call EXCEPT ![d].pc = "mkdir",
                                  ![d].mem = [None EXCEPT !.st = "saved", !.pid = p]]
    BY <1>15 DEF Spawn
  <2> DEFINE e == [None EXCEPT !.st = "saved", !.pid = p]
             c == [call[d] EXCEPT !.pc = "mkdir", !.mem = e]
  <2>2. e \in Saved /\ e.pid = p /\ e.scm = NoPid
    BY DEF None, Saved
  <2>3. call' = [call EXCEPT ![d] = c]
    BY <1>0, <2>1
  <2>4. /\ proc' \in [Pids -> {Gone} \cup [dev : Devices, kind : Kinds]]
        /\ proc' = [proc EXCEPT ![p] = [dev |-> d, kind |-> "daemon"]]
        /\ UNCHANGED dying /\ p \notin dying /\ Kept(proc')
    BY <2>1, StartFacts DEF Kinds
  <2> HIDE DEF e
  <2>5. Names(proc', e, d)
    BY <1>0, <2>2, <2>4, EntryTypes DEF Names, Was, DataOK
  <2>6. CallOK(c, d, users[d], proc')
    <3>1. call[d] \in CallType /\ CallOK(call[d], d, users[d], proc') /\ call[d].look = "none"
      BY <1>0, <1>15, <2>4 DEF Kept, Spawn, At, CallOK
    <3>2. /\ c \in CallType /\ c.pc = "mkdir" /\ c.mem = e
          /\ c.look = "none" /\ c.seen = call[d].seen
      BY <3>1, <2>2, EntryTypes DEF CallType, PCs, Saving
    <3> HIDE DEF c
    <3> QED
      BY <3>1, <3>2, <2>2, <2>5 DEF CallOK, Saving
  <2> HIDE DEF c
  <2>7. dying' \subseteq {q \in Pids : proc'[q] # Gone} /\ \A q \in dying' : proc'[q].kind = "daemon"
    BY <1>0, <2>4 DEF DataOK
  <2> QED
    BY <1>0, <1>15, <2>3, <2>4, <2>6, <2>7, Close DEF Spawn, World, DataOK
<1>16. ASSUME NEW d \in Devices, SpawnFails(d) \/ ForkFails(d) PROVE TypeInv'
  BY <1>0, <1>1, <1>16, NoCallOK, Close
     DEF SpawnFails, ForkFails, Fails, Returns, World, procs, DataOK
<1>17. ASSUME NEW d \in Devices, SaveOpen(d) PROVE TypeInv'
  <2>1. CASE reg[d] = None
    BY <1>0, <1>1, <1>17, <2>1, NoCallOK, Close DEF SaveOpen, Fails, Returns, procs, DataOK
  <2>2. CASE reg[d] # None
    <3>1. CallOK([call[d] EXCEPT !.pc = "write"], d, users[d], proc)
      BY <1>0, <1>17, MoveOK DEF SaveOpen, At, PCs, Gc, Saving
    <3> QED
      BY <1>0, <1>1, <1>17, <2>2, <3>1, EntryTypes, Close DEF SaveOpen, Goto, procs, DataOK
  <2> QED
    BY <2>1, <2>2
<1>18. ASSUME NEW d \in Devices, SaveWrite(d) PROVE TypeInv'
  <2>1. call[d].mem \in Saved /\ Was(proc, call[d].mem.pid, d, "daemon")
    BY <1>0, <1>18 DEF SaveWrite, At, CallOK, Saving, Names
  <2>2. /\ UNCHANGED <<mode, zvol, leak, crashes, procs>>
        /\ reg' = [reg EXCEPT ![d] = IF @ = Torn THEN call[d].mem ELSE @]
    BY <1>18 DEF SaveWrite, World
  <2>3. CASE Goto(d, "proxy") /\ UNCHANGED <<users, nbd>>
    <3>1. CallOK([call[d] EXCEPT !.pc = "proxy"], d, users[d], proc)
      BY <1>0, <1>18, MoveOK DEF SaveWrite, At, PCs, Gc, Saving
    <3> QED
      BY <1>0, <1>1, <2>1, <2>2, <2>3, <3>1, EntryTypes, Close DEF Goto, procs, DataOK
  <2>4. CASE Hands(d, call[d].mem.pid)
    BY <1>0, <1>1, <2>1, <2>2, <2>4, HandOK, EntryTypes, NoCallOK, Close DEF procs, DataOK
  <2> QED
    BY <1>18, <2>3, <2>4 DEF SaveWrite
<1>19. ASSUME NEW d \in Devices, ForkProxy(d) PROVE TypeInv'
  <2>1. PICK p \in Pids :
          /\ Start(p, d, "proxy")
          /\ call' = [call EXCEPT ![d].pc = "mkdir", ![d].mem.scm = p]
    BY <1>19 DEF ForkProxy
  <2> DEFINE e == [call[d].mem EXCEPT !.scm = p]
             c == [call[d] EXCEPT !.pc = "mkdir", !.mem = e]
  <2>2. call[d].mem \in Saved
    BY <1>0, <1>19 DEF ForkProxy, At, CallOK, Saving
  <2>3. e \in Saved /\ e.pid = call[d].mem.pid /\ e.scm = p
    BY <2>2 DEF Saved
  <2>4. call' = [call EXCEPT ![d] = c]
    BY <1>0, <2>1 DEF CallType
  <2>5. /\ proc' \in [Pids -> {Gone} \cup [dev : Devices, kind : Kinds]]
        /\ proc' = [proc EXCEPT ![p] = [dev |-> d, kind |-> "proxy"]]
        /\ UNCHANGED dying /\ p \notin dying /\ Kept(proc')
    BY <2>1, StartFacts DEF Kinds
  <2> HIDE DEF e
  <2>6. Names(proc', e, d)
    <3>1. Was(proc', call[d].mem.pid, d, "daemon")
      BY <2>5 DEF Kept, CallOK, Names
    <3>2. Was(proc', p, d, "proxy")
      BY <1>0, <2>5 DEF Was, DataOK
    <3> QED
      BY <2>3, <3>1, <3>2 DEF Names
  <2>7. CallOK(c, d, users[d], proc')
    <3>1. call[d] \in CallType /\ CallOK(call[d], d, users[d], proc') /\ call[d].look = "none"
      BY <1>0, <1>19, <2>5 DEF Kept, ForkProxy, At, CallOK
    <3>2. /\ c \in CallType /\ c.pc = "mkdir" /\ c.mem = e
          /\ c.look = "none" /\ c.seen = call[d].seen
      BY <3>1, <2>3, EntryTypes DEF CallType, PCs, Saving
    <3> HIDE DEF c
    <3> QED
      BY <3>1, <3>2, <2>3, <2>6 DEF CallOK, Saving
  <2> HIDE DEF c
  <2>8. dying' \subseteq {q \in Pids : proc'[q] # Gone} /\ \A q \in dying' : proc'[q].kind = "daemon"
    BY <1>0, <2>5 DEF DataOK
  <2> QED
    BY <1>0, <1>19, <2>4, <2>5, <2>7, <2>8, Close DEF ForkProxy, World, DataOK
<1>20. ASSUME NEW d \in Devices, DetachQuit(d) PROVE TypeInv'
  <2>0. /\ reg[d] \in Entries /\ Names(proc, reg[d], d) /\ UNCHANGED <<reg, mode, zvol, leak, crashes>>
        /\ users[d] > 0
    BY <1>0, <1>20 DEF DataOK, DetachQuit, At, CallOK, World
  <2>1. CASE Fails(d) /\ UNCHANGED procs
    BY <1>0, <1>1, <2>0, <2>1, NoCallOK, Close DEF Fails, Returns, procs, DataOK
  <2>2. CASE Detached(d) /\ UNCHANGED procs
    <3>1. users' \in [Devices -> 0..MaxUsers] /\ nbd' \in [Devices -> SUBSET Pids]
      BY <1>0, <2>0, <2>2, RegistryAssumption DEF Detached, DataOK
    <3> QED
      BY <1>0, <1>1, <2>0, <2>2, <3>1, NoCallOK, Close DEF Detached, procs, DataOK
  <2>3. CASE Quit(reg[d]) /\ Goto(d, "remove") /\ UNCHANGED users
             /\ nbd' = [nbd EXCEPT ![d] = IF users[d] = 1 THEN {} ELSE @]
    <3>1. Kept(proc')
      BY <2>0, <2>3, QuitFacts
    <3>2. CallOK([call[d] EXCEPT !.pc = "remove"], d, users[d], proc')
      BY <3>1, <1>20, <2>0, MoveOK DEF Kept, DetachQuit, At, PCs, Gc, Saving
    <3> QED
      BY <1>0, <2>0, <2>3, <3>1, <3>2, Close, QuitFacts DEF Goto, DataOK
  <2> QED
    BY <1>20, <2>1, <2>2, <2>3 DEF DetachQuit
<1>21. ASSUME NEW d \in Devices, DetachRemove(d) PROVE TypeInv'
  <2>1. users[d] > 0
    BY <1>0, <1>21 DEF DetachRemove, At, CallOK
  <2>2. users' \in [Devices -> 0..MaxUsers] /\ nbd' \in [Devices -> SUBSET Pids]
    BY <1>0, <1>21, <2>1, RegistryAssumption DEF DetachRemove, Detached, DataOK
  <2> QED
    BY <1>0, <1>1, <1>21, <2>2, NoCallOK, EntryTypes, Close
       DEF DetachRemove, RemoveMetadata, Detached, World, procs, DataOK
<1>22. ASSUME NEW d \in Devices, Crash(d) PROVE TypeInv'
  <2>1. UNCHANGED <<mode, zvol, reg, procs, users, nbd>> /\ call' = [call EXCEPT ![d] = NoCall]
    BY <1>22 DEF Crash
  <2>2. crashes' \in 0..MaxCrashes /\ leak' \subseteq Devices
    BY <1>0, <1>22, RegistryAssumption DEF Crash, DataOK
  <2> QED
    BY <1>0, <1>1, <2>1, <2>2, NoCallOK, Close DEF procs, DataOK
<1>23. ASSUME NEW p \in Pids, Die(p) PROVE TypeInv'
  <2>1. /\ proc' \in [Pids -> {Gone} \cup [dev : Devices, kind : Kinds]]
        /\ \A q \in Pids : proc'[q] \in {Gone, proc[q]}
    BY <1>0, <1>23 DEF Die, DataOK
  <2>2. Kept(proc')
    BY <2>1, KeptShrink
  <2>3. /\ dying' \subseteq {q \in Pids : proc'[q] # Gone} /\ \A q \in dying' : proc'[q].kind = "daemon"
        /\ nbd' \in [Devices -> SUBSET Pids] /\ \A e \in Devices : nbd'[e] \subseteq nbd[e]
    BY <1>0, <1>23 DEF Die, DataOK
  <2>4. TypeOK'
    BY <1>23, <2>1, <2>3 DEF Die, TypeInv, TypeOK, Kinds
  <2> QED
    BY <1>0, <1>23, <2>2, <2>3, <2>4 DEF Die, TypeInv, Kept
<1>24. ASSUME NEW d \in Devices, Destroy(d) \/ Lose(d) PROVE TypeInv'
  <2>1. TypeOK'
    BY <1>0, <1>24 DEF Destroy, Lose, procs, TypeInv, TypeOK
  <2> QED
    BY <1>24, <2>1 DEF Destroy, Lose, procs, TypeInv
<1>25. CASE UNCHANGED vars
  BY <1>25 DEF vars, procs, TypeInv, TypeOK
<1> QED
  BY <1>2, <1>3, <1>4, <1>5, <1>6, <1>7, <1>8, <1>9, <1>11, <1>12, <1>13, <1>14, <1>15, <1>16,
     <1>17, <1>18, <1>19, <1>20, <1>21, <1>22, <1>23, <1>24, <1>25 DEF Next, Step

\* Every variable keeps its type, and a pid the registry remembers was started.
THEOREM RegistryTypeCorrect == Spec => []TypeOK
<1>1. TypeInv => TypeOK
  BY DEF TypeInv
<1> QED
  BY <1>1, TypeInit, TypeStep, PTL DEF Spec

-----------------------------------------------------------------------------
(* What runs is known.                                                     *)

LEMMA RunningPids ==
  ASSUME TypeInv, NEW d \in Devices
  PROVE  Running(d) \subseteq Pids /\ Proxies(d) \subseteq Pids
  BY DEF Running, Daemons, Proxies

\* Processes may end beside any call, and so may an entry that names none.
LEMMA FoundRests ==
  ASSUME NEW r, NEW c, NEW ds, NEW ps, NEW u, Found(r, c, ds, ps, u), NEW ds2 \in SUBSET ds,
         NEW ps2 \in SUBSET ps
  PROVE  /\ Found(r, c, ds2, ps2, u)
         /\ Found(None, c, {}, {}, u)
         /\ r = Empty => Found(None, c, ds2, ps2, u)
  BY EntryTypes DEF Found, Gc, Saving

LEMMA RunShrink ==
  ASSUME TypeInv, \A p \in Pids : proc'[p] \in {Gone, proc[p]},
         proc' \in [Pids -> {Gone} \cup [dev : Devices, kind : Kinds]],
         \A p \in dying \ dying' : p \in Pids => proc'[p] = Gone, NEW d \in Devices
  PROVE  Running(d)' \subseteq Running(d) /\ Proxies(d)' \subseteq Proxies(d)
<1>1. \A p \in Pids : \A k \in Kinds : proc'[p] = [dev |-> d, kind |-> k] => proc[p] = [dev |-> d, kind |-> k]
  BY RegistryAssumption DEF Gone, Kinds
<1>2. Gone.kind = "none"
  BY DEF Gone
<1> QED
  BY <1>1, <1>2 DEF Running, Daemons, Proxies, Kinds

LEMMA RunQuit ==
  ASSUME TypeInv, NEW e \in Entries, NEW d \in Devices, Names(proc, e, d), Quit(e),
         NEW c \in Devices
  PROVE  /\ Running(c)' \subseteq Running(c) /\ Proxies(c)' \subseteq Proxies(c)
         /\ e.pid \notin Running(c)' /\ e.scm \notin Proxies(c)'
<1>1. Running(c)' \subseteq Running(c) /\ Proxies(c)' \subseteq Proxies(c)
  BY QuitFacts, RunShrink
<1>2. e.pid \in Pids => proc'[e.pid] = Gone \/ e.pid \in dying'
  BY QuitFacts
<1>3. e.scm \in Pids => proc'[e.scm] = Gone
  BY QuitFacts
<1>4. \A k : Gone # [dev |-> c, kind |-> k]
  BY RegistryAssumption DEF Gone
<1> QED
  BY <1>1, <1>2, <1>3, <1>4 DEF Running, Daemons, Proxies

\* No other call is in progress, unless calls overlap.
Lone(d) == mode # "overlap" => \A e \in Devices \ {d} : call[e] = NoCall

\* A step of the call on d, which takes from another device at most an entry that
\* says nothing of it.
LEMMA FoundClose ==
  ASSUME TypeInv, TypeInv', FoundInv, UNCHANGED mode, NEW d \in Devices, Lone(d),
         \A e \in Devices \ {d} : call'[e] = call[e],
         leak \subseteq leak',
         \A e \in Devices \ {d} : e \notin leak' =>
           /\ users'[e] = users[e]
           /\ Running(e)' \subseteq Running(e) /\ Proxies(e)' \subseteq Proxies(e)
           /\ \/ reg'[e] = reg[e]
              \/ reg'[e] = None /\ (reg[e] = Empty \/ (Running(e)' = {} /\ Proxies(e)' = {})),
         FoundAt(d)', LookAt(d)'
  PROVE  FoundInv'
<1>1. mode' # "overlap" => OneCall'
  BY DEF Lone, OneCall
<1>2. ASSUME NEW e \in Devices \ {d} PROVE FoundAt(e)' /\ LookAt(e)'
  <2>1. LookAt(e)'
    <3>1. NoCall.look = "none"
      BY DEF NoCall
    <3>2. e \notin call[e].todo /\ call[e].look # e /\ call'[e] = call[e]
      BY DEF FoundInv, LookAt
    <3>3. mode' # "overlap" => call'[e].look \notin Devices
      BY <3>1, <3>2, RegistryAssumption DEF Lone
    <3> QED
      BY <3>2, <3>3 DEF LookAt
  <2>2. ASSUME e \notin leak' PROVE Found(reg'[e], call[e], Running(e)', Proxies(e)', users'[e])
    <3>1. Found(reg[e], call[e], Running(e), Proxies(e), users[e])
      BY <2>2 DEF FoundInv, FoundAt
    <3>2. /\ users'[e] = users[e]
          /\ Running(e)' \subseteq Running(e) /\ Proxies(e)' \subseteq Proxies(e)
          /\ \/ reg'[e] = reg[e]
             \/ reg'[e] = None /\ (reg[e] = Empty \/ (Running(e)' = {} /\ Proxies(e)' = {}))
      BY <2>2
    <3> QED
      BY <3>1, <3>2, FoundRests
  <2>3. call'[e] = call[e]
    OBVIOUS
  <2> HIDE DEF Found
  <2> QED
    BY <2>1, <2>2, <2>3 DEF FoundAt
<1> QED
  BY <1>1, <1>2 DEF FoundInv

LEMMA FoundInit == Init => FoundInv
<1> SUFFICES ASSUME Init PROVE FoundInv
  OBVIOUS
<1>1. \A d \in Devices : Daemons(d) = {} /\ Proxies(d) = {}
  BY RegistryAssumption DEF Init, Daemons, Proxies, Gone
<1>2. \A d \in Devices : reg[d] = None /\ call[d] = NoCall
  BY DEF Init
<1>3. Found(None, NoCall, {}, {}, 0)
  BY EntryTypes DEF Found, NoCall, Gc, Saving
<1>4. \A d \in Devices : FoundAt(d)
  BY <1>1, <1>2, <1>3 DEF FoundAt, Running, Init
<1>5. \A d \in Devices : LookAt(d)
  BY <1>2, RegistryAssumption DEF LookAt, NoCall
<1> QED
  BY <1>2, <1>4, <1>5 DEF FoundInv, OneCall

LEMMA Alone ==
  ASSUME TypeInv, FoundInv, NEW d \in Devices, call[d].pc # "idle"
  PROVE  Lone(d)
  BY DEF FoundInv, OneCall, NoCall, Lone

\* A step of the call on d that starts and stops no process and leaves other entries.
LEMMA FoundQuiet ==
  ASSUME TypeInv, TypeInv', FoundInv, UNCHANGED <<mode, procs>>, NEW d \in Devices, Lone(d),
         NEW c, call' = [call EXCEPT ![d] = c],
         leak \subseteq leak',
         \A e \in Devices \ {d} : users'[e] = users[e] /\ reg'[e] = reg[e],
         d \notin leak' => Found(reg'[d], c, Running(d), Proxies(d), users'[d]),
         c.look = "none", d \notin c.todo
  PROVE  FoundInv'
<1>1. \A e \in Devices : Running(e)' = Running(e) /\ Proxies(e)' = Proxies(e)
  BY DEF Running, Daemons, Proxies, procs
<1>2. call'[d] = c /\ \A e \in Devices \ {d} : call'[e] = call[e]
  BY DEF TypeInv
<1>3. FoundAt(d)'
  BY <1>1, <1>2 DEF FoundAt
<1>4. LookAt(d)'
  BY <1>2, RegistryAssumption DEF LookAt
<1>5. \A e \in Devices \ {d} : e \notin leak' =>
        /\ users'[e] = users[e]
        /\ Running(e)' \subseteq Running(e) /\ Proxies(e)' \subseteq Proxies(e)
        /\ reg'[e] = reg[e]
  BY <1>1
<1>6. UNCHANGED mode
  OBVIOUS
<1> HIDE DEF Found
<1> QED
  BY <1>2, <1>3, <1>4, <1>5, <1>6, FoundClose

LEMMA FoundStep == TypeInv /\ FoundInv /\ [Next]_vars => FoundInv'
<1> SUFFICES ASSUME TypeInv, FoundInv, [Next]_vars PROVE FoundInv'
  OBVIOUS
<1>0. /\ TypeInv' /\ DataOK
      /\ \A d \in Devices : FoundAt(d) /\ LookAt(d) /\ CallOK(call[d], d, users[d], proc)
      /\ call \in [Devices -> CallType]
      /\ \A d \in Devices : \/ d \in leak
                            \/ Found(reg[d], call[d], Running(d), Proxies(d), users[d])
  BY TypeStep, DataOfType DEF FoundInv, TypeInv, FoundAt
<1>1. \A d \in Devices : call[d].pc # "idle" => Lone(d)
  BY Alone
<1>2. ASSUME NEW d \in Devices, call[d].pc \notin {"reap", "drop", "rmdir"} PROVE
         call[d].look = "none" /\ d \notin call[d].todo
  BY <1>0, <1>2 DEF CallOK, LookAt
<1>3. NoCall.look = "none" /\ NoCall.todo = {} /\ NoCall.mem = None /\ NoCall.pc = "idle" /\ NoCall.op = "none"
  BY DEF NoCall
<1>4. \A r, ds, ps, u : \A d \in Devices : Found(r, call[d], ds, ps, u) /\ r.st # "torn" /\ call[d].mem = None
                           /\ call[d].pc \notin Saving
        => Found(r, NoCall, ds, ps, u)
  BY <1>3 DEF Found, Gc, Saving
<1>5. ASSUME NEW d \in Devices, GcList(d) PROVE FoundInv'
  <2> DEFINE c == [call[d] EXCEPT !.pc = "gc", !.todo = {e \in Devices \ {d} : reg[e] # None}]
  <2>1. call' = [call EXCEPT ![d] = c]
    BY <1>0, <1>5 DEF GcList
  <2>2. c.look = "none" /\ d \notin c.todo
    BY <1>0, <1>2, <1>5 DEF GcList, At, CallType
  <2>3. d \in leak \/ Found(reg[d], c, Running(d), Proxies(d), users[d])
    BY <1>0, <1>3, <1>5 DEF GcList, At, Found, CallType, Gc, Saving
  <2> HIDE DEF c
  <2> QED
    BY <1>0, <1>1, <1>5, <2>1, <2>2, <2>3, FoundQuiet DEF GcList, At, World
<1>6. ASSUME NEW d \in Devices, SaveMkdir(d) PROVE FoundInv'
  <2> DEFINE c == [call[d] EXCEPT !.pc = "open"]
  <2>1. call' = [call EXCEPT ![d] = c]
    BY <1>0, <1>6 DEF SaveMkdir, Goto
  <2>2. c.look = "none" /\ d \notin c.todo
    BY <1>0, <1>2, <1>6 DEF SaveMkdir, At, CallType
  <2>3. d \in leak \/ Found(reg'[d], c, Running(d), Proxies(d), users[d])
    BY <1>0, <1>3, <1>6, EntryTypes DEF SaveMkdir, At, Found, CallType, Gc, Saving, DataOK
  <2> HIDE DEF c
  <2> QED
    BY <1>0, <1>1, <1>6, <2>1, <2>2, <2>3, FoundQuiet DEF SaveMkdir, At, World, DataOK
<1>7. ASSUME NEW d \in Devices, NEW op \in {"attach", "import"}, Begin(d, op) PROVE FoundInv'
  <2> DEFINE c == [NoCall EXCEPT !.op = op, !.pc = IF op = "import" THEN "probe" ELSE "list"]
  <2>1. call' = [call EXCEPT ![d] = c] /\ call[d] = NoCall /\ Lone(d)
    BY <1>7 DEF Begin, MayStart, Lone
  <2>2. c.look = "none" /\ d \notin c.todo /\ c.mem = None /\ c.op = op
        /\ c.pc = IF op = "import" THEN "probe" ELSE "list"
    BY DEF NoCall
  <2>3. users'[d] > 0 /\ \A e \in Devices \ {d} : users'[e] = users[e]
    BY <1>0, <1>7 DEF Begin, DataOK
  <2> HIDE DEF c
  <2>4. d \in leak \/ Found(reg[d], c, Running(d), Proxies(d), users'[d])
    BY <1>0, <1>3, <2>1, <2>2, <2>3, EntryTypes DEF Found, Gc, Saving
  <2> QED
    BY <1>0, <1>7, <2>1, <2>2, <2>3, <2>4, FoundQuiet DEF Begin, World
<1>8. ASSUME NEW d \in Devices, BeginDetach(d) PROVE FoundInv'
  <2> DEFINE c == [NoCall EXCEPT !.op = "detach", !.pc = "detach"]
  <2>1. call' = [call EXCEPT ![d] = c] /\ call[d] = NoCall /\ Lone(d)
    BY <1>8 DEF BeginDetach, MayStart, Lone
  <2>2. c.look = "none" /\ d \notin c.todo /\ c.mem = None /\ c.op = "detach" /\ c.pc = "detach"
    BY DEF NoCall
  <2> HIDE DEF c
  <2>3. d \in leak \/ Found(reg[d], c, Running(d), Proxies(d), users[d])
    BY <1>0, <1>3, <1>8, <2>1, <2>2, EntryTypes DEF BeginDetach, Found, Gc, Saving
  <2> QED
    BY <1>0, <1>8, <2>1, <2>2, <2>3, FoundQuiet DEF BeginDetach, World
\* A call that leaves the registry as it is, without a pid in its memory, may return.
<1>9. ASSUME NEW d \in Devices, call[d].pc \notin Saving \cup {"idle"}, Returns(d), World,
             UNCHANGED <<reg, procs>>
      PROVE  FoundInv'
  <2>1. call[d].mem = None
    BY <1>0, <1>9 DEF CallOK
  <2>2. d \in leak \/ Found(reg[d], NoCall, Running(d), Proxies(d), users[d])
    <3>1. d \in leak \/ reg[d].st # "torn"
      BY <1>0, <1>9 DEF Found, Saving
    <3> QED
      BY <1>0, <1>4, <1>9, <2>1, <3>1
  <2> QED
    BY <1>0, <1>1, <1>3, <1>9, <2>2, FoundQuiet DEF Returns, World
<1>10. ASSUME NEW d \in Devices, reg[d].pid \in Pids, call[d].mem = None,
              Quit(reg[d])
       PROVE  d \in leak \/ (Running(d)' = {} /\ Proxies(d)' = {})
  <2>1. reg[d] \in Entries /\ Names(proc, reg[d], d)
    BY <1>0 DEF TypeInv, DataOK
  <2>2. /\ Running(d)' \subseteq Running(d) /\ Proxies(d)' \subseteq Proxies(d)
        /\ reg[d].pid \notin Running(d)' /\ reg[d].scm \notin Proxies(d)'
    BY <1>10, <2>1, RunQuit
  <2>3. d \in leak \/ (Running(d) \subseteq {reg[d].pid, NoPid} /\ Proxies(d) \subseteq {reg[d].scm, NoPid})
    BY <1>0, <1>10, EntryTypes DEF Found
  <2> QED
    BY <2>2, <2>3, RunningPids, EntryTypes
\* The call on d stops what the entry names and goes on to remove it.
<1>11. ASSUME NEW d \in Devices, call[d].pc \in {"probe", "gc", "detach"}, Registered(reg[d]), Quit(reg[d]),
              NEW s \in {"probe_clear", "clear", "remove"}, Goto(d, s), World, UNCHANGED <<reg, users>>
       PROVE  FoundInv'
  <2> DEFINE c == [call[d] EXCEPT !.pc = s]
  <2>1. reg[d] \in Entries /\ reg[d].pid \in Pids /\ Names(proc, reg[d], d) /\ reg[d].st = "saved"
    BY <1>0, <1>11, EntryFields, EntryTypes DEF Registered, TypeInv, DataOK
  <2>2. call[d].mem = None
    BY <1>0, <1>11 DEF CallOK, Saving
  <2>3. d \in leak \/ (Running(d)' = {} /\ Proxies(d)' = {})
    BY <1>10, <1>11, <2>1, <2>2
  <2>4. call'[d] = c /\ Lone(d) /\ \A e \in Devices \ {d} : call'[e] = call[e]
    BY <1>0, <1>1, <1>11 DEF Goto
  <2>5. c.look = "none" /\ d \notin c.todo /\ c.pc = s /\ c.mem = None
    BY <1>0, <1>2, <1>11, <2>2 DEF CallType
  <2> HIDE DEF c
  <2>6. d \in leak \/ users[d] > 0
    BY <1>0, <1>3, <1>11 DEF Found
  <2>7. FoundAt(d)'
    BY <1>11, <2>1, <2>3, <2>4, <2>5, <2>6 DEF FoundAt, Found, Gc, Saving, World
  <2>8. LookAt(d)'
    BY <2>4, <2>5, RegistryAssumption DEF LookAt
  <2>9. \A e \in Devices : Running(e)' \subseteq Running(e) /\ Proxies(e)' \subseteq Proxies(e)
    BY <1>11, <2>1, RunQuit
  <2> QED
    BY <1>0, <1>11, <2>4, <2>7, <2>8, <2>9, FoundClose DEF World
\* The call on d moves on and leaves the registry as it is.
<1>12. ASSUME NEW d \in Devices, call[d].pc \in {"probe", "gc"}, reg[d].st # "torn", call[d].mem = None,
              NEW s \in {"list", "spawn"}, Goto(d, s), World, UNCHANGED <<reg, procs, users>>,
              d \in leak \/ Proxies(d) = {},
              s = "spawn" => d \in leak \/ Running(d) = {}
       PROVE  FoundInv'
  <2> DEFINE c == [call[d] EXCEPT !.pc = s]
  <2>1. call' = [call EXCEPT ![d] = c]
    BY <1>0, <1>12 DEF Goto
  <2>2. c.look = "none" /\ d \notin c.todo /\ c.mem = None /\ c.pc = s
    BY <1>0, <1>2, <1>12 DEF CallType
  <2> HIDE DEF c
  <2>3. d \in leak \/ users[d] > 0
    BY <1>0, <1>3, <1>12 DEF Found
  <2>4. d \in leak \/ Found(reg[d], c, Running(d), Proxies(d), users[d])
    BY <1>0, <1>12, <2>2, <2>3 DEF Found, Gc, Saving
  <2> QED
    BY <1>0, <1>1, <1>12, <2>1, <2>2, <2>4, FoundQuiet DEF World
<1>13. ASSUME NEW d \in Devices, reg[d].st \in {"none", "empty"}, call[d].mem = None PROVE
          d \in leak \/ (Running(d) = {} /\ Proxies(d) = {})
  <2>1. reg[d].pid = NoPid /\ reg[d].scm = NoPid
    BY <1>0, <1>13, EntryFields, EntryTypes DEF DataOK
  <2> QED
    BY <1>0, <1>13, <2>1, RunningPids, EntryTypes DEF Found
<1>14. ASSUME NEW d \in Devices, Probe(d) PROVE FoundInv'
  <2>0. call[d].pc = "probe" /\ call[d].mem = None /\ World /\ UNCHANGED reg
    BY <1>0, <1>14 DEF Probe, At, CallOK, Saving
  <2>1. CASE Fails(d) /\ UNCHANGED procs
    BY <1>9, <2>0, <2>1 DEF Fails, Saving
  <2>2. CASE reg[d].st \in {"none", "empty"} /\ Goto(d, "list") /\ UNCHANGED <<procs, users, nbd>>
    BY <1>12, <1>13, <2>0, <2>2 DEF procs
  <2>3. CASE Hands(d, reg[d].pid) /\ UNCHANGED procs
    BY <1>9, <2>0, <2>3 DEF Hands, Saving
  <2>4. CASE Registered(reg[d]) /\ ~Alive(reg[d].scm) /\ Goto(d, "list") /\ UNCHANGED <<procs, users, nbd>>
    <3>1. d \in leak \/ Proxies(d) \subseteq {reg[d].scm, NoPid}
      BY <1>0, <2>0, EntryTypes DEF Found
    <3>2. reg[d].scm \notin Proxies(d) /\ NoPid \notin Proxies(d)
      BY <2>4, EntryTypes, RegistryAssumption DEF Alive, Proxies, Gone
    <3> QED
      BY <1>12, <2>0, <2>4, <3>1, <3>2 DEF Registered, procs
  <2>5. CASE Registered(reg[d]) /\ Quit(reg[d]) /\ Goto(d, "probe_clear") /\ UNCHANGED <<users, nbd>>
    BY <1>11, <2>0, <2>5
  <2> QED
    BY <1>14, <2>1, <2>2, <2>3, <2>4, <2>5 DEF Probe
<1>15. ASSUME NEW d \in Devices, call[d].pc \in {"probe_clear", "clear"}, RemoveMetadata(d),
              NEW s \in {"list", "spawn"}, Goto(d, s), World, UNCHANGED <<procs, users>>
       PROVE  FoundInv'
  <2> DEFINE c == [call[d] EXCEPT !.pc = s]
  <2>1. call' = [call EXCEPT ![d] = c]
    BY <1>0, <1>15 DEF Goto
  <2>2. c.look = "none" /\ d \notin c.todo /\ c.pc = s
    BY <1>0, <1>2, <1>15 DEF CallType
  <2> HIDE DEF c
  <2>3. reg'[d] = None /\ \A e \in Devices \ {d} : reg'[e] = reg[e]
    BY <1>0, <1>15 DEF RemoveMetadata, DataOK
  <2>4. d \in leak \/ (users[d] > 0 /\ Running(d) = {} /\ Proxies(d) = {})
    BY <1>0, <1>3, <1>15 DEF Found
  <2>5. d \in leak \/ Found(reg'[d], c, Running(d), Proxies(d), users[d])
    BY <2>2, <2>3, <2>4, EntryTypes DEF Found, Gc, Saving
  <2> QED
    BY <1>0, <1>1, <1>15, <2>1, <2>2, <2>3, <2>5, FoundQuiet DEF World
<1>16. ASSUME NEW d \in Devices, ProbeClear(d) \/ Clear(d) PROVE FoundInv'
  BY <1>15, <1>16 DEF ProbeClear, Clear, At, procs
\* The collection: unless calls overlap, the entry read is that of an idle device.
<1>17. ASSUME mode # "overlap", NEW d \in Devices, NEW e \in Devices \ {d}, call[d].pc # "idle" PROVE
         /\ call[e] = NoCall
         /\ e \in leak \/ Found(reg[e], NoCall, Running(e), Proxies(e), users[e])
         /\ e \in leak \/ reg[e].st # "torn"
         /\ e \in leak \/ (Running(e) \subseteq {reg[e].pid, NoPid} /\ Proxies(e) \subseteq {reg[e].scm, NoPid})
  <2>1. call[e] = NoCall
    BY <1>1, <1>17 DEF Lone
  <2>2. e \in leak \/ Found(reg[e], NoCall, Running(e), Proxies(e), users[e])
    BY <1>0, <2>1
  <2> QED
    BY <1>3, <2>1, <2>2, EntryTypes DEF Found
<1>18. ASSUME NEW d \in Devices, GcRead(d) PROVE FoundInv'
  <2>1. PICK e \in call[d].todo :
          LET v == Verdict(e) IN
          call' = [call EXCEPT
            ![d].todo = @ \ {e},
            ![d].look = IF v = "leave" THEN "none" ELSE e,
            ![d].seen = IF v = "reap" THEN reg[e] ELSE None,
            ![d].pc = IF v = "leave" THEN "gc" ELSE v]
    BY <1>18 DEF GcRead
  <2> DEFINE c == [call[d] EXCEPT !.todo = @ \ {e},
                     !.look = IF Verdict(e) = "leave" THEN "none" ELSE e,
                     !.seen = IF Verdict(e) = "reap" THEN reg[e] ELSE None,
                     !.pc = IF Verdict(e) = "leave" THEN "gc" ELSE Verdict(e)]
  <2>2. call[d].pc = "gc" /\ call[d].mem = None /\ e \in Devices \ {d} /\ d \notin call[d].todo
    BY <1>0, <1>18 DEF GcRead, At, CallOK, CallType, Saving, LookAt
  <2>3. Verdict(e) \in {"reap", "drop", "rmdir", "leave"}
    BY DEF Verdict
  <2>4. call' = [call EXCEPT ![d] = c]
    BY <1>0, <2>1
  <2>5. /\ c.mem = None /\ c.op = call[d].op /\ d \notin c.todo
        /\ c.pc \in Gc
        /\ c.pc = Verdict(e) \/ (c.pc = "gc" /\ c.look = "none")
        /\ c.look \in {"none", e}
        /\ c.pc = "reap" => c.seen = reg[e]
    BY <1>0, <2>2, <2>3 DEF CallType, Gc
  <2> HIDE DEF c
  <2>6. UNCHANGED <<reg, procs, users, nbd, mode, leak>>
    BY <1>18 DEF GcRead, World
  <2>7. \A x \in Devices : Running(x)' = Running(x) /\ Proxies(x)' = Proxies(x)
    BY <2>6 DEF Running, Daemons, Proxies, procs
  <2>8. call'[d] = c /\ Lone(d) /\ \A x \in Devices \ {d} : call'[x] = call[x]
    BY <1>0, <1>1, <2>2, <2>4
  <2>9. d \in leak \/ Found(reg[d], c, Running(d), Proxies(d), users[d])
    BY <1>0, <1>3, <2>2, <2>5 DEF Found, Gc, Saving
  <2>10. FoundAt(d)'
    BY <2>6, <2>7, <2>8, <2>9 DEF FoundAt
  <2>11. mode # "overlap" /\ Verdict(e) = "drop" => e \in leak \/ Running(e) = {}
    <3>1. SUFFICES ASSUME mode # "overlap", Verdict(e) = "drop" PROVE e \in leak \/ Running(e) = {}
      OBVIOUS
    <3>2. reg[e].st = "torn" \/ ~Alive(reg[e].pid)
      BY <3>1 DEF Verdict
    <3>3. e \in leak \/ (reg[e].st # "torn" /\ Running(e) \subseteq {reg[e].pid, NoPid})
      BY <1>17, <2>2, <3>1
    <3>4. ~Alive(reg[e].pid) => reg[e].pid \notin Running(e)
      BY RegistryAssumption DEF Alive, Running, Daemons, Gone
    <3> QED
      BY <3>2, <3>3, <3>4, <2>2, RunningPids, EntryTypes
  <2>12. LookAt(d)'
    BY <2>2, <2>5, <2>6, <2>7, <2>8, <2>11, RegistryAssumption DEF LookAt, Gc
  <2> QED
    BY <1>0, <2>6, <2>7, <2>8, <2>10, <2>12, FoundClose
<1>19. ASSUME NEW d \in Devices, GcReap(d) PROVE FoundInv'
  <2>0. PICK e \in Devices : e = call[d].look
    BY <1>0, <1>19 DEF GcReap, At, CallOK, CallType
  <2> DEFINE c == [call[d] EXCEPT !.pc = "drop"]
  <2>1. /\ call[d].pc = "reap" /\ call[d].mem = None /\ e = call[d].look /\ e \in Devices \ {d} /\ d \notin call[d].todo
        /\ Names(proc, call[d].seen, e) /\ call[d].seen \in Entries
    BY <1>0, <1>19, <2>0 DEF GcReap, At, CallOK, CallType, Saving, LookAt
  <2>2. /\ call'[d] = c /\ UNCHANGED <<reg, users, mode, leak>> /\ Quit(call[d].seen)
        /\ Lone(d) /\ \A x \in Devices \ {d} : call'[x] = call[x]
    BY <1>0, <1>1, <1>19, <2>1 DEF GcReap, Goto, World
  <2>3. c.mem = None /\ c.op = call[d].op /\ c.pc = "drop" /\ c.look = e /\ d \notin c.todo
    BY <1>0, <2>1 DEF CallType
  <2> HIDE DEF c
  <2>4. \A x \in Devices : /\ Running(x)' \subseteq Running(x) /\ Proxies(x)' \subseteq Proxies(x)
                           /\ call[d].seen.pid \notin Running(x)'
    BY <2>1, <2>2, RunQuit
  <2>5. mode = "overlap" \/ e \in leak \/ Running(e)' = {}
    <3>1. mode = "overlap" \/ e \in leak \/ call[d].seen = reg[e]
      BY <1>0, <2>1 DEF LookAt
    <3>2. mode = "overlap" \/ e \in leak \/ Running(e) \subseteq {reg[e].pid, NoPid}
      BY <1>17, <2>1
    <3>3. Running(e) \subseteq Pids /\ NoPid \notin Pids
      BY RunningPids, EntryTypes
    <3> QED
      BY <2>4, <3>1, <3>2, <3>3
  <2>6. d \in leak \/ Found(reg[d], c, Running(d)', Proxies(d)', users[d])
    <3>1. d \in leak \/ Found(reg[d], call[d], Running(d), Proxies(d), users[d])
      BY <1>0
    <3>2. Running(d)' \subseteq Running(d) /\ Proxies(d)' \subseteq Proxies(d)
      BY <2>4
    <3> QED
      BY <1>3, <2>1, <2>3, <3>1, <3>2 DEF Found, Gc, Saving
  <2>7. FoundAt(d)' /\ LookAt(d)'
    BY <2>1, <2>2, <2>3, <2>5, <2>6 DEF FoundAt, LookAt
  <2> QED
    BY <1>0, <2>2, <2>4, <2>7, FoundClose
\* The entry read is removed, or left.
<1>20. ASSUME NEW d \in Devices, call[d].pc \in {"drop", "rmdir"}, Seen(d), leak \subseteq leak',
              UNCHANGED <<procs, users, mode>>, NEW e, e = call[d].look,
              \A x \in Devices \ {e} : reg'[x] = reg[x],
              \/ reg'[e] = reg[e]
              \/ /\ reg'[e] = None
                 /\ e \in leak' \/ reg[e] = Empty \/ (Running(e) = {} /\ Proxies(e) = {})
       PROVE  FoundInv'
  <2> DEFINE c == [call[d] EXCEPT !.pc = "gc", !.look = "none", !.seen = None]
  <2>1. call[d].mem = None /\ e \in Devices \ {d} /\ d \notin call[d].todo
    BY <1>0, <1>20 DEF CallOK, CallType, Saving, LookAt
  <2>2. call' = [call EXCEPT ![d] = c]
    BY <1>0, <1>20 DEF Seen
  <2>3. /\ call'[d] = c
        /\ Lone(d) /\ \A x \in Devices \ {d} : call'[x] = call[x]
    BY <1>0, <1>1, <1>20, <2>2
  <2>4. c.mem = None /\ c.op = call[d].op /\ c.pc = "gc" /\ c.look = "none" /\ d \notin c.todo
    BY <1>0, <2>1 DEF CallType
  <2> HIDE DEF c
  <2>5. \A x \in Devices : Running(x)' = Running(x) /\ Proxies(x)' = Proxies(x)
    BY <1>20 DEF Running, Daemons, Proxies, procs
  <2>6. d \in leak \/ Found(reg[d], c, Running(d), Proxies(d), users[d])
    BY <1>0, <1>3, <1>20, <2>1, <2>4 DEF Found, Gc, Saving
  <2>7. FoundAt(d)' /\ LookAt(d)'
    BY <1>20, <2>1, <2>3, <2>4, <2>5, <2>6, RegistryAssumption DEF FoundAt, LookAt
  <2>8. \A x \in Devices \ {d} : x \notin leak' =>
           /\ users'[x] = users[x]
           /\ Running(x)' \subseteq Running(x) /\ Proxies(x)' \subseteq Proxies(x)
           /\ \/ reg'[x] = reg[x]
              \/ reg'[x] = None /\ (reg[x] = Empty \/ (Running(x)' = {} /\ Proxies(x)' = {}))
    BY <1>20, <2>5
  <2> QED
    BY <1>0, <1>20, <2>3, <2>7, <2>8, FoundClose
<1>21. ASSUME NEW d \in Devices, GcDrop(d) PROVE FoundInv'
  <2> DEFINE e == call[d].look
  <2>1. call[d].look \in Devices
    BY <1>0, <1>21 DEF GcDrop, At, CallOK, CallType
  <2>2. /\ \A x \in Devices \ {e} : reg'[x] = reg[x]
        /\ reg'[e] = None /\ leak \subseteq leak'
        /\ e \in leak' \/ (Proxies(e) = {} /\ ~Unregisters(e))
    BY <1>0, <1>21, <2>1 DEF GcDrop, RemoveMetadata, DataOK
  <2>3. mode # "overlap" => e \in leak \/ Running(e) = {}
    BY <1>0, <1>21, <2>1 DEF GcDrop, At, LookAt
  <2>4. mode = "overlap" => reg[e] = None \/ Unregisters(e) \/ Running(e) = {}
    BY DEF Unregisters, Running
  <2>5. reg'[e] = reg[e] \/ e \in leak' \/ (Running(e) = {} /\ Proxies(e) = {})
    BY <2>2, <2>3, <2>4
  <2> QED
    BY <1>20, <1>21, <2>2, <2>5 DEF GcDrop, At, procs
<1>22. ASSUME NEW d \in Devices, GcRmdir(d) PROVE FoundInv'
  <2> DEFINE e == call[d].look
  <2>1. call[d].look \in Devices
    BY <1>0, <1>22 DEF GcRmdir, At, CallOK, CallType
  <2>2. /\ \A x \in Devices \ {e} : reg'[x] = reg[x]
        /\ reg'[e] = reg[e] \/ (reg'[e] = None /\ reg[e] = Empty)
    BY <1>0, <1>22, <2>1 DEF GcRmdir, RemoveMetadata, DataOK
  <2> QED
    BY <1>20, <1>22, <2>2 DEF GcRmdir, At, World, procs
<1>23. ASSUME NEW d \in Devices, Load(d) PROVE FoundInv'
  <2>0. call[d].pc = "gc" /\ call[d].mem = None /\ World /\ UNCHANGED reg
    BY <1>0, <1>23 DEF Load, At, CallOK, Saving
  <2>1. CASE Fails(d) /\ UNCHANGED procs
    BY <1>9, <2>0, <2>1 DEF Fails, Saving
  <2>2. CASE reg[d].st \in {"none", "empty"} /\ Goto(d, "spawn") /\ UNCHANGED <<procs, users, nbd>>
    BY <1>12, <1>13, <2>0, <2>2 DEF procs
  <2>3. CASE Hands(d, reg[d].pid) /\ UNCHANGED procs
    BY <1>9, <2>0, <2>3 DEF Hands, Saving
  <2>4. CASE /\ Registered(reg[d]) /\ call[d].op = "import"
             /\ call' = [call EXCEPT ![d].pc = "proxy", ![d].mem = reg[d]]
             /\ UNCHANGED <<procs, users, nbd>>
    <3> DEFINE c == [call[d] EXCEPT !.pc = "proxy", !.mem = reg[d]]
    <3>1. call' = [call EXCEPT ![d] = c]
      BY <1>0, <2>4
    <3>2. c.look = "none" /\ d \notin c.todo /\ c.pc = "proxy" /\ c.mem = reg[d]
      BY <1>0, <1>2, <2>0 DEF CallType
    <3> HIDE DEF c
    <3>3. d \in leak \/ (/\ users[d] > 0 /\ Proxies(d) = {}
                         /\ Running(d) \subseteq {reg[d].pid, NoPid})
      BY <1>0, <1>3, <2>0, <2>4, EntryTypes DEF Found, Gc
    <3>4. Running(d) \subseteq Pids /\ NoPid \notin Pids
      BY RunningPids, EntryTypes
    <3>5. d \in leak \/ Found(reg[d], c, Running(d), Proxies(d), users[d])
      BY <2>4, <3>2, <3>3, <3>4 DEF Found, Registered, Gc, Saving
    <3> QED
      BY <1>0, <1>1, <2>0, <2>4, <3>1, <3>2, <3>5, FoundQuiet DEF World
  <2>5. CASE Registered(reg[d]) /\ Quit(reg[d]) /\ Goto(d, "clear") /\ UNCHANGED <<users, nbd>>
    BY <1>11, <2>0, <2>5
  <2> QED
    BY <1>23, <2>1, <2>2, <2>3, <2>4, <2>5 DEF Load
<1>24. ASSUME NEW d \in Devices, NEW p, NEW kind \in Kinds, Start(p, d, kind) PROVE
          /\ \A e \in Devices \ {d} : Running(e)' \subseteq Running(e) /\ Proxies(e)' \subseteq Proxies(e)
          /\ kind = "daemon" => Running(d)' \subseteq Running(d) \cup {p} /\ Proxies(d)' \subseteq Proxies(d)
          /\ kind = "proxy" => Running(d)' \subseteq Running(d) /\ Proxies(d)' \subseteq Proxies(d) \cup {p}
  <2>1. proc' = [proc EXCEPT ![p] = [dev |-> d, kind |-> kind]] /\ UNCHANGED dying
    BY <1>24 DEF Start
  <2>2. \A q \in Pids : proc'[q] = IF q = p THEN [dev |-> d, kind |-> kind] ELSE proc[q]
    BY <1>0, <2>1 DEF DataOK
  <2> QED
    BY <2>1, <2>2 DEF Running, Daemons, Proxies
<1>25. ASSUME NEW d \in Devices, Spawn(d) PROVE FoundInv'
  <2>1. PICK p \in Pids :
          /\ Start(p, d, "daemon")
          /\ call' = [call EXCEPT ![d].pc = "mkdir",
                                  ![d].mem = [None EXCEPT !.st = "saved", !.pid = p]]
    BY <1>25 DEF Spawn
  <2> DEFINE m == [None EXCEPT !.st = "saved", !.pid = p]
             c == [call[d] EXCEPT !.pc = "mkdir", !.mem = m]
  <2>2. m.pid = p /\ m.scm = NoPid
    BY DEF None
  <2>3. call[d].pc = "spawn" /\ UNCHANGED <<reg, users, mode, leak>>
    BY <1>25 DEF Spawn, At, World
  <2>4. /\ call'[d] = c
        /\ Lone(d) /\ \A x \in Devices \ {d} : call'[x] = call[x]
    BY <1>0, <1>1, <2>1, <2>3
  <2>5. c.mem = m /\ c.pc = "mkdir" /\ c.look = "none" /\ d \notin c.todo
    BY <1>0, <1>2, <2>3 DEF CallType
  <2> HIDE DEF c, m
  <2>6. /\ \A e \in Devices \ {d} : Running(e)' \subseteq Running(e) /\ Proxies(e)' \subseteq Proxies(e)
        /\ Running(d)' \subseteq Running(d) \cup {p} /\ Proxies(d)' \subseteq Proxies(d)
    BY <1>24, <2>1 DEF Kinds
  <2>7. d \in leak \/ (Running(d) = {} /\ Proxies(d) = {} /\ users[d] > 0 /\ reg[d].st # "torn")
    BY <1>0, <1>3, <2>3 DEF Found
  <2>8. d \in leak \/ Found(reg[d], c, Running(d)', Proxies(d)', users[d])
    BY <2>2, <2>5, <2>6, <2>7 DEF Found, Gc, Saving
  <2>9. FoundAt(d)' /\ LookAt(d)'
    BY <2>3, <2>4, <2>5, <2>8, RegistryAssumption DEF FoundAt, LookAt
  <2> QED
    BY <1>0, <2>3, <2>4, <2>6, <2>9, FoundClose
<1>26. ASSUME NEW d \in Devices, SpawnFails(d) PROVE FoundInv'
  BY <1>9, <1>26 DEF SpawnFails, Fails, At, Saving, procs
<1>27. ASSUME NEW d \in Devices, ForkFails(d) PROVE FoundInv'
  <2>1. d \in leak \/ Found(reg[d], NoCall, Running(d), Proxies(d), users[d])
    BY <1>0, <1>3, <1>27, EntryTypes DEF ForkFails, At, Found, Gc, Saving
  <2> QED
    BY <1>0, <1>1, <1>3, <1>27, <2>1, FoundQuiet DEF ForkFails, At, Fails, Returns, World
<1>28. ASSUME NEW d \in Devices, SaveOpen(d) PROVE FoundInv'
  <2>0. call[d].pc = "open" /\ UNCHANGED <<mode, procs>>
    BY <1>28 DEF SaveOpen, At
  <2>1. CASE reg[d] = None
    BY <1>0, <1>1, <1>3, <1>28, <2>0, <2>1, FoundQuiet DEF SaveOpen, Fails, Returns
  <2>2. CASE reg[d] # None
    <3> DEFINE c == [call[d] EXCEPT !.pc = "write"]
    <3>1. call' = [call EXCEPT ![d] = c] /\ reg' = [reg EXCEPT ![d] = Torn] /\ UNCHANGED <<leak, users>>
      BY <1>0, <1>28, <2>2 DEF SaveOpen, Goto
    <3>2. c.look = "none" /\ d \notin c.todo /\ c.pc = "write" /\ c.mem = call[d].mem
      BY <1>0, <1>2, <2>0 DEF CallType
    <3> HIDE DEF c
    <3>3. d \in leak \/ (/\ users[d] > 0 /\ Running(d) \subseteq {call[d].mem.pid}
                         /\ Proxies(d) \subseteq {call[d].mem.scm})
      BY <1>0, <1>3, <2>0 DEF Found, Saving
    <3>4. d \in leak \/ Found(Torn, c, Running(d), Proxies(d), users[d])
      BY <3>2, <3>3, EntryTypes DEF Found, Gc, Saving
    <3>5. reg'[d] = Torn /\ \A e \in Devices \ {d} : reg'[e] = reg[e]
      BY <1>0, <3>1 DEF DataOK
    <3> QED
      BY <1>0, <1>1, <2>0, <3>1, <3>2, <3>4, <3>5, FoundQuiet
  <2> QED
    BY <2>1, <2>2
<1>29. ASSUME NEW d \in Devices, SaveWrite(d) PROVE FoundInv'
  <2>0. call[d].pc = "write" /\ call[d].mem \in Saved /\ UNCHANGED <<mode, procs, leak>>
    BY <1>0, <1>29 DEF SaveWrite, At, World, CallOK, Saving
  <2>1. /\ \A e \in Devices \ {d} : reg'[e] = reg[e]
        /\ reg'[d] = call[d].mem \/ (reg'[d] = reg[d] /\ reg[d].st # "torn")
        /\ d \in leak \/ reg'[d] = call[d].mem \/ (Running(d) = {} /\ Proxies(d) = {})
    BY <1>0, <1>29, <2>0, EntryFields DEF SaveWrite, Found, DataOK
  <2>2. d \in leak \/ (/\ users[d] > 0 /\ Running(d) \subseteq {call[d].mem.pid}
                       /\ Proxies(d) \subseteq {call[d].mem.scm})
    BY <1>0, <1>3, <2>0 DEF Found, Saving
  <2>3. CASE Hands(d, call[d].mem.pid)
    <3>1. d \in leak \/ Found(reg'[d], NoCall, Running(d), Proxies(d), users[d])
      BY <1>3, <2>0, <2>1, <2>2, EntryTypes DEF Found, Gc, Saving
    <3> QED
      BY <1>0, <1>1, <1>3, <2>0, <2>1, <2>3, <3>1, FoundQuiet DEF Hands, Returns
  <2>4. CASE call[d].mem.scm = NoPid /\ Goto(d, "proxy") /\ UNCHANGED <<users, nbd>>
    <3> DEFINE c == [call[d] EXCEPT !.pc = "proxy"]
    <3>1. call' = [call EXCEPT ![d] = c]
      BY <1>0, <2>4 DEF Goto
    <3>2. c.look = "none" /\ d \notin c.todo /\ c.pc = "proxy" /\ c.mem = call[d].mem
      BY <1>0, <1>2, <2>0 DEF CallType
    <3> HIDE DEF c
    <3>3. d \in leak \/ Proxies(d) = {}
      BY <2>2, <2>4, RunningPids, EntryTypes
    <3>4. d \in leak \/ Found(reg'[d], c, Running(d), Proxies(d), users[d])
      BY <2>0, <2>1, <2>2, <3>2, <3>3, EntryTypes DEF Found, Gc, Saving
    <3> QED
      BY <1>0, <1>1, <2>0, <2>1, <2>4, <3>1, <3>2, <3>4, FoundQuiet
  <2> QED
    BY <1>29, <2>3, <2>4 DEF SaveWrite
<1>30. ASSUME NEW d \in Devices, ForkProxy(d) PROVE FoundInv'
  <2>1. PICK p \in Pids :
          /\ Start(p, d, "proxy")
          /\ call' = [call EXCEPT ![d].pc = "mkdir", ![d].mem.scm = p]
    BY <1>30 DEF ForkProxy
  <2> DEFINE m == [call[d].mem EXCEPT !.scm = p]
             c == [call[d] EXCEPT !.pc = "mkdir", !.mem = m]
  <2>2. call[d].pc = "proxy" /\ call[d].mem \in Saved /\ UNCHANGED <<reg, users, mode, leak>>
    BY <1>0, <1>30 DEF ForkProxy, At, World, CallOK, Saving
  <2>3. m.pid = call[d].mem.pid /\ m.scm = p
    BY <2>2 DEF Saved
  <2>4. /\ call'[d] = c
        /\ Lone(d) /\ \A x \in Devices \ {d} : call'[x] = call[x]
    BY <1>0, <1>1, <2>1, <2>2 DEF CallType
  <2>5. c.mem = m /\ c.pc = "mkdir" /\ c.look = "none" /\ d \notin c.todo /\ c.op = call[d].op
    BY <1>0, <1>2, <2>2 DEF CallType
  <2> HIDE DEF c, m
  <2>6. /\ \A e \in Devices \ {d} : Running(e)' \subseteq Running(e) /\ Proxies(e)' \subseteq Proxies(e)
        /\ Running(d)' \subseteq Running(d) /\ Proxies(d)' \subseteq Proxies(d) \cup {p}
    BY <1>24, <2>1 DEF Kinds
  <2>7. d \in leak \/ (Running(d) \subseteq {call[d].mem.pid} /\ users[d] > 0 /\ reg[d].st # "torn")
    BY <1>0, <1>3, <2>2 DEF Found, Saving
  <2>8. d \in leak \/ Proxies(d) = {}
    BY <1>0, <2>2 DEF Found
  <2>9. d \in leak \/ Found(reg[d], c, Running(d)', Proxies(d)', users[d])
    BY <2>3, <2>5, <2>6, <2>7, <2>8 DEF Found, Gc, Saving
  <2>10. FoundAt(d)' /\ LookAt(d)'
    BY <2>2, <2>4, <2>5, <2>9, RegistryAssumption DEF FoundAt, LookAt
  <2> QED
    BY <1>0, <2>2, <2>4, <2>6, <2>10, FoundClose
\* detach has one domain less to serve.
<1>31. ASSUME NEW d \in Devices, call[d].pc \in {"detach", "remove"}, Detached(d), World, UNCHANGED procs,
              \A e \in Devices \ {d} : reg'[e] = reg[e],
              reg'[d].st \in {"none", "empty"}, reg'[d].pid = NoPid, reg'[d].scm = NoPid,
              d \in leak \/ (Running(d) = {} /\ Proxies(d) = {})
       PROVE  FoundInv'
  <2>1. call' = [call EXCEPT ![d] = NoCall] /\ \A e \in Devices \ {d} : users'[e] = users[e]
    BY <1>0, <1>31 DEF Detached, DataOK
  <2>2. d \in leak \/ Found(reg'[d], NoCall, Running(d), Proxies(d), users'[d])
    BY <1>3, <1>31 DEF Found, Gc, Saving
  <2> QED
    BY <1>0, <1>1, <1>3, <1>31, <2>1, <2>2, FoundQuiet DEF World
<1>32. ASSUME NEW d \in Devices, DetachQuit(d) PROVE FoundInv'
  <2>0. call[d].pc = "detach" /\ call[d].mem = None /\ World /\ UNCHANGED reg /\ reg[d] \in Entries
    BY <1>0, <1>32 DEF DetachQuit, At, CallOK, Saving, DataOK
  <2>1. CASE Fails(d) /\ UNCHANGED procs
    BY <1>9, <2>0, <2>1 DEF Fails, Saving
  <2>2. CASE reg[d].st \in {"none", "empty"} /\ Detached(d) /\ UNCHANGED procs
    <3>1. reg[d].pid = NoPid /\ reg[d].scm = NoPid
      BY <2>0, <2>2, EntryFields, EntryTypes
    <3> QED
      BY <1>13, <1>31, <2>0, <2>2, <3>1
  <2>3. CASE Registered(reg[d]) /\ Quit(reg[d]) /\ Goto(d, "remove") /\ UNCHANGED users
    BY <1>11, <2>0, <2>3
  <2> QED
    BY <1>32, <2>1, <2>2, <2>3 DEF DetachQuit
<1>33. ASSUME NEW d \in Devices, DetachRemove(d) PROVE FoundInv'
  <2>1. reg'[d] = None /\ \A e \in Devices \ {d} : reg'[e] = reg[e]
    BY <1>0, <1>33 DEF DetachRemove, RemoveMetadata, DataOK
  <2>2. call[d].pc = "remove" /\ Detached(d) /\ World /\ UNCHANGED procs
    BY <1>33 DEF DetachRemove, At
  <2>3. d \in leak \/ (Running(d) = {} /\ Proxies(d) = {})
    BY <1>0, <2>2 DEF Found
  <2> QED
    BY <1>31, <2>1, <2>2, <2>3, EntryTypes
<1>34. ASSUME NEW d \in Devices, Crash(d) PROVE FoundInv'
  <2>1. /\ d \in leak' /\ leak \subseteq leak' /\ call' = [call EXCEPT ![d] = NoCall]
        /\ UNCHANGED <<mode, reg, procs, users>> /\ call[d] # NoCall
    BY <1>34 DEF Crash
  <2>2. Lone(d)
    BY <2>1 DEF FoundInv, OneCall, Lone
  <2> QED
    BY <1>0, <1>3, <2>1, <2>2, FoundQuiet
\* Nothing of a call or the registry changes; processes at most end.
<1>35. ASSUME UNCHANGED <<mode, reg, call, users, leak>>,
              \A d \in Devices : Running(d)' \subseteq Running(d) /\ Proxies(d)' \subseteq Proxies(d)
       PROVE  FoundInv'
  <2>1. mode' # "overlap" => OneCall'
    BY <1>35 DEF FoundInv, OneCall
  <2>2. ASSUME NEW d \in Devices PROVE FoundAt(d)'
    <3>1. Running(d)' \subseteq Running(d) /\ Proxies(d)' \subseteq Proxies(d)
      BY <1>35
    <3>2. d \in leak \/ Found(reg[d], call[d], Running(d)', Proxies(d)', users[d])
      BY <1>0, <3>1 DEF Found
    <3> QED
      BY <1>35, <3>2 DEF FoundAt
  <2>3. ASSUME NEW d \in Devices PROVE LookAt(d)'
    <3>1. CASE call[d].look \in Devices
      <4>1. PICK e \in Devices : e = call[d].look
        BY <3>1
      <4>2. Running(e)' \subseteq Running(e)
        BY <1>35
      <4> QED
        BY <1>0, <1>35, <4>1, <4>2 DEF LookAt
    <3>2. CASE call[d].look \notin Devices
      BY <1>0, <1>35, <3>2 DEF LookAt
    <3> QED
      BY <3>1, <3>2
  <2> QED
    BY <2>1, <2>2, <2>3 DEF FoundInv
<1>36. ASSUME NEW p \in Pids, Die(p) PROVE FoundInv'
  <2>1. /\ proc' \in [Pids -> {Gone} \cup [dev : Devices, kind : Kinds]]
        /\ \A q \in Pids : proc'[q] \in {Gone, proc[q]}
        /\ \A q \in dying \ dying' : q \in Pids => proc'[q] = Gone
    BY <1>0, <1>36 DEF Die, DataOK
  <2> QED
    BY <1>35, <1>36, <2>1, RunShrink DEF Die
<1>37. ASSUME UNCHANGED <<mode, reg, procs, call, users, leak>> PROVE FoundInv'
  <2>1. \A d \in Devices : Running(d)' = Running(d) /\ Proxies(d)' = Proxies(d)
    BY <1>37 DEF Running, Daemons, Proxies, procs
  <2> QED
    BY <1>35, <1>37, <2>1
<1>38. ASSUME NEW d \in Devices, Destroy(d) \/ Lose(d) PROVE FoundInv'
  BY <1>37, <1>38 DEF Destroy, Lose
<1>39. CASE UNCHANGED vars
  BY <1>37, <1>39 DEF vars
<1> QED
  BY <1>5, <1>6, <1>7, <1>8, <1>14, <1>16, <1>18, <1>19, <1>21, <1>22, <1>23, <1>25, <1>26, <1>27,
     <1>28, <1>29, <1>30, <1>32, <1>33, <1>34, <1>36, <1>38, <1>39 DEF Next, Step

LEMMA FoundInvariant == Spec => [](TypeInv /\ FoundInv)
<1>1. TypeInv /\ FoundInv /\ [Next]_vars => (TypeInv /\ FoundInv)'
  BY TypeStep, FoundStep
<1> QED
  BY TypeInit, FoundInit, <1>1, PTL DEF Spec

\* Every daemon that runs is in the registry or in the memory of the call in
\* progress, unless a call was killed on the device, could not register it, or
\* the collection of another call dropped the entry.
THEOREM DaemonsAreFindable == Spec => []Findable
<1>1. TypeInv /\ FoundInv => Findable
  <2> SUFFICES ASSUME TypeInv, FoundInv, NEW d \in Devices \ leak,
                      NEW p \in Daemons(d) \ dying
               PROVE  (Registered(reg[d]) /\ reg[d].pid = p) \/ call[d].mem.pid = p
    BY DEF Findable
  <2>1. p \in {reg[d].pid, call[d].mem.pid}
    BY DEF FoundInv, FoundAt, Found, Running
  <2>2. p \in Pids /\ reg[d] \in Entries
    BY DataOfType DEF Daemons, DataOK
  <2> QED
    BY <2>1, <2>2, EntryTypes DEF Entries, Registered
<1> QED
  BY <1>1, FoundInvariant, PTL

\* A call that starts a daemon or a proxy has found that none of the registry is
\* left.
LEMMA OneAtATime ==
  ASSUME TypeInv, FoundInv, NEW d \in Devices \ leak
  PROVE  /\ \A p, q \in Daemons(d) \ dying : p = q
         /\ \A p, q \in Proxies(d) : p = q
<1>1. /\ \A p, q \in Running(d) : p = q
      /\ \A p, q \in Proxies(d) : p = q
  <2>1. Found(reg[d], call[d], Running(d), Proxies(d), users[d])
    BY DEF FoundInv, FoundAt
  <2>2. call[d].pc \in Saving \/ (call[d].mem.pid = NoPid /\ call[d].mem.scm = NoPid)
    BY EntryTypes, EntryFields DEF TypeInv, CallOK
  <2>3. Running(d) \subseteq Pids /\ Proxies(d) \subseteq Pids /\ NoPid \notin Pids
    BY RunningPids DEF Pids, NoPid
  <2>4. CASE call[d].pc \in Saving
    BY <2>1, <2>4 DEF Found
  <2>5. CASE call[d].mem.pid = NoPid /\ call[d].mem.scm = NoPid
    BY <2>1, <2>3, <2>5 DEF Found
  <2> QED
    BY <2>2, <2>4, <2>5
<1> QED
  BY <1>1 DEF Running

\* A device has one daemon that stays and one proxy at most, and a device that
\* is attached to nobody has none, unless a daemon or proxy of it outlived its
\* entry before (datapath.py detach); also where calls overlap.
THEOREM OneServerPerDevice == Spec => []OneServer
<1>1. ASSUME TypeInv, FoundInv, NEW d \in Devices \ leak, users[d] = 0, call[d] = NoCall
      PROVE  Daemons(d) \subseteq dying /\ Proxies(d) = {}
  <2>1. Found(reg[d], NoCall, Running(d), Proxies(d), 0)
    BY <1>1 DEF FoundInv, FoundAt
  <2>2. reg[d] \in Entries /\ reg[d].st # "saved" /\ NoCall.mem = None
    BY <1>1, <2>1, DataOfType DEF DataOK, Found, NoCall
  <2>3. reg[d].pid = NoPid /\ reg[d].scm = NoPid
    BY <2>2, EntryFields, EntryTypes
  <2>4. Running(d) \subseteq {NoPid} /\ Proxies(d) \subseteq {NoPid}
    BY <2>1, <2>2, <2>3, EntryTypes DEF Found
  <2> QED
    BY <1>1, <2>4, RunningPids, EntryTypes DEF Running
<1>2. TypeInv /\ FoundInv => OneServer
  BY <1>1, OneAtATime DEF OneServer
<1> QED
  BY <1>2, FoundInvariant, PTL

\* Unless calls overlap, GC drops no entry of a daemon that stays
\* (datapath.py:606-607), but on a device where a call was killed: what it read
\* of the entry still holds when it removes it.
SparesUnlessOverlap ==
    mode # "overlap" =>
      \A d \in Devices : GcDrop(d) =>
        \A e \in Devices \ leak : e = call[d].look => Daemons(e) \subseteq dying

THEOREM CollectionsSpareServing == Spec => [][SparesUnlessOverlap]_vars
<1>1. TypeInv /\ FoundInv => SparesUnlessOverlap
  <2> SUFFICES ASSUME FoundInv, mode # "overlap", NEW d \in Devices, GcDrop(d),
                      NEW e \in Devices \ leak, e = call[d].look
               PROVE  Running(e) = {}
    BY DEF SparesUnlessOverlap, Running
  <2> QED
    BY DEF FoundInv, LookAt, GcDrop, At
<1> QED
  BY <1>1, FoundInvariant, PTL

-----------------------------------------------------------------------------
(* Where a device has one user, nobody loses a daemon.                     *)

\* A step neither stops nor tells to quit a daemon that is remembered as e's.
Spares(e) == \A p \in Pids : Was(proc, p, e, "daemon") =>
                /\ p \in dying' => p \in dying
                /\ proc'[p] = Gone => proc[p] = Gone

LEMMA SparesSame == ASSUME UNCHANGED procs, NEW e PROVE Spares(e)
  BY DEF Spares, procs

LEMMA SparesStart ==
  ASSUME TypeInv, NEW p, NEW d \in Devices, NEW kind \in Kinds, Start(p, d, kind), NEW e \in Devices
  PROVE  Spares(e)
<1>1. [dev |-> d, kind |-> kind] # Gone
  BY RegistryAssumption DEF Gone
<1>2. proc' = [proc EXCEPT ![p] = [dev |-> d, kind |-> kind]] /\ UNCHANGED dying
  BY StartFacts
<1> QED
  BY <1>1, <1>2, DataOfType DEF Spares, DataOK

LEMMA SparesQuit ==
  ASSUME TypeInv, NEW x \in Entries, NEW d, Names(proc, x, d), Quit(x), NEW e \in Devices, e # d
  PROVE  Spares(e)
<1> SUFFICES ASSUME NEW p \in Pids, Was(proc, p, e, "daemon"), proc[p] # Gone
             PROVE  (p \in dying' => p \in dying) /\ proc'[p] # Gone
  <2>1. \A p \in dying' : p \in Pids /\ proc'[p] # Gone
    BY QuitFacts
  <2>2. \A p \in Pids : proc'[p] \in {Gone, proc[p]}
    BY QuitFacts
  <2> QED
    BY <2>1, <2>2 DEF Spares
<1>1. proc[p] = [dev |-> e, kind |-> "daemon"]
  BY DEF Was
<1>2. p # x.pid /\ p # x.scm
  <2>1. \A k \in {"daemon", "proxy"} : proc[p] # [dev |-> d, kind |-> k]
    BY <1>1
  <2> QED
    BY <2>1 DEF Names, Was
<1>3. proc'[p] = proc[p]
  BY <1>2, QuitFacts
<1>4. dying' \subseteq dying \cup {x.pid}
  BY QuitFacts
<1> QED
  BY <1>2, <1>3, <1>4

LEMMA ServedKeep ==
  ASSUME TypeInv, TypeInv', NEW e \in Devices, Spares(e), ServedAt(e),
         NEW r, r.pid \in {reg[e].pid, NoPid}
  PROVE  Served(r, call[e], nbd[e], dying', proc', users[e])
<1>1. /\ Was(proc, reg[e].pid, e, "daemon") /\ Was(proc, call[e].mem.pid, e, "daemon")
      /\ \A p \in nbd[e] : p \in Pids /\ Was(proc, p, e, "daemon")
  BY DataOfType DEF TypeInv, CallOK, Names, DataOK
<1>2. dying' \subseteq Pids /\ NoPid \notin Pids
  BY DataOfType, EntryTypes DEF TypeInv, TypeOK
<1> QED
  BY <1>1, <1>2 DEF ServedAt, Served, Spares

LEMMA HeldShrinks ==
  ASSUME UNCHANGED mode, zvol' \subseteq zvol, leak \subseteq leak'
  PROVE  Held' \subseteq Held
  BY DEF Held

\* A step of the call on d.
LEMMA ServedClose ==
  ASSUME TypeInv, TypeInv', ServedInv, UNCHANGED mode, zvol' \subseteq zvol, leak \subseteq leak',
         NEW d \in Devices, NEW c, call' = [call EXCEPT ![d] = c],
         \A e \in Devices \ {d} : /\ users'[e] = users[e] /\ nbd'[e] = nbd[e]
                                  /\ reg'[e] = reg[e] \/ reg'[e] = None,
         \A e \in zvol \ {d} : Spares(e),
         mode # "shared" /\ d \in Held'
           => Served(reg'[d], c, nbd'[d], dying', proc', users'[d]),
         c.pc = "reap" => c.look \notin zvol'
  PROVE  ServedInv'
<1>1. call'[d] = c /\ \A e \in Devices \ {d} : call'[e] = call[e]
  BY DEF TypeInv
<1>2. \A e \in Devices : call'[e].pc = "reap" => call'[e].look \notin zvol'
  BY <1>1 DEF ServedInv
<1>3. ASSUME mode # "shared", NEW e \in Held', e # d PROVE ServedAt(e)'
  <2>0. e \in Held /\ e \in zvol
    BY <1>3, HeldShrinks DEF Held
  <2>1. e \in Devices /\ ServedAt(e) /\ Spares(e)
    BY <1>3, <2>0, DataOfType DEF ServedInv, DataOK
  <2>2. reg'[e].pid \in {reg[e].pid, NoPid}
    BY <1>3, <2>1, EntryTypes
  <2>3. Served(reg'[e], call[e], nbd[e], dying', proc', users[e])
    BY <2>1, <2>2, ServedKeep
  <2> QED
    BY <1>1, <1>3, <2>1, <2>3 DEF ServedAt
<1>4. ASSUME mode # "shared", d \in Held' PROVE ServedAt(d)'
  BY <1>1, <1>4 DEF ServedAt
<1> QED
  BY <1>2, <1>3, <1>4 DEF ServedInv

LEMMA ServedInit == Init => ServedInv
<1> SUFFICES ASSUME Init PROVE ServedInv
  OBVIOUS
<1>1. \A d \in Devices : call[d].pc = "idle" /\ call[d].mem.pid = NoPid /\ reg[d].pid = NoPid
  BY EntryTypes DEF Init, NoCall
<1> QED
  BY <1>1 DEF Init, ServedInv, ServedAt, Served, Held

LEMMA ServedStep == TypeInv /\ ServedInv /\ [Next]_vars => ServedInv'
<1> SUFFICES ASSUME TypeInv, ServedInv, [Next]_vars PROVE ServedInv'
  OBVIOUS
<1>0. /\ TypeInv' /\ DataOK
      /\ \A d \in Devices : CallOK(call[d], d, users[d], proc)
      /\ call \in [Devices -> CallType]
      /\ \A d \in Held : mode # "shared" => ServedAt(d)
      /\ zvol \subseteq Devices /\ zvol' \subseteq Devices
      /\ Held \subseteq zvol /\ Held' \subseteq zvol'
      /\ UNCHANGED mode /\ zvol' \subseteq zvol /\ leak \subseteq leak' => Held' \subseteq Held
  BY TypeStep, DataOfType, HeldShrinks DEF ServedInv, TypeInv, TypeOK, DataOK, Held
<1>1. /\ NoCall.look = "none" /\ NoCall.mem = None /\ NoCall.pc = "idle"
      /\ None.pid = NoPid /\ NoPid \notin dying /\ NoPid \notin dying'
  BY <1>0, EntryTypes, DataOfType DEF NoCall, DataOK, TypeInv, TypeOK
<1>2. UNCHANGED procs => \A e : Spares(e)
  BY SparesSame
\* A step that starts or stops nothing, hands nothing out and goes no further
\* than an entry without a pid.
<1>3. ASSUME NEW d \in Devices, NEW c, call' = [call EXCEPT ![d] = c],
             UNCHANGED <<mode, procs, nbd, zvol>>, leak \subseteq leak',
             \A e \in Devices \ {d} : /\ users'[e] = users[e]
                                      /\ reg'[e] = reg[e] \/ reg'[e] = None,
             d \notin Held' \/ mode = "shared" \/ users'[d] <= 1,
             reg'[d].pid \in {NoPid, reg[d].pid},
             d \notin Held' \/ mode = "shared" \/ c.mem.pid \notin dying,
             call[d].pc # "remove" \/ reg'[d].pid = NoPid, c.pc # "remove",
             c.pc = "reap" => c.look \notin zvol
      PROVE  ServedInv'
  <2>1. mode # "shared" /\ d \in Held'
           => Served(reg'[d], c, nbd'[d], dying', proc', users'[d])
    BY <1>0, <1>1, <1>3 DEF ServedAt, Served, procs
  <2> QED
    BY <1>0, <1>2, <1>3, <2>1, ServedClose
<1>4. ASSUME NEW d \in Devices, mode # "shared", d \in Held PROVE
        users[d] <= 1 /\ call[d].mem.pid \notin dying
  BY <1>0, <1>4 DEF ServedAt, Served
<1>5. ASSUME NEW d \in Devices, NEW s, Goto(d, s) PROVE
        LET c == [call[d] EXCEPT !.pc = s] IN
        call' = [call EXCEPT ![d] = c] /\ c.pc = s /\ c.mem = call[d].mem /\ c.look = call[d].look
  BY <1>0, <1>5 DEF Goto, CallType
\* The call moves on.
<1>6. ASSUME NEW d \in Devices, NEW s, s \notin {"remove", "reap"}, Goto(d, s), call[d].pc # "remove",
             UNCHANGED <<mode, procs, nbd, zvol, users>>, leak \subseteq leak',
             \A e \in Devices \ {d} : reg'[e] = reg[e] \/ reg'[e] = None,
             reg'[d].pid \in {NoPid, reg[d].pid}
      PROVE  ServedInv'
  <2> DEFINE c == [call[d] EXCEPT !.pc = s]
  <2>1. call' = [call EXCEPT ![d] = c] /\ c.pc = s /\ c.mem = call[d].mem
    BY <1>5, <1>6
  <2> HIDE DEF c
  <2>2. d \notin Held' \/ mode = "shared" \/ (c.mem.pid \notin dying /\ users'[d] <= 1)
    BY <1>0, <1>4, <1>6, <2>1
  <2>3. mode # "shared" /\ d \in Held'
           => Served(reg'[d], c, nbd'[d], dying', proc', users'[d])
    BY <1>0, <1>1, <1>6, <2>1, <2>2 DEF ServedAt, Served, procs
  <2> QED
    BY <1>0, <1>2, <1>6, <2>1, <2>3, ServedClose
\* The call returns, after a reply that hands out p or none.
<1>7. ASSUME NEW d \in Devices, call' = [call EXCEPT ![d] = NoCall], call[d].pc # "remove",
             UNCHANGED <<mode, procs, zvol>>, leak \subseteq leak',
             \A e \in Devices \ {d} : users'[e] = users[e] /\ nbd'[e] = nbd[e] /\ reg'[e] = reg[e],
             d \notin Held' \/ mode = "shared" \/
                /\ users'[d] <= 1 /\ reg'[d].pid \notin dying
                /\ \A p \in nbd'[d] : p \in nbd[d] \/ (p \notin dying /\ proc[p] # Gone)
      PROVE  ServedInv'
  <2>1. mode # "shared" /\ d \in Held'
           => Served(reg'[d], NoCall, nbd'[d], dying', proc', users'[d])
    BY <1>0, <1>1, <1>7 DEF ServedAt, Served, procs
  <2> QED
    BY <1>0, <1>1, <1>2, <1>7, <2>1, ServedClose
<1>8. ASSUME NEW d \in Devices, call[d].pc # "remove", Fails(d), World, UNCHANGED <<reg, procs>>
      PROVE  ServedInv'
  <2>1. d \notin Held \/ mode = "shared" \/ (users[d] <= 1 /\ reg[d].pid \notin dying)
    BY <1>0, <1>8 DEF ServedAt, Served
  <2> QED
    BY <1>0, <1>7, <1>8, <2>1 DEF Fails, Returns, World
<1>9. ASSUME NEW d \in Devices, NEW p, Hands(d, p) PROVE
        /\ call' = [call EXCEPT ![d] = NoCall] /\ UNCHANGED users
        /\ \A e \in Devices \ {d} : nbd'[e] = nbd[e]
        /\ \A q \in nbd'[d] : q \in nbd[d] \/ (q = p /\ proc[q] # Gone)
  BY <1>0, <1>9 DEF Hands, Returns, Alive, DataOK
<1>10. ASSUME NEW d \in Devices, call[d].pc # "remove", Hands(d, reg[d].pid), World, UNCHANGED <<reg, procs>>
       PROVE  ServedInv'
  <2>1. d \notin Held \/ mode = "shared" \/ (users[d] <= 1 /\ reg[d].pid \notin dying)
    BY <1>0, <1>10 DEF ServedAt, Served
  <2> QED
    BY <1>0, <1>7, <1>9, <1>10, <2>1 DEF World
\* A daemon found dead is cleared away with its proxy.
<1>11. ASSUME NEW d \in Devices, NEW s \in {"probe_clear", "clear"}, Goto(d, s), call[d].pc \in {"probe", "gc"},
              Registered(reg[d]), ~Alive(reg[d].pid), Quit(reg[d]), World, UNCHANGED <<reg, users, nbd>>
       PROVE  ServedInv'
  <2> DEFINE c == [call[d] EXCEPT !.pc = s]
  <2>1. call' = [call EXCEPT ![d] = c] /\ c.pc = s /\ c.mem = call[d].mem
    BY <1>5, <1>11
  <2> HIDE DEF c
  <2>2. reg[d] \in Entries /\ Names(proc, reg[d], d)
    BY <1>0 DEF TypeInv, DataOK
  <2>3. reg[d].pid \in Pids /\ proc[reg[d].pid] = Gone
    BY <1>11, <2>2, EntryFields, EntryTypes DEF Registered, Alive
  <2>4. dying' \subseteq dying
    BY <1>11, <2>2, <2>3, QuitFacts
  <2>5. \A p \in nbd[d] : proc[p] # Gone => proc'[p] # Gone
    <3> SUFFICES ASSUME NEW p \in nbd[d], proc[p] # Gone PROVE proc'[p] # Gone
      OBVIOUS
    <3>1. p \in Pids /\ proc[p] = [dev |-> d, kind |-> "daemon"]
      BY <1>0 DEF TypeInv, DataOK, Was
    <3>2. p # reg[d].pid /\ p # reg[d].scm
      BY <2>2, <2>3, <3>1 DEF Names, Was
    <3> QED
      BY <1>11, <2>2, <3>1, <3>2, QuitFacts
  <2>6. mode # "shared" /\ d \in Held'
           => Served(reg'[d], c, nbd'[d], dying', proc', users'[d])
    BY <1>0, <1>11, <2>1, <2>4, <2>5 DEF ServedAt, Served, World
  <2>7. \A e \in zvol \ {d} : Spares(e)
    BY <1>0, <1>11, <2>2, SparesQuit
  <2> QED
    BY <1>0, <1>11, <2>1, <2>6, <2>7, ServedClose DEF World
<1>12. ASSUME NEW d \in Devices, NEW op \in {"attach", "import"}, Begin(d, op) PROVE ServedInv'
  <2> DEFINE c == [NoCall EXCEPT !.op = op, !.pc = IF op = "import" THEN "probe" ELSE "list"]
  <2>1. call' = [call EXCEPT ![d] = c] /\ call[d] = NoCall
    BY <1>12 DEF Begin, MayStart
  <2>2. c.mem = None /\ c.pc \in {"probe", "list"}
    BY DEF NoCall
  <2>3. /\ \A e \in Devices \ {d} : users'[e] = users[e]
        /\ d \notin Held \/ mode = "shared" \/ users'[d] <= 1
    BY <1>0, <1>4, <1>12 DEF Begin, DataOK
  <2> HIDE DEF c
  <2>4. mode # "shared" /\ d \in Held'
           => Served(reg'[d], c, nbd'[d], dying', proc', users'[d])
    BY <1>0, <1>1, <1>12, <2>1, <2>2, <2>3 DEF Begin, World, ServedAt, Served, procs
  <2> QED
    BY <1>0, <1>2, <1>12, <2>1, <2>2, <2>3, <2>4, ServedClose DEF Begin, World
<1>13. ASSUME NEW d \in Devices, BeginDetach(d) PROVE ServedInv'
  <2> DEFINE c == [NoCall EXCEPT !.op = "detach", !.pc = "detach"]
  <2>1. call' = [call EXCEPT ![d] = c] /\ call[d] = NoCall
    BY <1>13 DEF BeginDetach, MayStart
  <2>2. c.mem = None /\ c.pc = "detach"
    BY DEF NoCall
  <2> HIDE DEF c
  <2>3. mode # "shared" /\ d \in Held'
           => Served(reg'[d], c, nbd'[d], dying', proc', users'[d])
    BY <1>0, <1>1, <1>13, <2>1, <2>2 DEF BeginDetach, World, ServedAt, Served, procs
  <2> QED
    BY <1>0, <1>2, <1>13, <2>1, <2>2, <2>3, ServedClose DEF BeginDetach, World
<1>14. ASSUME NEW d \in Devices, Probe(d) PROVE ServedInv'
  <2>0. call[d].pc = "probe" /\ World /\ UNCHANGED reg
    BY <1>14 DEF Probe, At
  <2>1. CASE Fails(d) /\ UNCHANGED procs
    BY <1>8, <2>0, <2>1
  <2>2. CASE Goto(d, "list") /\ UNCHANGED <<procs, users, nbd>>
    BY <1>6, <2>0, <2>2 DEF World
  <2>3. CASE Hands(d, reg[d].pid) /\ UNCHANGED procs
    BY <1>10, <2>0, <2>3
  <2>4. CASE /\ Registered(reg[d]) /\ ~Alive(reg[d].pid)
             /\ Quit(reg[d]) /\ Goto(d, "probe_clear") /\ UNCHANGED <<users, nbd>>
    BY <1>11, <2>0, <2>4
  <2> QED
    BY <1>14, <2>1, <2>2, <2>3, <2>4 DEF Probe
<1>15. ASSUME NEW d \in Devices, ProbeClear(d) \/ Clear(d) \/ SaveMkdir(d) PROVE ServedInv'
  <2>1. /\ \A e \in Devices \ {d} : reg'[e] = reg[e]
        /\ reg'[d].pid \in {NoPid, reg[d].pid}
    BY <1>0, <1>15, EntryTypes DEF ProbeClear, Clear, SaveMkdir, RemoveMetadata, DataOK
  <2>2. CASE ProbeClear(d)
    BY <1>6, <2>1, <2>2 DEF ProbeClear, World, At, procs
  <2>3. CASE Clear(d)
    BY <1>6, <2>1, <2>3 DEF Clear, World, At, procs
  <2>4. CASE SaveMkdir(d)
    BY <1>6, <2>1, <2>4 DEF SaveMkdir, World, At, procs
  <2> QED
    BY <1>15, <2>2, <2>3, <2>4
<1>16. ASSUME NEW d \in Devices, GcList(d) PROVE ServedInv'
  <2> DEFINE c == [call[d] EXCEPT !.pc = "gc", !.todo = {e \in Devices \ {d} : reg[e] # None}]
  <2>1. call' = [call EXCEPT ![d] = c]
    BY <1>0, <1>16 DEF GcList
  <2>2. c.mem = call[d].mem /\ c.pc = "gc" /\ call[d].pc = "list"
    BY <1>0, <1>16 DEF GcList, At, CallType
  <2> HIDE DEF c
  <2> QED
    BY <1>0, <1>3, <1>4, <1>16, <2>1, <2>2 DEF GcList, World, procs
<1>17. ASSUME NEW d \in Devices, GcRead(d) PROVE ServedInv'
  <2>1. PICK e \in call[d].todo :
          LET v == Verdict(e) IN
          call' = [call EXCEPT
            ![d].todo = @ \ {e},
            ![d].look = IF v = "leave" THEN "none" ELSE e,
            ![d].seen = IF v = "reap" THEN reg[e] ELSE None,
            ![d].pc = IF v = "leave" THEN "gc" ELSE v]
    BY <1>17 DEF GcRead
  <2> DEFINE c == [call[d] EXCEPT !.todo = @ \ {e},
                     !.look = IF Verdict(e) = "leave" THEN "none" ELSE e,
                     !.seen = IF Verdict(e) = "reap" THEN reg[e] ELSE None,
                     !.pc = IF Verdict(e) = "leave" THEN "gc" ELSE Verdict(e)]
  <2>2. Verdict(e) \in {"reap", "drop", "rmdir", "leave"} /\ (Verdict(e) = "reap" => e \notin zvol)
    BY DEF Verdict, Reapable
  <2>3. call' = [call EXCEPT ![d] = c]
    BY <1>0, <2>1
  <2>4. c.mem = call[d].mem /\ c.pc \in Gc /\ (c.pc = "reap" => c.look \notin zvol)
    BY <1>0, <2>2 DEF CallType, Gc
  <2> HIDE DEF c
  <2> QED
    BY <1>0, <1>3, <1>4, <1>17, <2>3, <2>4 DEF GcRead, At, World, procs, Gc
<1>18. ASSUME NEW d \in Devices, GcReap(d) PROVE ServedInv'
  <2> DEFINE c == [call[d] EXCEPT !.pc = "drop"]
  <2>0. call[d].pc = "reap" /\ call[d].look \notin zvol /\ World /\ UNCHANGED <<reg, users, nbd>>
    BY <1>18 DEF GcReap, At, ServedInv
  <2>1. call' = [call EXCEPT ![d] = c] /\ c.pc = "drop" /\ c.mem = call[d].mem
    BY <1>5, <1>18 DEF GcReap
  <2> HIDE DEF c
  <2>2. Quit(call[d].seen) /\ call[d].seen \in Entries /\ Names(proc, call[d].seen, call[d].look)
    BY <1>0, <1>18, <2>0 DEF GcReap, CallOK, CallType
  <2>3. \A e \in zvol : Spares(e)
    BY <1>0, <2>0, <2>2, SparesQuit
  <2>4. mode # "shared" /\ d \in Held'
           => Served(reg'[d], c, nbd'[d], dying', proc', users'[d])
    <3> SUFFICES ASSUME mode # "shared", d \in Held
                 PROVE  Served(reg[d], c, nbd[d], dying', proc', users[d])
      BY <1>0, <2>0 DEF World
    <3>1. Served(reg[d], call[d], nbd[d], dying', proc', users[d])
      BY <1>0, <2>3, ServedKeep
    <3> QED
      BY <2>0, <2>1, <3>1 DEF Served
  <2> QED
    BY <1>0, <2>0, <2>1, <2>3, <2>4, ServedClose DEF World
<1>19. ASSUME NEW d \in Devices, GcDrop(d) \/ GcRmdir(d) PROVE ServedInv'
  <2> DEFINE c == [call[d] EXCEPT !.pc = "gc", !.look = "none", !.seen = None]
  <2>1. call' = [call EXCEPT ![d] = c]
    BY <1>0, <1>19 DEF GcDrop, GcRmdir, Seen
  <2>2. c.mem = call[d].mem /\ c.pc = "gc" /\ call[d].pc \in {"drop", "rmdir"}
    BY <1>0, <1>19 DEF GcDrop, GcRmdir, At, CallType
  <2> HIDE DEF c
  <2>3. /\ \A e \in Devices : reg'[e] = reg[e] \/ reg'[e] = None
        /\ leak \subseteq leak' /\ UNCHANGED <<mode, procs, nbd, zvol, users>>
    BY <1>0, <1>19 DEF GcDrop, GcRmdir, RemoveMetadata, World, DataOK, procs
  <2>4. reg'[d].pid \in {NoPid, reg[d].pid}
    BY <1>1, <2>3
  <2> QED
    BY <1>0, <1>3, <1>4, <2>1, <2>2, <2>3, <2>4
<1>20. ASSUME NEW d \in Devices, Load(d) PROVE ServedInv'
  <2>0. call[d].pc = "gc" /\ World /\ UNCHANGED reg
    BY <1>20 DEF Load, At
  <2>1. CASE Fails(d) /\ UNCHANGED procs
    BY <1>8, <2>0, <2>1
  <2>2. CASE Goto(d, "spawn") /\ UNCHANGED <<procs, users, nbd>>
    BY <1>6, <2>0, <2>2 DEF World
  <2>3. CASE Hands(d, reg[d].pid) /\ UNCHANGED procs
    BY <1>10, <2>0, <2>3
  <2>4. CASE call' = [call EXCEPT ![d].pc = "proxy", ![d].mem = reg[d]] /\ UNCHANGED <<procs, users, nbd>>
    <3> DEFINE c == [call[d] EXCEPT !.pc = "proxy", !.mem = reg[d]]
    <3>1. call' = [call EXCEPT ![d] = c]
      BY <1>0, <2>4
    <3>2. c.mem = reg[d] /\ c.pc = "proxy"
      BY <1>0 DEF CallType
    <3> HIDE DEF c
    <3>3. d \notin Held \/ mode = "shared" \/ reg[d].pid \notin dying
      BY <1>0, <2>0 DEF ServedAt, Served
    <3> QED
      BY <1>0, <1>3, <1>4, <2>0, <2>4, <3>1, <3>2, <3>3 DEF World
  <2>5. CASE /\ Registered(reg[d]) /\ ~Alive(reg[d].pid)
             /\ Quit(reg[d]) /\ Goto(d, "clear") /\ UNCHANGED <<users, nbd>>
    BY <1>11, <2>0, <2>5
  <2> QED
    BY <1>20, <2>1, <2>2, <2>3, <2>4, <2>5 DEF Load
\* A process is started for the call.
<1>21. ASSUME NEW d \in Devices, NEW p, NEW kind \in Kinds, Start(p, d, kind),
              NEW c, call' = [call EXCEPT ![d] = c], c.pc = "mkdir", call[d].pc # "remove",
              c.mem.pid = p \/ c.mem.pid = call[d].mem.pid,
              World, UNCHANGED <<reg, users, nbd>>
       PROVE  ServedInv'
  <2>1. p \notin dying /\ UNCHANGED dying
    BY <1>21, StartFacts
  <2>2. \A e \in Devices : Spares(e)
    BY <1>21, SparesStart
  <2>3. mode # "shared" /\ d \in Held'
           => Served(reg'[d], c, nbd'[d], dying', proc', users'[d])
    <3> SUFFICES ASSUME mode # "shared", d \in Held
                 PROVE  Served(reg[d], c, nbd[d], dying', proc', users[d])
      BY <1>0, <1>21 DEF World
    <3>1. Served(reg[d], call[d], nbd[d], dying', proc', users[d])
      BY <1>0, <2>2, ServedKeep
    <3> QED
      BY <1>21, <2>1, <3>1 DEF Served
  <2> QED
    BY <1>0, <1>21, <2>2, <2>3, ServedClose DEF World
<1>22. ASSUME NEW d \in Devices, Spawn(d) PROVE ServedInv'
  <2>1. PICK p \in Pids :
          /\ Start(p, d, "daemon")
          /\ call' = [call EXCEPT ![d].pc = "mkdir",
                                  ![d].mem = [None EXCEPT !.st = "saved", !.pid = p]]
    BY <1>22 DEF Spawn
  <2> DEFINE m == [None EXCEPT !.st = "saved", !.pid = p]
             c == [call[d] EXCEPT !.pc = "mkdir", !.mem = m]
  <2>2. m.pid = p
    BY DEF None
  <2>3. call' = [call EXCEPT ![d] = c]
    BY <1>0, <2>1
  <2>4. c.pc = "mkdir" /\ c.mem = m
    BY <1>0 DEF CallType
  <2> HIDE DEF c, m
  <2> QED
    <3>1. call[d].pc = "spawn" /\ World /\ UNCHANGED <<reg, users, nbd>>
      BY <1>22 DEF Spawn, At
    <3>2. Start(p, d, "daemon") /\ "daemon" \in Kinds /\ c.mem.pid = p
      BY <2>1, <2>2, <2>4 DEF Kinds
    <3> QED
      BY <1>21, <2>3, <2>4, <3>1, <3>2
<1>23. ASSUME NEW d \in Devices, ForkProxy(d) PROVE ServedInv'
  <2>1. PICK p \in Pids :
          /\ Start(p, d, "proxy")
          /\ call' = [call EXCEPT ![d].pc = "mkdir", ![d].mem.scm = p]
    BY <1>23 DEF ForkProxy
  <2> DEFINE m == [call[d].mem EXCEPT !.scm = p]
             c == [call[d] EXCEPT !.pc = "mkdir", !.mem = m]
  <2>2. call[d].mem \in Saved
    BY <1>0, <1>23 DEF ForkProxy, At, CallOK, Saving
  <2>3. m.pid = call[d].mem.pid
    BY <2>2 DEF Saved
  <2>4. call' = [call EXCEPT ![d] = c]
    <3>1. call \in [Devices -> CallType] /\ call[d] \in CallType
      BY <1>0
    <3>2. call' = [call EXCEPT ![d].pc = "mkdir", ![d].mem.scm = p]
      BY <2>1
    <3> QED
      BY <3>1, <3>2, Zenon
  <2>5. c.pc = "mkdir" /\ c.mem = m
    BY <1>0 DEF CallType
  <2> HIDE DEF c, m
  <2> QED
    BY <1>21, <1>23, <2>1, <2>3, <2>4, <2>5 DEF ForkProxy, At, Kinds
<1>24. ASSUME NEW d \in Devices, SpawnFails(d) \/ ForkFails(d) PROVE ServedInv'
  BY <1>8, <1>24 DEF SpawnFails, ForkFails, At
<1>25. ASSUME NEW d \in Devices, SaveOpen(d) PROVE ServedInv'
  <2>0. call[d].pc = "open" /\ UNCHANGED <<mode, procs, zvol>>
    BY <1>25 DEF SaveOpen, At
  <2>1. CASE reg[d] = None
    <3>1. /\ call' = [call EXCEPT ![d] = NoCall] /\ UNCHANGED <<users, nbd, reg>> /\ leak \subseteq leak'
      BY <1>25, <2>1 DEF SaveOpen, Fails, Returns
    <3>2. d \notin Held' \/ mode = "shared" \/ (users[d] <= 1 /\ reg[d].pid \notin dying)
      BY <1>0, <1>1, <1>4, <2>0, <2>1, <3>1
    <3> QED
      BY <1>7, <2>0, <3>1, <3>2 DEF procs
  <2>2. CASE reg[d] # None
    <3>1. /\ reg' = [reg EXCEPT ![d] = Torn] /\ Goto(d, "write") /\ UNCHANGED <<leak, users, nbd>>
      BY <1>25, <2>2 DEF SaveOpen
    <3>2. reg'[d].pid = NoPid /\ \A e \in Devices \ {d} : reg'[e] = reg[e]
      BY <1>0, <3>1, EntryTypes DEF DataOK
    <3> QED
      BY <1>6, <2>0, <3>1, <3>2
  <2> QED
    BY <2>1, <2>2
<1>26. ASSUME NEW d \in Devices, SaveWrite(d) PROVE ServedInv'
  <2>0. call[d].pc = "write" /\ UNCHANGED <<mode, procs, leak, zvol>>
    BY <1>26 DEF SaveWrite, At, World
  <2>1. /\ \A e \in Devices \ {d} : reg'[e] = reg[e]
        /\ reg'[d] \in {reg[d], call[d].mem}
    BY <1>0, <1>26 DEF SaveWrite, DataOK
  <2>2. d \notin Held \/ mode = "shared" \/
           (users[d] <= 1 /\ reg'[d].pid \notin dying /\ call[d].mem.pid \notin dying)
    BY <1>0, <2>0, <2>1 DEF ServedAt, Served
  <2>3. CASE Hands(d, call[d].mem.pid)
    BY <1>0, <1>7, <1>9, <2>0, <2>1, <2>2, <2>3
  <2>4. CASE Goto(d, "proxy") /\ UNCHANGED <<users, nbd>>
    <3> DEFINE c == [call[d] EXCEPT !.pc = "proxy"]
    <3>1. call' = [call EXCEPT ![d] = c] /\ c.pc = "proxy" /\ c.mem = call[d].mem
      BY <1>5, <2>4
    <3> HIDE DEF c
    <3>2. mode # "shared" /\ d \in Held'
             => Served(reg'[d], c, nbd'[d], dying', proc', users'[d])
      BY <1>0, <2>0, <2>2, <2>4, <3>1 DEF ServedAt, Served, procs
    <3> QED
      BY <1>0, <1>2, <2>0, <2>1, <2>4, <3>1, <3>2, ServedClose
  <2> QED
    BY <1>26, <2>3, <2>4 DEF SaveWrite
<1>27. ASSUME NEW d \in Devices, DetachQuit(d) PROVE ServedInv'
  <2>0. call[d].pc = "detach" /\ World /\ UNCHANGED reg /\ users[d] > 0
    BY <1>0, <1>27 DEF DetachQuit, At, CallOK
  <2>1. CASE Fails(d) /\ UNCHANGED procs
    BY <1>8, <2>0, <2>1
  <2>2. CASE Detached(d) /\ UNCHANGED procs
    <3>1. /\ \A e \in Devices \ {d} : users'[e] = users[e] /\ nbd'[e] = nbd[e]
          /\ users'[d] <= users[d] /\ nbd'[d] \subseteq nbd[d]
          /\ call' = [call EXCEPT ![d] = NoCall]
      BY <1>0, <2>2 DEF Detached, DataOK
    <3>2. users[d] \in Nat /\ users'[d] \in Nat
      BY <1>0, RegistryAssumption DEF DataOK, TypeInv, TypeOK
    <3>3. d \notin Held \/ mode = "shared" \/ (users'[d] <= 1 /\ reg[d].pid \notin dying)
      BY <1>0, <2>0, <3>1, <3>2 DEF ServedAt, Served
    <3> QED
      BY <1>0, <1>7, <2>0, <2>2, <3>1, <3>3 DEF World
  <2>3. CASE /\ Quit(reg[d]) /\ Goto(d, "remove") /\ UNCHANGED users
             /\ nbd' = [nbd EXCEPT ![d] = IF users[d] = 1 THEN {} ELSE @]
    <3> DEFINE c == [call[d] EXCEPT !.pc = "remove"]
    <3>1. call' = [call EXCEPT ![d] = c] /\ c.pc = "remove" /\ c.mem = call[d].mem
      BY <1>5, <2>3
    <3> HIDE DEF c
    <3>2. reg[d] \in Entries /\ Names(proc, reg[d], d) /\ call[d].mem = None
      BY <1>0, <2>0 DEF TypeInv, CallOK, Saving, DataOK
    <3>3. \A e \in zvol \ {d} : Spares(e)
      BY <1>0, <2>3, <3>2, SparesQuit
    <3>4. users[d] \in Nat
      BY <1>0, RegistryAssumption DEF DataOK
    <3>5. mode # "shared" /\ d \in Held'
             => Served(reg'[d], c, nbd'[d], dying', proc', users'[d])
      <4> SUFFICES ASSUME mode # "shared", d \in Held
                   PROVE  Served(reg[d], c, nbd'[d], dying', proc', users[d])
        BY <2>0, <2>3 DEF World, Held
      <4>1. users[d] = 1 /\ nbd'[d] = {}
        BY <1>0, <1>4, <2>0, <2>3, <3>4 DEF DataOK
      <4> QED
        BY <1>1, <3>1, <3>2, <4>1 DEF Served
    <3> QED
      BY <1>0, <2>0, <2>3, <3>1, <3>3, <3>5, ServedClose DEF World, DataOK
  <2> QED
    BY <1>27, <2>1, <2>2, <2>3 DEF DetachQuit
<1>28. ASSUME NEW d \in Devices, DetachRemove(d) PROVE ServedInv'
  <2>0. /\ call[d].pc = "remove" /\ users[d] > 0 /\ UNCHANGED <<mode, procs, zvol, leak>>
        /\ reg'[d] = None /\ \A e \in Devices \ {d} : reg'[e] = reg[e]
    BY <1>0, <1>28 DEF DetachRemove, At, CallOK, World, RemoveMetadata, DataOK
  <2>1. /\ \A e \in Devices \ {d} : users'[e] = users[e] /\ nbd'[e] = nbd[e]
        /\ users'[d] = users[d] - 1 /\ nbd'[d] \subseteq nbd[d]
        /\ call' = [call EXCEPT ![d] = NoCall]
    BY <1>0, <1>28 DEF DetachRemove, Detached, DataOK
  <2>2. users[d] \in Nat
    BY <1>0, RegistryAssumption DEF DataOK
  <2>3. mode # "shared" /\ d \in Held'
           => Served(reg'[d], NoCall, nbd'[d], dying', proc', users'[d])
    BY <1>0, <1>1, <2>0, <2>1, <2>2 DEF ServedAt, Served, procs
  <2> QED
    BY <1>0, <1>1, <1>2, <2>0, <2>1, <2>3, ServedClose
<1>29. ASSUME NEW d \in Devices, Crash(d) PROVE ServedInv'
  <2>1. /\ d \in leak' /\ leak \subseteq leak' /\ call' = [call EXCEPT ![d] = NoCall]
        /\ UNCHANGED <<mode, zvol, reg, procs, users, nbd>>
    BY <1>29 DEF Crash
  <2>2. d \notin Held'
    BY <1>29, <2>1 DEF Crash, Held
  <2> QED
    BY <1>0, <1>1, <1>2, <2>1, <2>2, ServedClose
<1>30. ASSUME NEW p \in Pids, Die(p) PROVE ServedInv'
  <2>1. /\ UNCHANGED <<mode, zvol, reg, call, users, leak>> /\ dying' = dying \ {p}
        /\ \A q \in Pids \ {p} : proc'[q] = proc[q]
        /\ \A d \in Devices : nbd'[d] = nbd[d] \ {p} /\ nbd[d] \subseteq Pids
    BY <1>0, <1>30 DEF Die, DataOK
  <2> QED
    BY <1>0, <2>1 DEF ServedInv, ServedAt, Served, Held
<1>31. ASSUME NEW d \in Devices, Destroy(d) \/ Lose(d) PROVE ServedInv'
  BY <1>31 DEF Destroy, Lose, ServedInv, ServedAt, Held, procs
<1>32. CASE UNCHANGED vars
  BY <1>32 DEF vars, ServedInv, ServedAt, Held, procs
<1> QED
  BY <1>12, <1>13, <1>14, <1>15, <1>16, <1>17, <1>18, <1>19, <1>20, <1>22, <1>23, <1>24, <1>25,
     <1>26, <1>27, <1>28, <1>29, <1>30, <1>31, <1>32 DEF Next, Step

\* No call takes the daemon away from the domain it was handed to, unless a call
\* was killed on the device: where calls overlap, not even the collection that
\* drops the entry of a daemon stops the daemon.
THEOREM UsersAreServed == Spec => []UsersServed
<1>1. TypeInv /\ ServedInv => UsersServed
  BY DEF ServedInv, ServedAt, Served, UsersServed, Held
<1>2. TypeInv /\ ServedInv /\ [Next]_vars => (TypeInv /\ ServedInv)'
  BY TypeStep, ServedStep
<1> QED
  BY TypeInit, ServedInit, <1>1, <1>2, PTL DEF Spec
=============================================================================
