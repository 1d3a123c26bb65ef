----------------------------- MODULE XeWrapper -----------------------------
(***************************************************************************)
(* One `xe vdi-copy` through the wrapper: between SRs of this host it runs *)
(* the Volume.copy of VdiCopy; to another host it sends the zvol itself and *)
(* has Volume.import_existing there register it; and when that comes to    *)
(* nothing it hands the command to the real xe, which makes a copy of its  *)
(* own.  The import is a process of the other host: it goes on when the    *)
(* connection of the wrapper is gone.                                      *)
(*                                                                         *)
(* Transfers end within the grace period of the other host's SR.ls.        *)
(***************************************************************************)
EXTENDS VdiCopy

VARIABLES
    route,     \* the fast path that applies: "same" host, "cross" host, "none"
    step,      \* control of the wrapper
    near,      \* the snapshot taken of the source: "none", on the "src", on its
               \* "heir" if the source was destroyed meanwhile
    far,       \* the zvol, its received snapshot and the row on the other host
    import,    \* control of Volume.import_existing
    slow,      \* the copy of the real xe exists
    shown,     \* the wrapper has printed the new uuid
    slipped    \* history: a failure was "reply"ed for what had been or was yet to
               \* be done, or a best-effort "cleanup" did nothing

xe     == <<route, step, near, far, import, slow, shown, slipped>>
xeVars == <<vars, xe>>

NoFar == [zvol |-> "none", snap |-> FALSE, row |-> FALSE]

XeInit ==
    /\ Init
    /\ route \in {"same", "cross", "none"} /\ step = "start"
    /\ near = "none" /\ far = NoFar /\ import = "none"
    /\ slow = FALSE /\ shown = FALSE /\ slipped = {}

At(s) == step = s
Rest == UNCHANGED <<vars, route, slow, shown>>
Slip(x) == slipped' = slipped \cup {x}

-----------------------------------------------------------------------------
(* The decision, and Volume.copy on this host.                             *)

Decide ==
    /\ At("start")
    /\ \/ route = "same"  /\ step' = "volume_copy"
       \/ route = "cross" /\ step' = "snapshot"
       \/ step' = "fallback"    \* the plugin or the metadata of an SR is not found
    /\ Rest /\ UNCHANGED <<near, far, import, slipped>>

\* The row is committed before the sizes for the reply are read.
CopyAnswered ==
    /\ At("volume_copy") /\ pc \in Ended
    /\ \/ pc = "done" /\ step' = "scan" /\ UNCHANGED slipped
       \/ pc = "done" /\ step' = "fallback" /\ Slip("reply")
       \/ pc # "done" /\ step' = "fallback" /\ UNCHANGED slipped
    /\ Rest /\ UNCHANGED <<near, far, import>>

-----------------------------------------------------------------------------
(* _invoke_cross_host_copy.  Nothing here takes a lock.                    *)

Snapshot ==
    /\ At("snapshot")
    /\ \/ near' = "src" /\ step' = "pipe"
       \/ near' = near /\ step' = "fallback"
    /\ Rest /\ UNCHANGED <<far, import, slipped>>

Pipe ==
    /\ At("pipe")
    /\ \/ near = "src" /\ far' = [far EXCEPT !.zvol = "partial"] /\ step' = "sending"
       \/ far' = far /\ step' = "undo_pipe"
    /\ Rest /\ UNCHANGED <<near, import, slipped>>

\* A receive that fails removes what it received; send may still fail when the
\* receive has succeeded.
PipeEnds ==
    /\ At("sending")
    /\ \/ far' = NoFar /\ step' = "undo_pipe"
       \/ far' = [far EXCEPT !.zvol = "there", !.snap = TRUE] /\ step' \in {"drop", "undo_pipe"}
    /\ Rest /\ UNCHANGED <<near, import, slipped>>

\* _cleanup_source_snap and _cleanup_dest_zvol ignore their failures.
CleanNear ==
    \/ near = "src" /\ near' = "none" /\ UNCHANGED slipped
    \/ near # "src" /\ near' = near /\ UNCHANGED slipped
    \/ near' = near /\ Slip("cleanup")

Drop ==
    /\ At("drop") /\ CleanNear /\ step' = "import"
    /\ Rest /\ UNCHANGED <<far, import>>

UndoFar ==
    /\ step \in {"undo_pipe", "undo_import"}
    /\ \/ far' = [far EXCEPT !.zvol = "none", !.snap = FALSE] /\ UNCHANGED slipped
       \/ far' = far /\ Slip("cleanup")
    /\ step' = IF At("undo_pipe") THEN "undo_near" ELSE "fallback"
    /\ Rest /\ UNCHANGED <<near, import>>

UndoNearForgotten ==    \* mutant of UndoNear
    /\ At("undo_near") /\ step' = "fallback"
    /\ Rest /\ UNCHANGED <<near, far, import, slipped>>

UndoNear ==
    /\ At("undo_near") /\ CleanNear /\ step' = "fallback"
    /\ Rest /\ UNCHANGED <<far, import>>

CallImport ==
    /\ At("import")
    /\ \/ import' = "exists" /\ step' = "wait"
       \/ import' = import /\ step' = "undo_import"
    /\ Rest /\ UNCHANGED <<near, far, slipped>>

\* Any exit code but 0 is a failure to the wrapper, also one that comes of the
\* connection, or of reading the size after the commit.
ImportAnswered ==
    /\ At("wait")
    /\ \/ import = "committed" /\ step' = "scan" /\ UNCHANGED slipped
       \/ import = "failed" /\ step' = "undo_import" /\ UNCHANGED slipped
       \/ import # "failed" /\ step' = "undo_import" /\ Slip("reply")
    /\ Rest /\ UNCHANGED <<near, far, import>>

\* Volume.destroy of the source, which moves the snapshot.
LoseSource ==
    /\ near = "src" /\ ~At("sending")
    /\ near' = "heir"
    /\ Rest /\ UNCHANGED <<step, far, import, slipped>>

-----------------------------------------------------------------------------
(* Volume.import_existing on the other host: the zvol is looked for before *)
(* the lock is taken, and its size read inside the transaction.            *)

Import ==
    /\ \/ /\ import = "exists"
          /\ import' = IF far.zvol = "there" THEN "locked" ELSE "failed"
          /\ UNCHANGED far
       \/ /\ import = "locked"
          /\ import' = IF far.zvol = "there" THEN "sized" ELSE "failed"
          /\ UNCHANGED far
       \/ import = "sized" /\ import' = "committed" /\ far' = [far EXCEPT !.row = TRUE]
       \/ import \in {"exists", "locked", "sized"} /\ import' = "failed" /\ UNCHANGED far
    /\ Rest /\ UNCHANGED <<step, near, slipped>>

-----------------------------------------------------------------------------
(* What main does with the outcome.                                        *)

Registered == IF route = "same" THEN row ELSE far.row

ScanFailsFallback ==   \* mutant of ScanFails
    step' = "fallback" /\ UNCHANGED far
ScanFailsUndo ==       \* mutant of ScanFails
    step' = "exit" /\ far' = [far EXCEPT !.zvol = "none", !.snap = FALSE]
ScanFails == step' = "exit" /\ UNCHANGED far

SrScan ==
    /\ At("scan")
    /\ ScanFails \/ (step' = "verify" /\ UNCHANGED far)
    /\ Rest /\ UNCHANGED <<near, import, slipped>>

Verify ==
    /\ At("verify") /\ step' = "exit"
    /\ shown' = Registered
    /\ UNCHANGED <<vars, route, near, far, import, slow, slipped>>

\* sparse_dd, which may fail as well.
Fallback ==
    /\ At("fallback") /\ step' = "exit"
    /\ slow' \in BOOLEAN
    /\ UNCHANGED <<vars, route, near, far, import, shown, slipped>>

Wrapper ==
    \/ Decide \/ CopyAnswered \/ Snapshot \/ Pipe \/ PipeEnds \/ Drop
    \/ UndoFar \/ UndoNear \/ CallImport \/ ImportAnswered
    \/ SrScan \/ Verify \/ Fallback

XeNext ==
    \/ Wrapper \/ LoseSource \/ Import
    \/ route = "same" /\ Next /\ (At("volume_copy") \/ pc' = pc) /\ UNCHANGED xe

XeSpec == XeInit /\ [][XeNext]_xeVars

\* As in VdiCopy: the SRs of this host are scanned for ever, and time passes.
XeFairSpec ==
    /\ XeSpec
    /\ \A s \in SRs : WF_xeVars(route = "same" /\ Ls(s) /\ UNCHANGED xe)
    /\ \A x \in Objects : WF_xeVars(route = "same" /\ Age(x) /\ UNCHANGED xe)

-----------------------------------------------------------------------------
(* Properties.                                                             *)

\* One vdi-copy leaves one copy: where the wrapper goes on to the real xe, no
\* copy of its own is registered, unless the failure it was told of was of the
\* reply (xe_wrapper.py:670-705).
OneCopy == "reply" \notin slipped => ~(Registered /\ slow)

\* A row on the other host has its zvol: the cleanup of the wrapper does not
\* reach a copy that is registered, with the same exception
\* (xe_wrapper.py:533-552, 725-742).
FarBacked == "reply" \notin slipped /\ far.row => far.zvol = "there"

\* When the cross-host path has failed, "neither host is left with leaked state"
\* (xe_wrapper.py:383-384), as far as the cleanups themselves succeeded and the
\* source was not destroyed meanwhile.
CrossTidy ==
    route = "cross" /\ At("fallback") /\ slipped = {} => near # "src" /\ far = NoFar
=============================================================================
