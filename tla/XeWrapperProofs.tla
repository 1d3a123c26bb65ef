--------------------------- MODULE XeWrapperProofs ---------------------------
(***************************************************************************)
(* Proofs about XeWrapper.  The wrapper does to the SRs of this host what  *)
(* Volume.copy does and nothing else, so that what VdiCopyProofs shows of  *)
(* the copy holds under the wrapper too.  OutcomeInv relates the control   *)
(* of the wrapper to that of import_existing on the other host.            *)
(***************************************************************************)
EXTENDS XeWrapper, VdiCopyProofs

Steps == {"start", "volume_copy", "snapshot", "pipe", "sending", "drop", "import", "wait",
          "undo_pipe", "undo_near", "undo_import", "scan", "verify", "fallback", "exit"}

XeType ==
    /\ route \in {"same", "cross", "none"} /\ step \in Steps
    /\ near \in {"none", "src", "heir"}
    /\ far \in [zvol : {"none", "partial", "there"}, snap : BOOLEAN, row : BOOLEAN]
    /\ import \in {"none", "exists", "locked", "sized", "committed", "failed"}
    /\ slow \in BOOLEAN /\ slipped \subseteq {"reply", "cleanup"}

Cross == {"snapshot", "pipe", "sending", "drop", "import", "wait",
          "undo_pipe", "undo_near", "undo_import"}

OutcomeInv ==
    /\ step \in Cross => route = "cross"
    /\ step = "volume_copy" => route = "same"
    /\ step = "start" => pc = "snapshot"
    /\ step \in {"start", "volume_copy", "snapshot"} => near = "none" /\ far = NoFar
    /\ slow => step = "exit"
    /\ far.row <=> import = "committed"
    /\ import # "none" => route = "cross" /\ step \in {"wait", "undo_import", "scan", "verify",
                                                       "fallback", "exit"}
    \* As long as the wrapper was told the truth, it goes on with a failed import only.
    /\ "reply" \notin slipped =>
         /\ step \in {"undo_import", "fallback"} \/ slow => import \in {"none", "failed"}
         /\ route = "same" /\ (step = "fallback" \/ slow) => pc # "done"
         /\ import \in {"locked", "sized", "committed"} => far.zvol = "there"
    /\ slipped = {} =>
         /\ step \in {"import", "wait", "undo_import", "fallback"} => near # "src"
         /\ step \in {"undo_near", "fallback"} => far = NoFar

XeInv == TypeInv /\ XeType /\ OutcomeInv

-----------------------------------------------------------------------------

LEMMA CopyUnderWrapper == XeNext => [Next]_vars
<1> SUFFICES ASSUME XeNext PROVE [Next]_vars
  OBVIOUS
<1>1. CASE Wrapper
  BY <1>1 DEF Wrapper, Decide, CopyAnswered, Snapshot, Pipe, PipeEnds, Drop, UndoFar, UndoNear,
     CallImport, ImportAnswered, SrScan, Verify, Fallback, Rest
<1>2. CASE LoseSource
  BY <1>2 DEF LoseSource, Rest
<1>3. CASE Import
  BY <1>3 DEF Import, Rest
<1> QED
  BY <1>1, <1>2, <1>3 DEF XeNext

\* `xe vdi-copy` does to the SRs of this host what one Volume.copy does, and
\* nothing else.
THEOREM WrapperImplementsCopy == XeSpec => Spec
<1>1. XeInit => Init
  BY DEF XeInit
<1>2. [XeNext]_xeVars => [Next]_vars
  BY CopyUnderWrapper DEF xeVars
<1> QED
  BY <1>1, <1>2, PTL DEF XeSpec, Spec

LEMMA OutcomeInit == XeInit => XeInv
<1> SUFFICES ASSUME XeInit PROVE XeInv
  OBVIOUS
<1>1. TypeInv
  BY TypeInit DEF XeInit
<1>2. XeType /\ OutcomeInv
  BY DEF XeInit, Init, NoFar, XeType, Steps, OutcomeInv, Cross
<1> QED
  BY <1>1, <1>2 DEF XeInv

LEMMA OutcomeStep == XeInv /\ [XeNext]_xeVars => XeInv'
<1> SUFFICES ASSUME XeInv, [XeNext]_xeVars PROVE XeInv'
  OBVIOUS
<1>1. TypeInv'
  BY TypeStep, CopyUnderWrapper DEF XeInv, xeVars
<1> SUFFICES XeType' /\ OutcomeInv'
  BY <1>1 DEF XeInv
<1> USE DEF XeInv, XeType, Steps, OutcomeInv, Cross, NoFar, At, Rest, Slip, vars
<1>2. CASE Decide
  BY <1>2 DEF Decide
<1>3. CASE CopyAnswered
  BY <1>3 DEF CopyAnswered, Ended
<1>4. CASE Snapshot
  BY <1>4 DEF Snapshot
<1>5. CASE Pipe
  BY <1>5 DEF Pipe
<1>6. CASE PipeEnds
  <2>1. CASE far' = NoFar /\ step' = "undo_pipe"
    BY <1>6, <2>1 DEF PipeEnds
  <2>2. CASE far' = [far EXCEPT !.zvol = "there", !.snap = TRUE] /\ step' \in {"drop", "undo_pipe"}
    <3>1. /\ far' \in [zvol : {"none", "partial", "there"}, snap : BOOLEAN, row : BOOLEAN]
          /\ far'.zvol = "there" /\ far'.row = far.row
      BY <2>2
    <3> QED
      BY <1>6, <2>2, <3>1 DEF PipeEnds
  <2> QED
    BY <1>6, <2>1, <2>2 DEF PipeEnds
<1>7. CASE Drop
  BY <1>7 DEF Drop, CleanNear
<1>8. CASE UndoFar
  BY <1>8 DEF UndoFar
<1>9. CASE UndoNear
  BY <1>9 DEF UndoNear, CleanNear
<1>10. CASE CallImport
  BY <1>10 DEF CallImport
<1>11. CASE ImportAnswered
  BY <1>11 DEF ImportAnswered
<1>12. CASE SrScan
  BY <1>12 DEF SrScan, ScanFails
<1>13. CASE Verify
  BY <1>13 DEF Verify
<1>14. CASE Fallback
  BY <1>14 DEF Fallback
<1>15. CASE LoseSource
  BY <1>15 DEF LoseSource
<1>16. CASE Import
  BY <1>16 DEF Import
<1>17. CASE route = "same" /\ Next /\ (At("volume_copy") \/ pc' = pc) /\ UNCHANGED xe
  BY <1>17 DEF xe
<1>18. CASE UNCHANGED xeVars
  BY <1>18 DEF xeVars, xe
<1> QED
  BY <1>2, <1>3, <1>4, <1>5, <1>6, <1>7, <1>8, <1>9, <1>10, <1>11, <1>12, <1>13, <1>14,
     <1>15, <1>16, <1>17, <1>18 DEF XeNext, Wrapper

LEMMA OutcomeInvariant == XeSpec => []XeInv
  BY OutcomeInit, OutcomeStep, PTL DEF XeSpec

\* The wrapper never starts a second copy beside one that is registered, unless
\* it was told of a failure that was not one.
THEOREM NoSecondCopy == XeSpec => []OneCopy
<1>1. XeInv => OneCopy
  BY DEF XeInv, XeType, OutcomeInv, TypeInv, StageInv, OneCopy, Registered
<1> QED
  BY <1>1, OutcomeInvariant, PTL

\* The cleanup of the wrapper never takes the zvol of a VDI that is registered
\* on the other host, with the same exception.
THEOREM FarCopiesAreBacked == XeSpec => []FarBacked
<1>1. XeInv => FarBacked
  BY DEF XeInv, OutcomeInv, FarBacked
<1> QED
  BY <1>1, OutcomeInvariant, PTL

\* A cross-host copy that fails, and whose cleanups succeed, leaves nothing.
THEOREM CrossFailuresAreTidy == XeSpec => []CrossTidy
<1>1. XeInv => CrossTidy
  BY DEF XeInv, OutcomeInv, CrossTidy, At
<1> QED
  BY <1>1, OutcomeInvariant, PTL

\* Under the wrapper too a registered copy keeps its zvol, as long as no copy
\* outlasts the grace period.
THEOREM WrapperCopiesAreBacked == ASSUME ~LongCopies PROVE XeSpec => []CopyBacked
  BY WrapperImplementsCopy, CopiesAreBacked, PTL
=============================================================================
