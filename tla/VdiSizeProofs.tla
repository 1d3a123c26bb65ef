--------------------------- MODULE VdiSizeProofs ---------------------------
(***************************************************************************)
(* Theorems about VdiSize: type correctness for any calls that overlap;    *)
(* that sizes agree and never shrink as long as no resize overlaps another *)
(* resize, a stat or a clone; that the reservation follows as long as no   *)
(* two calls that move it overlap, and the custom key likewise.  Calls may *)
(* fail wherever they like.                                                *)
(***************************************************************************)
EXTENDS VdiSize, TLAPS

USE SizeAssumption DEF None, Sizes, Copies, Inherited, NoCall, Kinds, Pcs

-----------------------------------------------------------------------------
(* Types.                                                                  *)

\* The stages of each kind of call.
Stage == [idle   |-> {"idle"},
          resize |-> {"read", "ask", "recover", "check", "grow", "measure",
                      "update", "sync", "reserve", "commit"},
          stat   |-> {"read", "ask", "recover", "report"},
          clone  |-> {"read", "ask", "recover", "clone", "thick", "commit"},
          set    |-> {"property", "sync", "reserve", "commit"},
          unset  |-> {"property", "sync", "reserve", "commit"}]

CallShape(c) ==
    /\ c.pc \in Stage[c.kind]
    /\ c.kind = "resize" => c.arg \in Sizes
    /\ c.kind \in {"set", "unset"} => c.arg \in Copies
    /\ c.pc \in {"recover", "check", "report", "clone", "thick"} => c.known \in Sizes
    /\ c.pc \in {"update", "thick"} => c.got \in Sizes
    /\ c.kind = "clone" /\ c.pc = "commit" => c.known \in Sizes /\ c.got \in Sizes

TypeInv == TypeOK /\ \A p \in Callers : CallShape(call[p])

CallType == [kind : Kinds, pc : Pcs, arg : Nat, known : Sizes \cup {None},
             new : Sizes \cup {None}, got : Sizes \cup {0}, res : Nat]

\* TypeOK and the stages survive an action that only replaces call[p].
LEMMA CallStep ==
  ASSUME TypeInv, NEW p \in Callers, NEW c \in CallType, CallShape(c),
         call' = [call EXCEPT ![p] = c]
  PROVE  call' \in [Callers -> CallType] /\ \A q \in Callers : CallShape(call'[q])
  BY DEF TypeInv, TypeOK, CallType

\* Starting a call keeps the types.
LEMMA StartTypes ==
  ASSUME TypeInv, NEW p \in Callers, NEW kind \in Kinds, NEW pc \in Pcs, NEW arg \in Nat,
         pc \in Stage[kind], pc \in {"read", "property"},
         kind = "resize" => arg \in Sizes,
         kind \in {"set", "unset"} => arg \in Copies,
         Start(p, kind, pc, arg)
  PROVE  TypeInv'
<1> DEFINE c == [NoCall EXCEPT !.kind = kind, !.pc = pc, !.arg = arg]
<1>1. c \in CallType /\ CallShape(c)
  BY DEF CallType, CallShape
<1>2. call' = [call EXCEPT ![p] = c]
  BY DEF Start
<1>3. call' \in [Callers -> CallType] /\ \A q \in Callers : CallShape(call'[q])
  <2> HIDE DEF c
  <2> QED BY <1>1, <1>2, CallStep
<1> QED
  BY <1>3 DEF TypeInv, TypeOK, Start, zfs, CallType

LEMMA StageOf ==
  ASSUME TypeInv, NEW p \in Callers
  PROVE  /\ call[p] \in CallType /\ CallShape(call[p])
         /\ call[p].pc = "read" => call[p].kind \in {"resize", "stat", "clone"}
         /\ call[p].pc = "recover" => call[p].kind \in {"resize", "stat", "clone"}
         /\ call[p].pc = "ask" => call[p].kind \in {"resize", "stat", "clone"}
  BY DEF TypeInv, TypeOK, CallType, CallShape, Stage

\* What a thick zvol reserves is a positive number.
LEMMA ReservationPositive ==
  ASSUME NEW m \in Sizes, NEW n \in Copies
  PROVE  m * n \in Nat /\ m * n > 0
<1>1. m \in Nat /\ n \in Nat /\ m > 0 /\ n > 0
  OBVIOUS
<1> QED
  BY <1>1, SMT

\* Every step keeps the types.
LEMMA TypeStep == TypeInv /\ [Next]_vars => TypeInv'
<1> SUFFICES ASSUME TypeInv, [Next]_vars PROVE TypeInv'
  OBVIOUS
<1>1. CASE UNCHANGED vars
  BY <1>1 DEF vars, zfs, TypeInv, TypeOK, CallShape
<1>2. ASSUME NEW p \in Callers, Step(p) PROVE TypeInv'
  <2> USE DEF CanWrite
  <2>0. /\ call[p] \in CallType /\ CallShape(call[p])
        /\ call[p].pc \in {"read", "ask", "recover"} => call[p].kind \in {"resize", "stat", "clone"}
    BY StageOf
  <2>1. CASE Resize(p)
    BY <2>1, StartTypes DEF Resize, Stage
  <2>2. CASE Stat(p)
    BY <2>2, StartTypes DEF Stat, Stage
  <2>3. CASE Clone(p)
    BY <2>3, StartTypes DEF Clone, Stage
  <2>4. CASE Set(p)
    BY <2>4, StartTypes DEF Set, Stage
  <2>5. CASE Unset(p)
    BY <2>5, StartTypes DEF Unset, Stage
  <2>6. CASE ReadRow(p)
    <3> DEFINE c == [call[p] EXCEPT !.known = row, !.pc = IF row = None THEN "ask" ELSE AfterRead[call[p].kind]]
    <3>1. c \in CallType /\ CallShape(c)
      BY <2>0, <2>6 DEF TypeInv, TypeOK, ReadRow, AfterRead, CallType, CallShape, Stage
    <3>2. call' = [call EXCEPT ![p] = c]
      BY <2>0, <2>6 DEF TypeInv, TypeOK, ReadRow, CallType
    <3>3. call' \in [Callers -> CallType] /\ \A q \in Callers : CallShape(call'[q])
      <4> HIDE DEF c
      <4> QED BY <3>1, <3>2, CallStep
    <3> QED
      BY <2>0, <3>3, <2>6 DEF TypeInv, TypeOK, ReadRow, AfterRead, zfs, CallType, CallShape
  <2>7. CASE AskZfs(p)
    <3> DEFINE c == [call[p] EXCEPT !.known = volsize, !.pc = "recover"]
    <3>1. c \in CallType /\ CallShape(c)
      BY <2>0, <2>7 DEF TypeInv, TypeOK, AskZfs, CallType, CallShape, Stage
    <3>2. call' = [call EXCEPT ![p] = c]
      BY <2>0, <2>7 DEF TypeInv, TypeOK, AskZfs, CallType
    <3>3. call' \in [Callers -> CallType] /\ \A q \in Callers : CallShape(call'[q])
      <4> HIDE DEF c
      <4> QED BY <3>1, <3>2, CallStep
    <3> QED
      BY <2>0, <3>3, <2>7 DEF TypeInv, TypeOK, AskZfs, zfs, CallType, CallShape
  <2>8. CASE Recover(p)
    <3> DEFINE c == [call[p] EXCEPT !.new = call[p].known, !.pc = AfterRead[call[p].kind]]
    <3>0. /\ call[p].kind \in {"resize", "stat", "clone"} /\ call[p].known \in Sizes
          /\ call[p].kind = "resize" => call[p].arg \in Sizes
          /\ call[p] \in CallType
      BY <2>0, <2>8 DEF Recover, CallShape
    <3>4. /\ AfterRead[call[p].kind] \in {"check", "report", "clone"}
          /\ AfterRead[call[p].kind] \in Stage[call[p].kind]
      BY <3>0 DEF AfterRead, Stage
    <3> DEFINE n == AfterRead[call[p].kind]
    <3>1. c \in CallType /\ CallShape(c)
      <4>1. n \in {"check", "report", "clone"} /\ n \in Stage[call[p].kind]
        BY <3>4
      <4> HIDE DEF n
      <4>2. [call[p] EXCEPT !.new = call[p].known, !.pc = n] \in CallType
        BY <3>0, <4>1 DEF CallType
      <4>3. CallShape([call[p] EXCEPT !.new = call[p].known, !.pc = n])
        BY <3>0, <4>1 DEF CallType, CallShape
      <4> QED
        BY <4>2, <4>3 DEF n
    <3>2. call' = [call EXCEPT ![p] = c]
      <4>1. call' = [call EXCEPT ![p].new = call[p].known, ![p].pc = n]
        BY <2>8 DEF Recover
      <4> HIDE DEF n
      <4>2. call' = [call EXCEPT ![p] = [call[p] EXCEPT !.new = call[p].known, !.pc = n]]
        BY <2>0, <4>1 DEF TypeInv, TypeOK
      <4> QED
        BY <4>2 DEF n
    <3>3. call' \in [Callers -> CallType] /\ \A q \in Callers : CallShape(call'[q])
      <4> HIDE DEF c
      <4> QED BY <3>1, <3>2, CallStep
    <3>5. /\ writer' \subseteq Callers
          /\ UNCHANGED <<row, volsize, copies, refres, key, clones, suspect>>
      BY <2>8 DEF Recover, zfs
    <3> QED
      BY <3>3, <3>5 DEF TypeInv, TypeOK, CallType
  <2>9. CASE Report(p)
    <3> DEFINE c == NoCall
    <3>1. c \in CallType /\ CallShape(c)
      BY <2>0, <2>9 DEF TypeInv, TypeOK, Report, At, CallType, CallShape, Stage
    <3>2. call' = [call EXCEPT ![p] = c]
      BY <2>0, <2>9 DEF TypeInv, TypeOK, Report, Return, CallType
    <3>3. call' \in [Callers -> CallType] /\ \A q \in Callers : CallShape(call'[q])
      <4> HIDE DEF c
      <4> QED BY <3>1, <3>2, CallStep
    <3> QED
      BY <2>0, <3>3, <2>9 DEF TypeInv, TypeOK, Report, Record, Return, Release, At, Written, zfs, CallType, CallShape
  <2>10. CASE RejectShrink(p)
    <3> DEFINE c == NoCall
    <3>1. c \in CallType /\ CallShape(c)
      BY <2>0, <2>10 DEF TypeInv, TypeOK, RejectShrink, At, CallType, CallShape, Stage
    <3>2. call' = [call EXCEPT ![p] = c]
      BY <2>0, <2>10 DEF TypeInv, TypeOK, RejectShrink, Return, CallType
    <3>3. call' \in [Callers -> CallType] /\ \A q \in Callers : CallShape(call'[q])
      <4> HIDE DEF c
      <4> QED BY <3>1, <3>2, CallStep
    <3> QED
      BY <2>0, <3>3, <2>10 DEF TypeInv, TypeOK, RejectShrink, Return, Release, At, zfs, CallType, CallShape
  <2>11. CASE ClearSize(p)
    <3> DEFINE c == [call[p] EXCEPT !.new = None, !.pc = "grow"]
    <3>1. c \in CallType /\ CallShape(c)
      BY <2>0, <2>11 DEF TypeInv, TypeOK, ClearSize, At, CallType, CallShape, Stage
    <3>2. call' = [call EXCEPT ![p] = c]
      BY <2>0, <2>11 DEF TypeInv, TypeOK, ClearSize, CallType
    <3>3. call' \in [Callers -> CallType] /\ \A q \in Callers : CallShape(call'[q])
      <4> HIDE DEF c
      <4> QED BY <3>1, <3>2, CallStep
    <3> QED
      BY <2>0, <3>3, <2>11 DEF TypeInv, TypeOK, ClearSize, Release, At, zfs, CallType, CallShape
  <2>12. CASE Grow(p)
    <3> DEFINE c == [call[p] EXCEPT !.pc = "measure"]
    <3>1. c \in CallType /\ CallShape(c)
      BY <2>0, <2>12 DEF TypeInv, TypeOK, Grow, At, CallType, CallShape, Stage
    <3>2. call' = [call EXCEPT ![p] = c]
      BY <2>0, <2>12 DEF TypeInv, TypeOK, Grow, Goto, CallType
    <3>3. call' \in [Callers -> CallType] /\ \A q \in Callers : CallShape(call'[q])
      <4> HIDE DEF c
      <4> QED BY <3>1, <3>2, CallStep
    <3> QED
      BY <2>0, <3>3, <2>12 DEF TypeInv, TypeOK, Grow, Goto, At, zfs, CallType, CallShape
  <2>13. CASE Measure(p)
    <3> DEFINE c == [call[p] EXCEPT !.got = volsize, !.pc = "update"]
    <3>1. c \in CallType /\ CallShape(c)
      BY <2>0, <2>13 DEF TypeInv, TypeOK, Measure, At, CallType, CallShape, Stage
    <3>2. call' = [call EXCEPT ![p] = c]
      BY <2>0, <2>13 DEF TypeInv, TypeOK, Measure, CallType
    <3>3. call' \in [Callers -> CallType] /\ \A q \in Callers : CallShape(call'[q])
      <4> HIDE DEF c
      <4> QED BY <3>1, <3>2, CallStep
    <3> QED
      BY <2>0, <3>3, <2>13 DEF TypeInv, TypeOK, Measure, At, zfs, CallType, CallShape
  <2>14. CASE UpdateSize(p)
    <3> DEFINE c == [call[p] EXCEPT !.new = call[p].got, !.pc = "sync"]
    <3>1. c \in CallType /\ CallShape(c)
      BY <2>0, <2>14 DEF TypeInv, TypeOK, UpdateSize, At, CallType, CallShape, Stage
    <3>2. call' = [call EXCEPT ![p] = c]
      BY <2>0, <2>14 DEF TypeInv, TypeOK, UpdateSize, CallType
    <3>3. call' \in [Callers -> CallType] /\ \A q \in Callers : CallShape(call'[q])
      <4> HIDE DEF c
      <4> QED BY <3>1, <3>2, CallStep
    <3>4. writer' \subseteq Callers /\ UNCHANGED <<row, volsize, copies, refres, key, clones, suspect>>
      BY <2>14 DEF UpdateSize, zfs
    <3> QED
      BY <3>3, <3>4 DEF TypeInv, TypeOK, CallType
  <2>15. CASE CommitSize(p)
    <3> DEFINE c == NoCall
    <3>1. c \in CallType /\ CallShape(c)
      BY <2>0, <2>15 DEF TypeInv, TypeOK, CommitSize, At, CallType, CallShape, Stage
    <3>2. call' = [call EXCEPT ![p] = c]
      BY <2>0, <2>15 DEF TypeInv, TypeOK, CommitSize, Return, CallType
    <3>3. call' \in [Callers -> CallType] /\ \A q \in Callers : CallShape(call'[q])
      <4> HIDE DEF c
      <4> QED BY <3>1, <3>2, CallStep
    <3> QED
      BY <2>0, <3>3, <2>15 DEF TypeInv, TypeOK, CommitSize, Record, Return, Release, At, Written, zfs, CallType, CallShape
  <2>16. CASE ReadReservation(p)
    <3> DEFINE c == [call[p] EXCEPT !.pc = "reserve", !.res = IF refres > 0 THEN volsize * copies ELSE 0]
    <3>0. volsize * copies \in Nat
      BY ReservationPositive DEF TypeInv, TypeOK
    <3> DEFINE r == IF refres > 0 THEN volsize * copies ELSE 0
    <3>4. r \in Nat
      BY <3>0
    <3>5. call[p].pc = "sync" /\ [call[p] EXCEPT !.pc = "reserve", !.res = r] \in CallType
      <4> HIDE DEF r
      <4> QED BY <2>0, <2>16, <3>4 DEF ReadReservation, CallType
    <3>1. c \in CallType /\ CallShape(c)
      <4> HIDE DEF r
      <4>1. c = [call[p] EXCEPT !.pc = "reserve", !.res = r]
        BY DEF r
      <4> QED BY <2>0, <3>5, <4>1 DEF CallType, CallShape, Stage
    <3>2. call' = [call EXCEPT ![p] = c]
      <4>1. call' = [call EXCEPT ![p].pc = "reserve", ![p].res = r]
        BY <2>16 DEF ReadReservation
      <4> HIDE DEF r
      <4>2. call' = [call EXCEPT ![p] = [call[p] EXCEPT !.pc = "reserve", !.res = r]]
        BY <2>0, <4>1 DEF TypeInv, TypeOK
      <4> QED
        BY <4>2 DEF r
    <3>3. call' \in [Callers -> CallType] /\ \A q \in Callers : CallShape(call'[q])
      <4> HIDE DEF c
      <4> QED BY <3>1, <3>2, CallStep
    <3> QED
      BY <2>0, <3>3, <2>16 DEF TypeInv, TypeOK, ReadReservation, zfs, CallType, CallShape
  <2>17. CASE Reserve(p)
    <3> DEFINE c == [call[p] EXCEPT !.pc = "commit"]
    <3>1. c \in CallType /\ CallShape(c)
      BY <2>0, <2>17 DEF TypeInv, TypeOK, Reserve, CallType, CallShape, Stage
    <3>2. call' = [call EXCEPT ![p] = c]
      BY <2>0, <2>17 DEF TypeInv, TypeOK, Reserve, Goto, CallType
    <3>3. call' \in [Callers -> CallType] /\ \A q \in Callers : CallShape(call'[q])
      <4> HIDE DEF c
      <4> QED BY <3>1, <3>2, CallStep
    <3> QED
      BY <2>0, <3>3, <2>17 DEF TypeInv, TypeOK, Reserve, Goto, zfs, CallType, CallShape
  <2>18. CASE MakeClone(p)
    <3> DEFINE c == [call[p] EXCEPT !.got = volsize, !.pc = "thick"]
    <3>1. c \in CallType /\ CallShape(c)
      BY <2>0, <2>18 DEF TypeInv, TypeOK, MakeClone, At, CallType, CallShape, Stage
    <3>2. call' = [call EXCEPT ![p] = c]
      BY <2>0, <2>18 DEF TypeInv, TypeOK, MakeClone, CallType
    <3>3. call' \in [Callers -> CallType] /\ \A q \in Callers : CallShape(call'[q])
      <4> HIDE DEF c
      <4> QED BY <3>1, <3>2, CallStep
    <3>4. writer' \subseteq Callers /\ UNCHANGED <<row, volsize, copies, refres, key, clones, suspect>>
      BY <2>18 DEF MakeClone, zfs
    <3> QED
      BY <3>3, <3>4 DEF TypeInv, TypeOK, CallType
  <2>19. CASE Thicken(p)
    <3> DEFINE c == [call[p] EXCEPT !.pc = "commit", !.res = IF refres > 0 THEN call[p].got * Inherited ELSE 0]
    <3>1. c \in CallType /\ CallShape(c)
      <4>1. call[p].got \in Nat /\ call[p].got * Inherited = call[p].got
        BY <2>0, <2>19 DEF CallType
      <4> DEFINE r == IF refres > 0 THEN call[p].got * Inherited ELSE 0
      <4>2. r \in Nat
        BY <4>1
      <4>3. [call[p] EXCEPT !.pc = "commit", !.res = r] \in CallType
              /\ CallShape([call[p] EXCEPT !.pc = "commit", !.res = r])
        <5> HIDE DEF r
        <5>1. call[p].kind = "clone" /\ call[p].pc = "thick"
          BY <2>19 DEF Thicken, At
        <5>2. call[p].known \in Sizes /\ call[p].got \in Sizes
          BY <2>0, <5>1 DEF CallShape
        <5>3. [call[p] EXCEPT !.pc = "commit", !.res = r] \in CallType
          BY <2>0, <4>2 DEF CallType
        <5> QED BY <2>0, <5>1, <5>2, <5>3 DEF CallType, CallShape, Stage
      <4> QED BY <4>3
    <3>2. call' = [call EXCEPT ![p] = c]
      BY <2>0, <2>19 DEF TypeInv, TypeOK, Thicken, CallType
    <3>3. call' \in [Callers -> CallType] /\ \A q \in Callers : CallShape(call'[q])
      <4> HIDE DEF c
      <4> QED BY <3>1, <3>2, CallStep
    <3> QED
      BY <2>0, <3>3, <2>19 DEF TypeInv, TypeOK, Thicken, At, zfs, CallType, CallShape
  <2>20. CASE CommitClone(p)
    <3> DEFINE c == NoCall
    <3>1. c \in CallType /\ CallShape(c)
      BY <2>0, <2>20 DEF TypeInv, TypeOK, CommitClone, At, CallType, CallShape, Stage
    <3>2. call' = [call EXCEPT ![p] = c]
      BY <2>0, <2>20 DEF TypeInv, TypeOK, CommitClone, Return, CallType
    <3>3. call' \in [Callers -> CallType] /\ \A q \in Callers : CallShape(call'[q])
      <4> HIDE DEF c
      <4> QED BY <3>1, <3>2, CallStep
    <3> QED
      BY <2>0, <3>3, <2>20 DEF TypeInv, TypeOK, CommitClone, Record, Return, Release, At, Written, zfs, CallType, CallShape
  <2>21. CASE SetProperty(p)
    <3> DEFINE c == [call[p] EXCEPT !.pc = "sync"]
    <3>1. c \in CallType /\ CallShape(c)
      BY <2>0, <2>21 DEF TypeInv, TypeOK, SetProperty, CallType, CallShape, Stage
    <3>2. call' = [call EXCEPT ![p] = c]
      BY <2>0, <2>21 DEF TypeInv, TypeOK, SetProperty, Goto, CallType
    <3>3. call' \in [Callers -> CallType] /\ \A q \in Callers : CallShape(call'[q])
      <4> HIDE DEF c
      <4> QED BY <3>1, <3>2, CallStep
    <3> QED
      BY <2>0, <3>3, <2>21 DEF TypeInv, TypeOK, SetProperty, Goto, zfs, CallType, CallShape
  <2>22. CASE CommitKey(p)
    <3> DEFINE c == NoCall
    <3>1. c \in CallType /\ CallShape(c)
      BY <2>0, <2>22 DEF TypeInv, TypeOK, CommitKey, CallType, CallShape, Stage
    <3>2. call' = [call EXCEPT ![p] = c]
      BY <2>0, <2>22 DEF TypeInv, TypeOK, CommitKey, Return, CallType
    <3>3. call' \in [Callers -> CallType] /\ \A q \in Callers : CallShape(call'[q])
      <4> HIDE DEF c
      <4> QED BY <3>1, <3>2, CallStep
    <3> QED
      BY <2>0, <3>3, <2>22 DEF TypeInv, TypeOK, CommitKey, Return, KeyOf, zfs, CallType, CallShape
  <2>23. CASE Fail(p)
    <3> DEFINE c == NoCall
    <3>1. c \in CallType /\ CallShape(c)
      BY <2>0, <2>23 DEF TypeInv, TypeOK, Fail, CallType, CallShape, Stage
    <3>2. call' = [call EXCEPT ![p] = c]
      BY <2>0, <2>23 DEF TypeInv, TypeOK, Fail, Return, CallType
    <3>3. call' \in [Callers -> CallType] /\ \A q \in Callers : CallShape(call'[q])
      <4> HIDE DEF c
      <4> QED BY <3>1, <3>2, CallStep
    <3> QED
      BY <2>0, <3>3, <2>23 DEF TypeInv, TypeOK, Fail, HalfDone, Return, Release, zfs, CallType, CallShape
  <2> QED
    BY <1>2, <2>1, <2>2, <2>3, <2>4, <2>5, <2>6, <2>7, <2>8, <2>9, <2>10, <2>11, <2>12, <2>13, <2>14, <2>15, <2>16, <2>17, <2>18, <2>19, <2>20, <2>21, <2>22, <2>23 DEF Step
<1> QED
  BY <1>1, <1>2 DEF Next

\* The initial state has the types.
LEMMA TypeInit == Init => TypeInv
<1> SUFFICES ASSUME Init PROVE TypeInv
  OBVIOUS
<1>1. copies \in Copies /\ volsize \in Sizes
  BY DEF Init
<1>2. refres \in Nat
  BY <1>1, ReservationPositive DEF Init
<1>3. NoCall \in CallType /\ CallShape(NoCall)
  BY DEF CallType, CallShape, Stage
<1> QED
  BY <1>1, <1>2, <1>3 DEF Init, TypeInv, TypeOK, CallType

\* Type correctness, whatever calls overlap: in particular every reservation
\* is a number and every row and clone has a size a zvol can have.
THEOREM SizeTypeCorrect == Spec => []TypeOK
<1>1. TypeInv => TypeOK
  BY DEF TypeInv
<1> QED
  BY TypeInit, TypeStep, <1>1, PTL DEF Spec

-----------------------------------------------------------------------------
(* Which calls overlap.                                                    *)

\* What a step of a caller does to its own call.
LEMMA StepOf ==
  ASSUME TypeInv, NEW p \in Callers, Step(p)
  PROVE  /\ \A q \in Callers \ {p} : call'[q] = call[q]
         /\ \/ call'[p].kind = call[p].kind /\ call[p].kind # "idle"
            \/ call'[p] = NoCall
            \/ /\ call[p] = NoCall /\ call'[p].kind # "idle"
               /\ \A q \in Callers : call[q] = NoCall \/ {call'[p].kind, call[q].kind} \in Overlap
<1>0. /\ call[p] \in CallType /\ CallShape(call[p])
      /\ call \in [Callers -> CallType]
  BY DEF TypeInv, TypeOK, CallType
<1>1. ASSUME NEW kind \in Kinds \ {"idle"}, NEW pc \in Pcs, NEW arg \in Nat, Start(p, kind, pc, arg)
      PROVE  /\ \A q \in Callers \ {p} : call'[q] = call[q]
             /\ call[p] = NoCall /\ call'[p].kind # "idle"
             /\ \A q \in Callers : call[q] = NoCall \/ {call'[p].kind, call[q].kind} \in Overlap
  BY <1>0, <1>1 DEF Start
<1>2. CASE Resize(p) \/ Stat(p) \/ Clone(p) \/ Set(p) \/ Unset(p)
  <2>1. CASE Resize(p)
    <3>1. PICK n \in Sizes : Start(p, "resize", "read", n)
      BY <2>1 DEF Resize
    <3>2. n \in Nat /\ "resize" \in Kinds \ {"idle"} /\ "read" \in Pcs
      OBVIOUS
    <3> QED
      BY <1>1, <3>1, <3>2
  <2>2. CASE Stat(p)
    BY <1>1, <2>2 DEF Stat
  <2>3. CASE Clone(p)
    BY <1>1, <2>3 DEF Clone
  <2>4. CASE Set(p)
    <3>1. PICK n \in Copies : Start(p, "set", "property", n)
      BY <2>4 DEF Set
    <3>2. n \in Nat /\ "set" \in Kinds \ {"idle"} /\ "property" \in Pcs
      OBVIOUS
    <3> QED
      BY <1>1, <3>1, <3>2
  <2>5. CASE Unset(p)
    BY <1>1, <2>5 DEF Unset
  <2> QED
    BY <1>2, <2>1, <2>2, <2>3, <2>4, <2>5
<1>4. CASE Return(p)
  BY <1>0, <1>4 DEF Return
<1>5. call[p].kind = "idle" => call[p].pc = "idle"
  BY <1>0 DEF CallShape, Stage
<1>6. CASE ReadRow(p)
  <2>1. \A q \in Callers \ {p} : call'[q] = call[q]
    BY <1>0, <1>6 DEF ReadRow
  <2>2. call'[p].kind = call[p].kind
    BY <1>0, <1>6 DEF ReadRow, CallType
  <2>3. call[p].kind # "idle"
    BY <1>5, <1>6 DEF ReadRow
  <2> QED
    BY <2>1, <2>2, <2>3
<1>7. CASE AskZfs(p)
  <2>1. \A q \in Callers \ {p} : call'[q] = call[q]
    BY <1>0, <1>7 DEF AskZfs
  <2>2. call'[p].kind = call[p].kind
    BY <1>0, <1>7 DEF AskZfs, CallType
  <2>3. call[p].kind # "idle"
    BY <1>5, <1>7 DEF AskZfs
  <2> QED
    BY <2>1, <2>2, <2>3
<1>8. CASE Recover(p)
  <2>1. \A q \in Callers \ {p} : call'[q] = call[q]
    BY <1>0, <1>8 DEF Recover
  <2>2. call'[p].kind = call[p].kind
    BY <1>0, <1>8 DEF Recover, CallType
  <2>3. call[p].kind # "idle"
    BY <1>5, <1>8 DEF Recover
  <2> QED
    BY <2>1, <2>2, <2>3
<1>9. CASE ClearSize(p)
  <2>1. \A q \in Callers \ {p} : call'[q] = call[q]
    BY <1>0, <1>9 DEF ClearSize, At
  <2>2. call'[p].kind = call[p].kind
    BY <1>0, <1>9 DEF ClearSize, At, CallType
  <2>3. call[p].kind # "idle"
    BY <1>5, <1>9 DEF ClearSize, At
  <2> QED
    BY <2>1, <2>2, <2>3
<1>10. CASE Grow(p)
  <2>1. \A q \in Callers \ {p} : call'[q] = call[q]
    BY <1>0, <1>10 DEF Grow, At, Goto
  <2>2. call'[p].kind = call[p].kind
    BY <1>0, <1>10 DEF Grow, At, Goto, CallType
  <2>3. call[p].kind # "idle"
    BY <1>5, <1>10 DEF Grow, At, Goto
  <2> QED
    BY <2>1, <2>2, <2>3
<1>11. CASE Measure(p)
  <2>1. \A q \in Callers \ {p} : call'[q] = call[q]
    BY <1>0, <1>11 DEF Measure, At
  <2>2. call'[p].kind = call[p].kind
    BY <1>0, <1>11 DEF Measure, At, CallType
  <2>3. call[p].kind # "idle"
    BY <1>5, <1>11 DEF Measure, At
  <2> QED
    BY <2>1, <2>2, <2>3
<1>12. CASE UpdateSize(p)
  <2>1. \A q \in Callers \ {p} : call'[q] = call[q]
    BY <1>0, <1>12 DEF UpdateSize, At
  <2>2. call'[p].kind = call[p].kind
    BY <1>0, <1>12 DEF UpdateSize, At, CallType
  <2>3. call[p].kind # "idle"
    BY <1>5, <1>12 DEF UpdateSize, At
  <2> QED
    BY <2>1, <2>2, <2>3
<1>13. CASE ReadReservation(p)
  <2>1. \A q \in Callers \ {p} : call'[q] = call[q]
    BY <1>0, <1>13 DEF ReadReservation
  <2>2. call'[p].kind = call[p].kind
    BY <1>0, <1>13 DEF ReadReservation, CallType
  <2>3. call[p].kind # "idle"
    BY <1>5, <1>13 DEF ReadReservation
  <2> QED
    BY <2>1, <2>2, <2>3
<1>14. CASE Reserve(p)
  <2>1. \A q \in Callers \ {p} : call'[q] = call[q]
    BY <1>0, <1>14 DEF Reserve, Goto
  <2>2. call'[p].kind = call[p].kind
    BY <1>0, <1>14 DEF Reserve, Goto, CallType
  <2>3. call[p].kind # "idle"
    BY <1>5, <1>14 DEF Reserve, Goto
  <2> QED
    BY <2>1, <2>2, <2>3
<1>15. CASE MakeClone(p)
  <2>1. \A q \in Callers \ {p} : call'[q] = call[q]
    BY <1>0, <1>15 DEF MakeClone, At
  <2>2. call'[p].kind = call[p].kind
    BY <1>0, <1>15 DEF MakeClone, At, CallType
  <2>3. call[p].kind # "idle"
    BY <1>5, <1>15 DEF MakeClone, At
  <2> QED
    BY <2>1, <2>2, <2>3
<1>16. CASE Thicken(p)
  <2>1. \A q \in Callers \ {p} : call'[q] = call[q]
    BY <1>0, <1>16 DEF Thicken, At
  <2>2. call'[p].kind = call[p].kind
    BY <1>0, <1>16 DEF Thicken, At, CallType
  <2>3. call[p].kind # "idle"
    BY <1>5, <1>16 DEF Thicken, At
  <2> QED
    BY <2>1, <2>2, <2>3
<1>17. CASE SetProperty(p)
  <2>1. \A q \in Callers \ {p} : call'[q] = call[q]
    BY <1>0, <1>17 DEF SetProperty, Goto
  <2>2. call'[p].kind = call[p].kind
    BY <1>0, <1>17 DEF SetProperty, Goto, CallType
  <2>3. call[p].kind # "idle"
    BY <1>5, <1>17 DEF SetProperty, Goto
  <2> QED
    BY <2>1, <2>2, <2>3
<1> QED
  BY <1>2, <1>4, <1>6, <1>7, <1>8, <1>9, <1>10, <1>11, <1>12, <1>13, <1>14, <1>15, <1>16, <1>17 DEF Step, Report, RejectShrink, CommitSize, CommitClone, CommitKey, Fail

\* Calls in progress together are of kinds that may overlap.
Admitted ==
    /\ \A p \in Callers : call[p].kind = "idle" => call[p] = NoCall
    /\ \A p, q \in Callers :
          p # q /\ call[p].kind # "idle" /\ call[q].kind # "idle" =>
             {call[p].kind, call[q].kind} \in Overlap

LEMMA AdmittedStep == TypeInv /\ Admitted /\ [Next]_vars => Admitted'
<1>1. CASE UNCHANGED vars
  BY <1>1 DEF vars, Admitted
<1>2. ASSUME TypeInv, Admitted, NEW p \in Callers, Step(p) PROVE Admitted'
  <2>1. /\ \A q \in Callers \ {p} : call'[q] = call[q]
        /\ \/ call'[p].kind = call[p].kind /\ call[p].kind # "idle"
           \/ call'[p] = NoCall
           \/ /\ call[p] = NoCall /\ call'[p].kind # "idle"
              /\ \A q \in Callers : call[q] = NoCall \/ {call'[p].kind, call[q].kind} \in Overlap
    BY <1>2, StepOf
  <2>2. \A q \in Callers : call'[q].kind = "idle" => call'[q] = NoCall
    BY <1>2, <2>1 DEF Admitted
  <2>3. ASSUME NEW q \in Callers, q # p, call'[q].kind # "idle", call'[p].kind # "idle"
        PROVE  {call'[p].kind, call'[q].kind} \in Overlap
    BY <1>2, <2>1, <2>3 DEF Admitted
  <2>4. \A q, r \in Callers : q # p /\ r # p => call'[q] = call[q] /\ call'[r] = call[r]
    BY <2>1
  <2>5. \A q \in Callers : {call'[p].kind, call'[q].kind} = {call'[q].kind, call'[p].kind}
    OBVIOUS
  <2>6. ASSUME NEW q \in Callers, NEW r \in Callers, q # r,
               call'[q].kind # "idle", call'[r].kind # "idle"
        PROVE  {call'[q].kind, call'[r].kind} \in Overlap
    <3>1. CASE q = p
      BY <2>3, <2>6, <3>1
    <3>2. CASE r = p
      BY <2>3, <2>5, <2>6, <3>2
    <3>3. CASE q # p /\ r # p
      BY <1>2, <2>4, <2>6, <3>3 DEF Admitted
    <3> QED
      BY <3>1, <3>2, <3>3
  <2> QED
    BY <2>2, <2>6 DEF Admitted
<1> QED
  BY <1>1, <1>2 DEF Next

\* The calls of these kinds come one after the other.
Apart(kinds) == \A k1, k2 \in kinds : {k1, k2} \notin Overlap

LEMMA Alone ==
  ASSUME Admitted, NEW kinds, Apart(kinds), "idle" \notin kinds,
         NEW p \in Callers, call[p].kind \in kinds,
         NEW q \in Callers, p # q
  PROVE  call[q].kind \notin kinds
  BY DEF Admitted, Apart

LEMMA AdmittedInit == Init => Admitted
  BY DEF Init, Admitted

\* The fields of a call.
Is(c, kind, pc, arg, known, new, got, res) ==
    /\ c.kind = kind /\ c.pc = pc /\ c.arg = arg
    /\ c.known = known /\ c.new = new /\ c.got = got /\ c.res = res

\* What the step makes of the call itself, action by action.
LEMMA NewCall ==
  ASSUME TypeInv, NEW p \in Callers
  PROVE
    /\ ReadRow(p) => Is(call'[p], call[p].kind, IF row = None THEN "ask" ELSE AfterRead[call[p].kind], call[p].arg, row, call[p].new, call[p].got, call[p].res)
    /\ AskZfs(p) => Is(call'[p], call[p].kind, "recover", call[p].arg, volsize, call[p].new, call[p].got, call[p].res)
    /\ Recover(p) => Is(call'[p], call[p].kind, AfterRead[call[p].kind], call[p].arg, call[p].known, call[p].known, call[p].got, call[p].res)
    /\ Report(p) => call'[p] = NoCall
    /\ RejectShrink(p) => call'[p] = NoCall
    /\ ClearSize(p) => Is(call'[p], call[p].kind, "grow", call[p].arg, call[p].known, None, call[p].got, call[p].res)
    /\ Grow(p) => Is(call'[p], call[p].kind, "measure", call[p].arg, call[p].known, call[p].new, call[p].got, call[p].res)
    /\ Measure(p) => Is(call'[p], call[p].kind, "update", call[p].arg, call[p].known, call[p].new, volsize, call[p].res)
    /\ UpdateSize(p) => Is(call'[p], call[p].kind, "sync", call[p].arg, call[p].known, call[p].got, call[p].got, call[p].res)
    /\ CommitSize(p) => call'[p] = NoCall
    /\ ReadReservation(p) => Is(call'[p], call[p].kind, "reserve", call[p].arg, call[p].known, call[p].new, call[p].got, IF refres > 0 THEN volsize * copies ELSE 0)
    /\ Reserve(p) => Is(call'[p], call[p].kind, "commit", call[p].arg, call[p].known, call[p].new, call[p].got, call[p].res)
    /\ MakeClone(p) => Is(call'[p], call[p].kind, "thick", call[p].arg, call[p].known, call[p].new, volsize, call[p].res)
    /\ Thicken(p) => Is(call'[p], call[p].kind, "commit", call[p].arg, call[p].known, call[p].new, call[p].got, IF refres > 0 THEN call[p].got * Inherited ELSE 0)
    /\ CommitClone(p) => call'[p] = NoCall
    /\ SetProperty(p) => Is(call'[p], call[p].kind, "sync", call[p].arg, call[p].known, call[p].new, call[p].got, call[p].res)
    /\ CommitKey(p) => call'[p] = NoCall
    /\ Fail(p) => call'[p] = NoCall
    /\ \A kind, pc, arg : Start(p, kind, pc, arg) => Is(call'[p], kind, pc, arg, None, None, 0, 0)
<1>0. call[p] \in CallType /\ call \in [Callers -> CallType]
  BY DEF TypeInv, TypeOK, CallType
<1>1. ReadRow(p) => Is(call'[p], call[p].kind, IF row = None THEN "ask" ELSE AfterRead[call[p].kind], call[p].arg, row, call[p].new, call[p].got, call[p].res)
  BY <1>0 DEF ReadRow, CallType, Is
<1>2. AskZfs(p) => Is(call'[p], call[p].kind, "recover", call[p].arg, volsize, call[p].new, call[p].got, call[p].res)
  BY <1>0 DEF AskZfs, CallType, Is
<1>3. Recover(p) => Is(call'[p], call[p].kind, AfterRead[call[p].kind], call[p].arg, call[p].known, call[p].known, call[p].got, call[p].res)
  BY <1>0 DEF Recover, CallType, Is
<1>4. Report(p) => call'[p] = NoCall
  BY <1>0 DEF Report, Return, CallType, Is
<1>5. RejectShrink(p) => call'[p] = NoCall
  BY <1>0 DEF RejectShrink, Return, CallType, Is
<1>6. ClearSize(p) => Is(call'[p], call[p].kind, "grow", call[p].arg, call[p].known, None, call[p].got, call[p].res)
  BY <1>0 DEF ClearSize, CallType, Is
<1>7. Grow(p) => Is(call'[p], call[p].kind, "measure", call[p].arg, call[p].known, call[p].new, call[p].got, call[p].res)
  BY <1>0 DEF Grow, Goto, CallType, Is
<1>8. Measure(p) => Is(call'[p], call[p].kind, "update", call[p].arg, call[p].known, call[p].new, volsize, call[p].res)
  BY <1>0 DEF Measure, CallType, Is
<1>9. UpdateSize(p) => Is(call'[p], call[p].kind, "sync", call[p].arg, call[p].known, call[p].got, call[p].got, call[p].res)
  BY <1>0 DEF UpdateSize, CallType, Is
<1>10. CommitSize(p) => call'[p] = NoCall
  BY <1>0 DEF CommitSize, Return, CallType, Is
<1>11. ReadReservation(p) => Is(call'[p], call[p].kind, "reserve", call[p].arg, call[p].known, call[p].new, call[p].got, IF refres > 0 THEN volsize * copies ELSE 0)
  BY <1>0 DEF ReadReservation, CallType, Is
<1>12. Reserve(p) => Is(call'[p], call[p].kind, "commit", call[p].arg, call[p].known, call[p].new, call[p].got, call[p].res)
  BY <1>0 DEF Reserve, Goto, CallType, Is
<1>13. MakeClone(p) => Is(call'[p], call[p].kind, "thick", call[p].arg, call[p].known, call[p].new, volsize, call[p].res)
  BY <1>0 DEF MakeClone, CallType, Is
<1>14. Thicken(p) => Is(call'[p], call[p].kind, "commit", call[p].arg, call[p].known, call[p].new, call[p].got, IF refres > 0 THEN call[p].got * Inherited ELSE 0)
  BY <1>0 DEF Thicken, CallType, Is
<1>15. CommitClone(p) => call'[p] = NoCall
  BY <1>0 DEF CommitClone, Return, CallType, Is
<1>16. SetProperty(p) => Is(call'[p], call[p].kind, "sync", call[p].arg, call[p].known, call[p].new, call[p].got, call[p].res)
  BY <1>0 DEF SetProperty, Goto, CallType, Is
<1>17. CommitKey(p) => call'[p] = NoCall
  BY <1>0 DEF CommitKey, Return, CallType, Is
<1>18. Fail(p) => call'[p] = NoCall
  BY <1>0 DEF Fail, Return, CallType, Is
<1>19. \A kind, pc, arg : Start(p, kind, pc, arg) => Is(call'[p], kind, pc, arg, None, None, 0, 0)
  BY <1>0 DEF Start, Is
<1> QED
  BY <1>1, <1>2, <1>3, <1>4, <1>5, <1>6, <1>7, <1>8, <1>9, <1>10, <1>11, <1>12, <1>13, <1>14, <1>15, <1>16, <1>17, <1>18, <1>19

-----------------------------------------------------------------------------
(* Sizes, when no resize overlaps another resize, a stat or a clone.       *)

SizesApart == \A k \in {"resize", "stat", "clone"} : {"resize", k} \notin Overlap

\* What a call in progress knows of the zvol and of the row is still true.
Knows(c) ==
    /\ c.kind \in {"idle", "set", "unset"} => c.new = None
    /\ c.new \in {None, volsize}
    /\ c.pc \in {"recover", "report", "check", "clone"} => c.known = volsize
    /\ c.kind \in {"stat", "clone"} /\ c.pc \in {"report", "clone", "thick", "commit"} =>
          c.new # None \/ row # None
    /\ c.pc = "grow" => c.arg >= volsize /\ c.new = None
    /\ Cleared(c) => row = None
    /\ c.pc = "update" => c.got = volsize
    /\ c.kind = "clone" /\ c.pc \in {"thick", "commit"} =>
          c.known = volsize /\ c.got = volsize
    /\ c.kind = "clone" /\ c.pc = "commit" => (c.res > 0 => c.res >= c.got)
    /\ c.kind = "resize" /\ c.pc \in {"sync", "reserve", "commit"} => c.new = volsize

\* A vsize the metabase holds is right.
Agrees == row # None => row = volsize

\* A vsize that is missing is being resized, or left so by a failed resize.
Recorded == row = None /\ "row" \notin suspect => \E p \in Callers : Cleared(call[p])

SizeInv ==
    /\ Agrees /\ ClonesSized /\ Recorded
    /\ \A p \in Callers : Knows(call[p])

Sized == {"resize", "stat", "clone"}

\* While a call that changes the sizes runs, no other needs to know them; and
\* while one reads them, no other changes them.
LEMMA NoResizeBeside ==
  ASSUME Admitted, SizesApart, NEW p \in Callers, NEW q \in Callers, p # q
  PROVE  /\ call[p].kind = "resize" => call[q].kind \notin Sized
         /\ call[p].kind \in Sized => call[q].kind # "resize"
<1>1. /\ call[p].kind \in Sized => call[p].kind # "idle"
      /\ call[q].kind \in Sized => call[q].kind # "idle"
      /\ "resize" \in Sized
  BY DEF Sized
<1>2. call[p].kind # "idle" /\ call[q].kind # "idle" => {call[p].kind, call[q].kind} \in Overlap
  BY DEF Admitted
<1>3. \A k \in Sized : {"resize", k} \notin Overlap /\ {k, "resize"} \notin Overlap
  <2>1. \A k \in Sized : {"resize", k} = {k, "resize"}
    OBVIOUS
  <2> QED
    BY <2>1 DEF SizesApart, Sized
<1> QED
  BY <1>1, <1>2, <1>3

\* The others go on knowing what they know.
LEMMA OthersKnow ==
  ASSUME TypeInv, Admitted, SizesApart, SizeInv,
         NEW p \in Callers, \A q \in Callers \ {p} : call'[q] = call[q],
         \/ volsize' = volsize /\ row' = row
         \/ call[p].kind = "resize"
         \/ call[p].kind \in Sized /\ volsize' = volsize /\ row' # None
  PROVE  \A q \in Callers \ {p} : Knows(call[q])'
<1> SUFFICES ASSUME NEW q \in Callers \ {p} PROVE Knows(call[q])'
  OBVIOUS
<1>1. call'[q] = call[q] /\ Knows(call[q]) /\ CallShape(call[q]) /\ call[q] \in CallType
  BY DEF SizeInv, TypeInv, TypeOK, CallType
<1>2. CASE volsize' = volsize /\ row' = row
  BY <1>1, <1>2 DEF Knows, Cleared
<1>3. CASE call[p].kind = "resize"
  <2>1. call[q].kind \in {"idle", "set", "unset"}
    BY <1>1, <1>3, NoResizeBeside DEF Sized, CallType
  <2>2. call[q].pc \in {"idle", "property", "sync", "reserve", "commit"} /\ call[q].new = None
    BY <1>1, <2>1 DEF CallShape, Stage, Knows
  <2> QED
    BY <1>1, <2>1, <2>2 DEF Knows, Cleared
<1>4. CASE call[p].kind \in Sized /\ volsize' = volsize /\ row' # None
  <2>1. call[q].kind # "resize"
    BY <1>4, NoResizeBeside
  <2> QED
    BY <1>1, <1>4, <2>1 DEF Knows, Cleared
<1> QED
  BY <1>2, <1>3, <1>4

\* A step that leaves row, zvol size and clones alone keeps SizeInv if the
\* call goes on knowing what it needs, and leaves no cleared row unaccounted for.
LEMMA SizesKept ==
  ASSUME TypeInv, Admitted, SizesApart, SizeInv,
         NEW p \in Callers, \A q \in Callers \ {p} : call'[q] = call[q],
         UNCHANGED <<row, volsize, clones>>,
         "row" \in suspect => "row" \in suspect',
         Cleared(call[p]) => Cleared(call[p])' \/ "row" \in suspect',
         Knows(call[p])'
  PROVE  SizeInv'
<1>1. Agrees' /\ ClonesSized'
  BY DEF SizeInv, Agrees, ClonesSized
<1>2. \A q \in Callers : Knows(call[q])'
  <2>1. \A q \in Callers \ {p} : Knows(call[q])'
    BY OthersKnow
  <2> QED
    BY <2>1
<1>3. Recorded'
  <2> SUFFICES ASSUME row = None, "row" \notin suspect' PROVE \E q \in Callers : Cleared(call[q])'
    BY DEF Recorded
  <2>1. PICK q \in Callers : Cleared(call[q])
    BY DEF SizeInv, Recorded
  <2>2. CASE q = p
    BY <2>1, <2>2
  <2>3. CASE q # p
    BY <2>1, <2>3 DEF Cleared
  <2> QED
    BY <2>2, <2>3
<1> QED
  BY <1>1, <1>2, <1>3 DEF SizeInv

\* Starting a call keeps SizeInv.
LEMMA StartSizes ==
  ASSUME TypeInv, Admitted, SizesApart, SizeInv, NEW p \in Callers, Step(p), NEW kind \in Kinds,
         NEW pc \in {"read", "property"}, NEW arg \in Nat, Start(p, kind, pc, arg)
  PROVE  SizeInv'
<1>1. Is(call'[p], kind, pc, arg, None, None, 0, 0)
  BY NewCall
<1>2. UNCHANGED <<row, volsize, clones, suspect>> /\ call[p] = NoCall
  BY DEF Start, zfs
<1>3. Knows(call[p])' /\ ~Cleared(call[p])
  BY <1>1, <1>2 DEF Is, Knows, Cleared
<1>4. \A q \in Callers \ {p} : call'[q] = call[q]
  BY StepOf
<1> QED
  BY <1>2, <1>3, <1>4, SizesKept

LEMMA SizeStep ==
  ASSUME SizesApart PROVE TypeInv /\ Admitted /\ SizeInv /\ [Next]_vars => SizeInv'
<1> SUFFICES ASSUME TypeInv, Admitted, SizeInv, [Next]_vars PROVE SizeInv'
  OBVIOUS
<1>1. CASE UNCHANGED vars
  BY <1>1 DEF vars, zfs, SizeInv, Agrees, ClonesSized, Recorded, Knows, Cleared
<1>2. ASSUME NEW p \in Callers, Step(p) PROVE SizeInv'
  <2>0. /\ call[p] \in CallType /\ CallShape(call[p]) /\ Knows(call[p])
        /\ call[p].pc \in {"read", "ask", "recover"} => call[p].kind \in Sized
        /\ volsize \in Sizes /\ row \in Sizes \cup {None} /\ Agrees /\ ClonesSized
    BY StageOf DEF SizeInv, TypeInv, TypeOK, Sized
  <2>00. \A q \in Callers \ {p} : call'[q] = call[q]
    BY <1>2, StepOf
  <2>1. CASE Resize(p)
    <3>1. PICK n \in Sizes : Start(p, "resize", "read", n)
      BY <2>1 DEF Resize
    <3>2. n \in Nat
      OBVIOUS
    <3> QED
      BY <1>2, <3>1, <3>2, StartSizes
  <2>2. CASE Stat(p)
    BY <1>2, <2>2, StartSizes DEF Stat
  <2>3. CASE Clone(p)
    BY <1>2, <2>3, StartSizes DEF Clone
  <2>4. CASE Set(p)
    <3>1. PICK n \in Copies : Start(p, "set", "property", n)
      BY <2>4 DEF Set
    <3>2. n \in Nat
      OBVIOUS
    <3> QED
      BY <1>2, <3>1, <3>2, StartSizes
  <2>5. CASE Unset(p)
    BY <1>2, <2>5, StartSizes DEF Unset
  <2>6. CASE ReadRow(p)
    <3>1. Is(call'[p], call[p].kind, IF row = None THEN "ask" ELSE AfterRead[call[p].kind], call[p].arg, row, call[p].new, call[p].got, call[p].res)
      BY <2>6, NewCall
    <3>2. UNCHANGED <<row, volsize, clones>> /\ ("row" \in suspect => "row" \in suspect')
      BY <2>6 DEF ReadRow, zfs
    <3>3. Cleared(call[p]) => Cleared(call[p])'
      BY <2>0, <2>6, <3>1 DEF Is, ReadRow, Cleared, CallShape, Stage, CallType
    <3>4. Knows(call[p])'
      BY <2>0, <2>6, <3>1, <3>2 DEF Is, ReadRow, Knows, Cleared, CallShape, Stage, CallType, AfterRead, Sized, Agrees
    <3> QED
      BY <2>00, <3>2, <3>3, <3>4, SizesKept
  <2>7. CASE AskZfs(p)
    <3>1. Is(call'[p], call[p].kind, "recover", call[p].arg, volsize, call[p].new, call[p].got, call[p].res)
      BY <2>7, NewCall
    <3>2. UNCHANGED <<row, volsize, clones>> /\ ("row" \in suspect => "row" \in suspect')
      BY <2>7 DEF AskZfs, zfs
    <3>3. Cleared(call[p]) => Cleared(call[p])'
      BY <2>0, <2>7, <3>1 DEF Is, AskZfs, Cleared, CallShape, Stage, CallType
    <3>4. Knows(call[p])'
      BY <2>0, <2>7, <3>1, <3>2 DEF Is, AskZfs, Knows, Cleared, CallShape, Stage, CallType, Sized
    <3> QED
      BY <2>00, <3>2, <3>3, <3>4, SizesKept
  <2>8. CASE Recover(p)
    <3>1. Is(call'[p], call[p].kind, AfterRead[call[p].kind], call[p].arg, call[p].known, call[p].known, call[p].got, call[p].res)
      BY <2>8, NewCall
    <3>2. UNCHANGED <<row, volsize, clones>> /\ ("row" \in suspect => "row" \in suspect')
      BY <2>8 DEF Recover, zfs
    <3>3. Cleared(call[p]) => Cleared(call[p])'
      BY <2>0, <2>8, <3>1 DEF Is, Recover, Cleared, CallShape, Stage, CallType
    <3>4. Knows(call[p])'
      BY <2>0, <2>8, <3>1, <3>2 DEF Is, Recover, Knows, Cleared, CallShape, Stage, CallType, AfterRead, Sized
    <3> QED
      BY <2>00, <3>2, <3>3, <3>4, SizesKept
  <2>9. CASE Report(p)
    <3>1. call'[p] = NoCall
      BY <2>9, NewCall
    <3>2. call[p].kind \in Sized /\ (call[p].kind = "resize" \/ (volsize' = volsize /\ (row' = row \/ row' # None)))
      BY <2>0, <2>9 DEF Report, At, Record, Written, zfs, Sized
    <3>3. \A q \in Callers \ {p} : Knows(call[q])'
      BY <2>00, <3>2, OthersKnow
    <3>4. Knows(call[p])'
      BY <2>0, <2>9, <3>1 DEF Is, Report, At, Record, Written, Knows, Cleared, CallShape, Stage, CallType, zfs
    <3>5. Agrees' /\ ClonesSized'
      BY <2>0, <2>9 DEF Report, At, Record, Written, Agrees, ClonesSized, Knows, Cleared, zfs, CallShape, Stage, CallType
    <3>6. Recorded'
      BY <2>0, <2>9 DEF Report, At, Record, Written, Recorded, Knows
    <3> QED
      BY <3>3, <3>4, <3>5, <3>6 DEF SizeInv
  <2>10. CASE RejectShrink(p)
    <3>1. call'[p] = NoCall
      BY <2>10, NewCall
    <3>2. UNCHANGED <<row, volsize, clones>> /\ ("row" \in suspect => "row" \in suspect')
      BY <2>10 DEF RejectShrink, zfs
    <3>3. Cleared(call[p]) => Cleared(call[p])'
      BY <2>0, <2>10, <3>1 DEF Is, RejectShrink, At, Cleared, CallShape, Stage, CallType
    <3>4. Knows(call[p])'
      BY <2>0, <2>10, <3>1, <3>2 DEF Is, RejectShrink, At, Knows, Cleared, CallShape, Stage, CallType
    <3> QED
      BY <2>00, <3>2, <3>3, <3>4, SizesKept
  <2>11. CASE ClearSize(p)
    <3>1. Is(call'[p], call[p].kind, "grow", call[p].arg, call[p].known, None, call[p].got, call[p].res)
      BY <2>11, NewCall
    <3>2. call[p].kind \in Sized /\ (call[p].kind = "resize" \/ FALSE)
      BY <2>0, <2>11 DEF ClearSize, At, zfs, Sized
    <3>3. \A q \in Callers \ {p} : Knows(call[q])'
      BY <2>00, <3>2, OthersKnow
    <3>4. Knows(call[p])'
      BY <2>0, <2>11, <3>1 DEF Is, ClearSize, At, Knows, Cleared, CallShape, Stage, CallType, zfs
    <3>5. Agrees' /\ ClonesSized'
      BY <2>0, <2>11 DEF ClearSize, At, Agrees, ClonesSized, Knows, Cleared, zfs, CallShape, Stage, CallType
    <3>6. Recorded'
      BY <2>0, <2>11, <3>1 DEF Is, ClearSize, At, Recorded, Cleared, CallType
    <3> QED
      BY <3>3, <3>4, <3>5, <3>6 DEF SizeInv
  <2>12. CASE Grow(p)
    <3>1. Is(call'[p], call[p].kind, "measure", call[p].arg, call[p].known, call[p].new, call[p].got, call[p].res)
      BY <2>12, NewCall
    <3>2. call[p].kind \in Sized /\ (call[p].kind = "resize" \/ FALSE)
      BY <2>0, <2>12 DEF Grow, At, zfs, Sized
    <3>3. \A q \in Callers \ {p} : Knows(call[q])'
      BY <2>00, <3>2, OthersKnow
    <3>4. Knows(call[p])'
      BY <2>0, <2>12, <3>1 DEF Is, Grow, At, Knows, Cleared, CallShape, Stage, CallType, zfs
    <3>5. Agrees' /\ ClonesSized'
      BY <2>0, <2>12 DEF Grow, At, Agrees, ClonesSized, Knows, Cleared, zfs, CallShape, Stage, CallType
    <3>6. Recorded'
      BY <2>0, <2>12, <3>1 DEF Is, Grow, At, Recorded, Cleared, CallType
    <3> QED
      BY <3>3, <3>4, <3>5, <3>6 DEF SizeInv
  <2>13. CASE Measure(p)
    <3>1. Is(call'[p], call[p].kind, "update", call[p].arg, call[p].known, call[p].new, volsize, call[p].res)
      BY <2>13, NewCall
    <3>2. UNCHANGED <<row, volsize, clones>> /\ ("row" \in suspect => "row" \in suspect')
      BY <2>13 DEF Measure, zfs
    <3>3. Cleared(call[p]) => Cleared(call[p])'
      BY <2>0, <2>13, <3>1 DEF Is, Measure, At, Cleared, CallShape, Stage, CallType
    <3>4. Knows(call[p])'
      BY <2>0, <2>13, <3>1, <3>2 DEF Is, Measure, At, Knows, Cleared, CallShape, Stage, CallType
    <3> QED
      BY <2>00, <3>2, <3>3, <3>4, SizesKept
  <2>14. CASE UpdateSize(p)
    <3>1. Is(call'[p], call[p].kind, "sync", call[p].arg, call[p].known, call[p].got, call[p].got, call[p].res)
      BY <2>14, NewCall
    <3>2. UNCHANGED <<row, volsize, clones>> /\ ("row" \in suspect => "row" \in suspect')
      BY <2>14 DEF UpdateSize, zfs
    <3>3. Cleared(call[p]) => Cleared(call[p])'
      BY <2>0, <2>14, <3>1 DEF Is, UpdateSize, At, Cleared, CallShape, Stage, CallType
    <3>4. Knows(call[p])'
      BY <2>0, <2>14, <3>1, <3>2 DEF Is, UpdateSize, At, Knows, Cleared, CallShape, Stage, CallType
    <3> QED
      BY <2>00, <3>2, <3>3, <3>4, SizesKept
  <2>15. CASE CommitSize(p)
    <3>1. call'[p] = NoCall
      BY <2>15, NewCall
    <3>2. call[p].kind \in Sized /\ (call[p].kind = "resize" \/ FALSE)
      BY <2>0, <2>15 DEF CommitSize, At, Record, Written, zfs, Sized
    <3>3. \A q \in Callers \ {p} : Knows(call[q])'
      BY <2>00, <3>2, OthersKnow
    <3>4. Knows(call[p])'
      BY <2>0, <2>15, <3>1 DEF Is, CommitSize, At, Record, Written, Knows, Cleared, CallShape, Stage, CallType, zfs
    <3>5. Agrees' /\ ClonesSized'
      BY <2>0, <2>15 DEF CommitSize, At, Record, Written, Agrees, ClonesSized, Knows, Cleared, zfs, CallShape, Stage, CallType
    <3>6. Recorded'
      BY <2>0, <2>15 DEF CommitSize, At, Record, Written, Recorded, Knows
    <3> QED
      BY <3>3, <3>4, <3>5, <3>6 DEF SizeInv
  <2>16. CASE ReadReservation(p)
    <3>1. Is(call'[p], call[p].kind, "reserve", call[p].arg, call[p].known, call[p].new, call[p].got, IF refres > 0 THEN volsize * copies ELSE 0)
      BY <2>16, NewCall
    <3>2. UNCHANGED <<row, volsize, clones>> /\ ("row" \in suspect => "row" \in suspect')
      BY <2>16 DEF ReadReservation, zfs
    <3>3. Cleared(call[p]) => Cleared(call[p])'
      BY <2>0, <2>16, <3>1 DEF Is, ReadReservation, Cleared, CallShape, Stage, CallType
    <3>4. Knows(call[p])'
      BY <2>0, <2>16, <3>1, <3>2 DEF Is, ReadReservation, Knows, Cleared, CallShape, Stage, CallType
    <3> QED
      BY <2>00, <3>2, <3>3, <3>4, SizesKept
  <2>17. CASE Reserve(p)
    <3>1. Is(call'[p], call[p].kind, "commit", call[p].arg, call[p].known, call[p].new, call[p].got, call[p].res)
      BY <2>17, NewCall
    <3>2. UNCHANGED <<row, volsize, clones>> /\ ("row" \in suspect => "row" \in suspect')
      BY <2>17 DEF Reserve, zfs
    <3>3. Cleared(call[p]) => Cleared(call[p])'
      BY <2>0, <2>17, <3>1 DEF Is, Reserve, Cleared, CallShape, Stage, CallType
    <3>4. Knows(call[p])'
      BY <2>0, <2>17, <3>1, <3>2 DEF Is, Reserve, Knows, Cleared, CallShape, Stage, CallType
    <3> QED
      BY <2>00, <3>2, <3>3, <3>4, SizesKept
  <2>18. CASE MakeClone(p)
    <3>1. Is(call'[p], call[p].kind, "thick", call[p].arg, call[p].known, call[p].new, volsize, call[p].res)
      BY <2>18, NewCall
    <3>2. UNCHANGED <<row, volsize, clones>> /\ ("row" \in suspect => "row" \in suspect')
      BY <2>18 DEF MakeClone, zfs
    <3>3. Cleared(call[p]) => Cleared(call[p])'
      BY <2>0, <2>18, <3>1 DEF Is, MakeClone, At, Cleared, CallShape, Stage, CallType
    <3>4. Knows(call[p])'
      BY <2>0, <2>18, <3>1, <3>2 DEF Is, MakeClone, At, Knows, Cleared, CallShape, Stage, CallType
    <3> QED
      BY <2>00, <3>2, <3>3, <3>4, SizesKept
  <2>19. CASE Thicken(p)
    <3>1. Is(call'[p], call[p].kind, "commit", call[p].arg, call[p].known, call[p].new, call[p].got, IF refres > 0 THEN call[p].got * Inherited ELSE 0)
      BY <2>19, NewCall
    <3>2. UNCHANGED <<row, volsize, clones>> /\ ("row" \in suspect => "row" \in suspect')
      BY <2>19 DEF Thicken, zfs
    <3>3. Cleared(call[p]) => Cleared(call[p])'
      BY <2>0, <2>19, <3>1 DEF Is, Thicken, At, Cleared, CallShape, Stage, CallType
    <3>4. Knows(call[p])'
      BY <2>0, <2>19, <3>1, <3>2 DEF Is, Thicken, At, Knows, Cleared, CallShape, Stage, CallType
    <3> QED
      BY <2>00, <3>2, <3>3, <3>4, SizesKept
  <2>20. CASE CommitClone(p)
    <3>1. call'[p] = NoCall
      BY <2>20, NewCall
    <3>2. call[p].kind \in Sized /\ (call[p].kind = "resize" \/ (volsize' = volsize /\ (row' = row \/ row' # None)))
      BY <2>0, <2>20 DEF CommitClone, At, Record, Written, zfs, Sized
    <3>3. \A q \in Callers \ {p} : Knows(call[q])'
      BY <2>00, <3>2, OthersKnow
    <3>4. Knows(call[p])'
      BY <2>0, <2>20, <3>1 DEF Is, CommitClone, At, Record, Written, Knows, Cleared, CallShape, Stage, CallType, zfs
    <3>5. Agrees' /\ ClonesSized'
      BY <2>0, <2>20 DEF CommitClone, At, Record, Written, Agrees, ClonesSized, Knows, Cleared, zfs, CallShape, Stage, CallType
    <3>6. Recorded'
      BY <2>0, <2>20 DEF CommitClone, At, Record, Written, Recorded, Knows
    <3> QED
      BY <3>3, <3>4, <3>5, <3>6 DEF SizeInv
  <2>21. CASE SetProperty(p)
    <3>1. Is(call'[p], call[p].kind, "sync", call[p].arg, call[p].known, call[p].new, call[p].got, call[p].res)
      BY <2>21, NewCall
    <3>2. UNCHANGED <<row, volsize, clones>> /\ ("row" \in suspect => "row" \in suspect')
      BY <2>21 DEF SetProperty, zfs
    <3>3. Cleared(call[p]) => Cleared(call[p])'
      BY <2>0, <2>21, <3>1 DEF Is, SetProperty, Cleared, CallShape, Stage, CallType
    <3>4. Knows(call[p])'
      BY <2>0, <2>21, <3>1, <3>2 DEF Is, SetProperty, Knows, Cleared, CallShape, Stage, CallType
    <3> QED
      BY <2>00, <3>2, <3>3, <3>4, SizesKept
  <2>22. CASE CommitKey(p)
    <3>1. call'[p] = NoCall
      BY <2>22, NewCall
    <3>2. UNCHANGED <<row, volsize, clones>> /\ ("row" \in suspect => "row" \in suspect')
      BY <2>22 DEF CommitKey, zfs
    <3>3. Cleared(call[p]) => Cleared(call[p])'
      BY <2>0, <2>22, <3>1 DEF Is, CommitKey, Cleared, CallShape, Stage, CallType
    <3>4. Knows(call[p])'
      BY <2>0, <2>22, <3>1, <3>2 DEF Is, CommitKey, Knows, Cleared, CallShape, Stage, CallType
    <3> QED
      BY <2>00, <3>2, <3>3, <3>4, SizesKept
  <2>23. CASE Fail(p)
    <3>1. call'[p] = NoCall
      BY <2>23, NewCall
    <3>2. UNCHANGED <<row, volsize, clones>> /\ ("row" \in suspect => "row" \in suspect')
      BY <2>23 DEF Fail, HalfDone, zfs
    <3>3. Cleared(call[p]) => "row" \in suspect'
      BY <2>23 DEF Fail, HalfDone
    <3>4. Knows(call[p])'
      BY <2>0, <2>23, <3>1, <3>2 DEF Is, Fail, HalfDone, Knows, Cleared, CallShape, Stage, CallType
    <3> QED
      BY <2>00, <3>2, <3>3, <3>4, SizesKept
  <2> QED
    BY <1>2, <2>1, <2>2, <2>3, <2>4, <2>5, <2>6, <2>7, <2>8, <2>9, <2>10, <2>11, <2>12, <2>13, <2>14, <2>15, <2>16, <2>17, <2>18, <2>19, <2>20, <2>21, <2>22, <2>23 DEF Step
<1> QED
  BY <1>1, <1>2 DEF Next

LEMMA SizeInit == Init => SizeInv
  BY DEF Init, SizeInv, Agrees, ClonesSized, Recorded, Knows, Cleared

\* With no resize beside a call that reads sizes, SizeInv is an invariant.
LEMMA SizeInvariant == ASSUME SizesApart PROVE Spec => [](TypeInv /\ Admitted /\ SizeInv)
<1>1. TypeInv /\ Admitted /\ SizeInv /\ [Next]_vars => (TypeInv /\ Admitted /\ SizeInv)'
  BY TypeStep, AdmittedStep, SizeStep
<1> QED
  BY TypeInit, AdmittedInit, SizeInit, <1>1, PTL DEF Spec

-----------------------------------------------------------------------------
(* The reservation, when no two calls that move it overlap.                *)

Movers == {"resize", "set", "unset"}

\* What is to be reserved has been computed from what the zvol still has.
Computed(c) == c.pc = "reserve" => c.res = IF refres > 0 THEN volsize * copies ELSE 0

\* A reservation that does not fit is being adjusted, or was left so by a failure.
Fits == refres \in {0, volsize * copies} \/ "refres" \in suspect
        \/ \E p \in Callers : Unreserved(call[p])

ReserveInv == Fits /\ \A p \in Callers : Computed(call[p])

\* A step that leaves the zvol alone keeps ReserveInv.
LEMMA ReservationKept ==
  ASSUME TypeInv, Admitted, Apart(Movers), ReserveInv,
         NEW p \in Callers, \A q \in Callers \ {p} : call'[q] = call[q],
         UNCHANGED zfs \/ (call[p].kind \in Movers /\ Unreserved(call[p])'),
         "refres" \in suspect => "refres" \in suspect',
         Unreserved(call[p]) => Unreserved(call[p])' \/ "refres" \in suspect',
         Computed(call[p])'
  PROVE  ReserveInv'
<1>1. ASSUME NEW q \in Callers \ {p} PROVE Computed(call[q])'
  <2>1. call'[q] = call[q] /\ Computed(call[q]) /\ CallShape(call[q]) /\ call[q] \in CallType
    BY DEF ReserveInv, TypeInv, TypeOK, CallType
  <2>2. CASE UNCHANGED zfs
    BY <2>1, <2>2 DEF zfs, Computed
  <2>3. CASE call[p].kind \in Movers
    <3>1. call[q].kind \notin Movers
      BY <2>3, Alone DEF Movers
    <3> QED
      BY <2>1, <3>1 DEF Movers, CallType, CallShape, Stage, Computed
  <2> QED
    BY <2>2, <2>3
<1>2. Fits'
  <2>1. CASE Unreserved(call[p])'
    BY <2>1 DEF Fits
  <2>2. CASE "refres" \in suspect'
    BY <2>2 DEF Fits
  <2>3. CASE UNCHANGED zfs /\ ~Unreserved(call[p]) /\ "refres" \notin suspect
    <3>1. CASE refres \in {0, volsize * copies}
      BY <2>3, <3>1 DEF Fits, zfs
    <3>2. ASSUME NEW q \in Callers, Unreserved(call[q]) PROVE Fits'
      BY <2>3, <3>2 DEF Fits, Unreserved
    <3> QED
      BY <2>3, <3>1, <3>2 DEF ReserveInv, Fits
  <2> QED
    BY <2>1, <2>2, <2>3
<1> QED
  BY <1>1, <1>2 DEF ReserveInv

LEMMA StartReservation ==
  ASSUME TypeInv, Admitted, Apart(Movers), ReserveInv, NEW p \in Callers, Step(p),
         NEW kind \in Kinds, NEW pc \in {"read", "property"}, NEW arg \in Nat,
         Start(p, kind, pc, arg)
  PROVE  ReserveInv'
<1>1. Is(call'[p], kind, pc, arg, None, None, 0, 0)
  BY NewCall
<1>2. UNCHANGED <<zfs, suspect>> /\ call[p] = NoCall
  BY DEF Start
<1>3. Computed(call[p])' /\ ~Unreserved(call[p])
  BY <1>1, <1>2 DEF Is, Computed, Unreserved
<1>4. \A q \in Callers \ {p} : call'[q] = call[q]
  BY StepOf
<1> QED
  BY <1>2, <1>3, <1>4, ReservationKept

LEMMA ReserveStep ==
  ASSUME Apart(Movers) PROVE TypeInv /\ Admitted /\ ReserveInv /\ [Next]_vars => ReserveInv'
<1> SUFFICES ASSUME TypeInv, Admitted, ReserveInv, [Next]_vars PROVE ReserveInv'
  OBVIOUS
<1>1. CASE UNCHANGED vars
  BY <1>1 DEF vars, zfs, ReserveInv, Fits, Computed, Unreserved
<1>2. ASSUME NEW p \in Callers, Step(p) PROVE ReserveInv'
  <2>0. /\ call[p] \in CallType /\ CallShape(call[p]) /\ Computed(call[p])
        /\ call[p].pc \in {"read", "ask", "recover"} => call[p].kind \in {"resize", "stat", "clone"}
        /\ volsize \in Sizes /\ copies \in Copies /\ refres \in Nat
    BY StageOf DEF ReserveInv, TypeInv, TypeOK
  <2>00. \A q \in Callers \ {p} : call'[q] = call[q]
    BY <1>2, StepOf
  <2>1. CASE Resize(p)
    <3>1. PICK n \in Sizes : Start(p, "resize", "read", n)
      BY <2>1 DEF Resize
    <3>2. n \in Nat
      OBVIOUS
    <3> QED
      BY <1>2, <3>1, <3>2, StartReservation
  <2>2. CASE Stat(p)
    BY <1>2, <2>2, StartReservation DEF Stat
  <2>3. CASE Clone(p)
    BY <1>2, <2>3, StartReservation DEF Clone
  <2>4. CASE Set(p)
    <3>1. PICK n \in Copies : Start(p, "set", "property", n)
      BY <2>4 DEF Set
    <3>2. n \in Nat
      OBVIOUS
    <3> QED
      BY <1>2, <3>1, <3>2, StartReservation
  <2>5. CASE Unset(p)
    BY <1>2, <2>5, StartReservation DEF Unset
  <2>6. CASE ReadRow(p)
    <3>1. Is(call'[p], call[p].kind, IF row = None THEN "ask" ELSE AfterRead[call[p].kind], call[p].arg, row, call[p].new, call[p].got, call[p].res)
      BY <2>6, NewCall
    <3>2. UNCHANGED zfs /\ ("refres" \in suspect => "refres" \in suspect')
      BY <2>6 DEF ReadRow, zfs
    <3>3. Unreserved(call[p]) => Unreserved(call[p])'
      BY <2>0, <2>6, <3>1 DEF Is, ReadRow, Unreserved, CallShape, Stage, CallType
    <3>4. Computed(call[p])'
      BY <2>0, <2>6, <3>1 DEF Is, ReadRow, Computed, CallShape, Stage, CallType, AfterRead
    <3> QED
      BY <2>00, <3>2, <3>3, <3>4, ReservationKept
  <2>7. CASE AskZfs(p)
    <3>1. Is(call'[p], call[p].kind, "recover", call[p].arg, volsize, call[p].new, call[p].got, call[p].res)
      BY <2>7, NewCall
    <3>2. UNCHANGED zfs /\ ("refres" \in suspect => "refres" \in suspect')
      BY <2>7 DEF AskZfs, zfs
    <3>3. Unreserved(call[p]) => Unreserved(call[p])'
      BY <2>0, <2>7, <3>1 DEF Is, AskZfs, Unreserved, CallShape, Stage, CallType
    <3>4. Computed(call[p])'
      BY <2>0, <2>7, <3>1 DEF Is, AskZfs, Computed, CallShape, Stage, CallType
    <3> QED
      BY <2>00, <3>2, <3>3, <3>4, ReservationKept
  <2>8. CASE Recover(p)
    <3>1. Is(call'[p], call[p].kind, AfterRead[call[p].kind], call[p].arg, call[p].known, call[p].known, call[p].got, call[p].res)
      BY <2>8, NewCall
    <3>2. UNCHANGED zfs /\ ("refres" \in suspect => "refres" \in suspect')
      BY <2>8 DEF Recover, zfs
    <3>3. Unreserved(call[p]) => Unreserved(call[p])'
      BY <2>0, <2>8, <3>1 DEF Is, Recover, Unreserved, CallShape, Stage, CallType
    <3>4. Computed(call[p])'
      BY <2>0, <2>8, <3>1 DEF Is, Recover, Computed, CallShape, Stage, CallType, AfterRead
    <3> QED
      BY <2>00, <3>2, <3>3, <3>4, ReservationKept
  <2>9. CASE Report(p)
    <3>1. call'[p] = NoCall
      BY <2>9, NewCall
    <3>2. UNCHANGED zfs /\ ("refres" \in suspect => "refres" \in suspect')
      BY <2>9 DEF Report, Record, zfs
    <3>3. Unreserved(call[p]) => Unreserved(call[p])'
      BY <2>0, <2>9, <3>1 DEF Is, Report, At, Unreserved, CallShape, Stage, CallType
    <3>4. Computed(call[p])'
      BY <2>0, <2>9, <3>1 DEF Is, Report, At, Computed, CallShape, Stage, CallType
    <3> QED
      BY <2>00, <3>2, <3>3, <3>4, ReservationKept
  <2>10. CASE RejectShrink(p)
    <3>1. call'[p] = NoCall
      BY <2>10, NewCall
    <3>2. UNCHANGED zfs /\ ("refres" \in suspect => "refres" \in suspect')
      BY <2>10 DEF RejectShrink, zfs
    <3>3. Unreserved(call[p]) => Unreserved(call[p])'
      BY <2>0, <2>10, <3>1 DEF Is, RejectShrink, At, Unreserved, CallShape, Stage, CallType
    <3>4. Computed(call[p])'
      BY <2>0, <2>10, <3>1 DEF Is, RejectShrink, At, Computed, CallShape, Stage, CallType
    <3> QED
      BY <2>00, <3>2, <3>3, <3>4, ReservationKept
  <2>11. CASE ClearSize(p)
    <3>1. Is(call'[p], call[p].kind, "grow", call[p].arg, call[p].known, None, call[p].got, call[p].res)
      BY <2>11, NewCall
    <3>2. UNCHANGED zfs /\ ("refres" \in suspect => "refres" \in suspect')
      BY <2>11 DEF ClearSize, zfs
    <3>3. Unreserved(call[p]) => Unreserved(call[p])'
      BY <2>0, <2>11, <3>1 DEF Is, ClearSize, At, Unreserved, CallShape, Stage, CallType
    <3>4. Computed(call[p])'
      BY <2>0, <2>11, <3>1 DEF Is, ClearSize, At, Computed, CallShape, Stage, CallType
    <3> QED
      BY <2>00, <3>2, <3>3, <3>4, ReservationKept
  <2>12. CASE Grow(p)
    <3>1. Is(call'[p], call[p].kind, "measure", call[p].arg, call[p].known, call[p].new, call[p].got, call[p].res)
      BY <2>12, NewCall
    <3>2. call[p].kind \in Movers /\ Unreserved(call[p])' /\ UNCHANGED suspect
      BY <2>12, <3>1 DEF Grow, At, Is, Movers, Unreserved
    <3>3. Unreserved(call[p]) => Unreserved(call[p])'
      BY <2>0, <2>12, <3>1 DEF Is, Grow, At, Unreserved, CallShape, Stage, CallType
    <3>4. Computed(call[p])'
      BY <2>0, <2>12, <3>1 DEF Is, Grow, At, Computed, CallShape, Stage, CallType
    <3> QED
      BY <2>00, <3>2, <3>3, <3>4, ReservationKept
  <2>13. CASE Measure(p)
    <3>1. Is(call'[p], call[p].kind, "update", call[p].arg, call[p].known, call[p].new, volsize, call[p].res)
      BY <2>13, NewCall
    <3>2. UNCHANGED zfs /\ ("refres" \in suspect => "refres" \in suspect')
      BY <2>13 DEF Measure, zfs
    <3>3. Unreserved(call[p]) => Unreserved(call[p])'
      BY <2>0, <2>13, <3>1 DEF Is, Measure, At, Unreserved, CallShape, Stage, CallType
    <3>4. Computed(call[p])'
      BY <2>0, <2>13, <3>1 DEF Is, Measure, At, Computed, CallShape, Stage, CallType
    <3> QED
      BY <2>00, <3>2, <3>3, <3>4, ReservationKept
  <2>14. CASE UpdateSize(p)
    <3>1. Is(call'[p], call[p].kind, "sync", call[p].arg, call[p].known, call[p].got, call[p].got, call[p].res)
      BY <2>14, NewCall
    <3>2. UNCHANGED zfs /\ ("refres" \in suspect => "refres" \in suspect')
      BY <2>14 DEF UpdateSize, zfs
    <3>3. Unreserved(call[p]) => Unreserved(call[p])'
      BY <2>0, <2>14, <3>1 DEF Is, UpdateSize, At, Unreserved, CallShape, Stage, CallType
    <3>4. Computed(call[p])'
      BY <2>0, <2>14, <3>1 DEF Is, UpdateSize, At, Computed, CallShape, Stage, CallType
    <3> QED
      BY <2>00, <3>2, <3>3, <3>4, ReservationKept
  <2>15. CASE CommitSize(p)
    <3>1. call'[p] = NoCall
      BY <2>15, NewCall
    <3>2. UNCHANGED zfs /\ ("refres" \in suspect => "refres" \in suspect')
      BY <2>15 DEF CommitSize, Record, zfs
    <3>3. Unreserved(call[p]) => Unreserved(call[p])'
      BY <2>0, <2>15, <3>1 DEF Is, CommitSize, At, Unreserved, CallShape, Stage, CallType
    <3>4. Computed(call[p])'
      BY <2>0, <2>15, <3>1 DEF Is, CommitSize, At, Computed, CallShape, Stage, CallType
    <3> QED
      BY <2>00, <3>2, <3>3, <3>4, ReservationKept
  <2>16. CASE ReadReservation(p)
    <3>1. Is(call'[p], call[p].kind, "reserve", call[p].arg, call[p].known, call[p].new, call[p].got, IF refres > 0 THEN volsize * copies ELSE 0)
      BY <2>16, NewCall
    <3>2. UNCHANGED zfs /\ ("refres" \in suspect => "refres" \in suspect')
      BY <2>16 DEF ReadReservation, zfs
    <3>3. Unreserved(call[p]) => Unreserved(call[p])'
      BY <2>0, <2>16, <3>1 DEF Is, ReadReservation, Unreserved, CallShape, Stage, CallType
    <3>4. Computed(call[p])'
      BY <2>0, <2>16, <3>1 DEF Is, ReadReservation, Computed, CallShape, Stage, CallType, zfs
    <3> QED
      BY <2>00, <3>2, <3>3, <3>4, ReservationKept
  <2>17. CASE Reserve(p)
    <3>1. Is(call'[p], call[p].kind, "commit", call[p].arg, call[p].known, call[p].new, call[p].got, call[p].res)
      BY <2>17, NewCall
    <3>2. /\ call[p].pc = "reserve" /\ UNCHANGED <<volsize, copies>>
          /\ refres' = IF call[p].res > 0 THEN call[p].res ELSE refres
      BY <2>17 DEF Reserve
    <3>3. call[p].res = IF refres > 0 THEN volsize * copies ELSE 0
      BY <2>0, <3>2 DEF Computed
    <3>4. volsize * copies \in Nat /\ volsize * copies > 0
      BY <2>0, ReservationPositive
    <3> DEFINE v == volsize * copies
    <3>5. refres' \in {0, v}
      <4> HIDE DEF v
      <4>1. call[p].res = IF refres > 0 THEN v ELSE 0
        BY <3>3 DEF v
      <4>2. v > 0 /\ v \in Nat
        BY <3>4 DEF v
      <4> QED
        BY <2>0, <3>2, <4>1, <4>2
    <3>6. Fits'
      BY <3>2, <3>5 DEF Fits
    <3>7. \A q \in Callers \ {p} : Computed(call[q])'
      <4> SUFFICES ASSUME NEW q \in Callers \ {p} PROVE Computed(call[q])'
        OBVIOUS
      <4>1. call[p].kind \in Movers
        BY <2>0, <3>2 DEF CallShape, Stage, CallType, Movers
      <4>2. call[q].kind \notin Movers
        BY <4>1, Alone DEF Movers
      <4>3. CallShape(call[q]) /\ call[q] \in CallType
        BY DEF TypeInv, TypeOK, CallType
      <4> QED
        BY <2>00, <4>2, <4>3 DEF Movers, CallShape, Stage, CallType, Computed
    <3>8. Computed(call[p])'
      BY <3>1 DEF Is, Computed
    <3> QED
      BY <3>6, <3>7, <3>8 DEF ReserveInv
  <2>18. CASE MakeClone(p)
    <3>1. Is(call'[p], call[p].kind, "thick", call[p].arg, call[p].known, call[p].new, volsize, call[p].res)
      BY <2>18, NewCall
    <3>2. UNCHANGED zfs /\ ("refres" \in suspect => "refres" \in suspect')
      BY <2>18 DEF MakeClone, zfs
    <3>3. Unreserved(call[p]) => Unreserved(call[p])'
      BY <2>0, <2>18, <3>1 DEF Is, MakeClone, At, Unreserved, CallShape, Stage, CallType
    <3>4. Computed(call[p])'
      BY <2>0, <2>18, <3>1 DEF Is, MakeClone, At, Computed, CallShape, Stage, CallType
    <3> QED
      BY <2>00, <3>2, <3>3, <3>4, ReservationKept
  <2>19. CASE Thicken(p)
    <3>1. Is(call'[p], call[p].kind, "commit", call[p].arg, call[p].known, call[p].new, call[p].got, IF refres > 0 THEN call[p].got * Inherited ELSE 0)
      BY <2>19, NewCall
    <3>2. UNCHANGED zfs /\ ("refres" \in suspect => "refres" \in suspect')
      BY <2>19 DEF Thicken, zfs
    <3>3. Unreserved(call[p]) => Unreserved(call[p])'
      BY <2>0, <2>19, <3>1 DEF Is, Thicken, At, Unreserved, CallShape, Stage, CallType
    <3>4. Computed(call[p])'
      BY <2>0, <2>19, <3>1 DEF Is, Thicken, At, Computed, CallShape, Stage, CallType
    <3> QED
      BY <2>00, <3>2, <3>3, <3>4, ReservationKept
  <2>20. CASE CommitClone(p)
    <3>1. call'[p] = NoCall
      BY <2>20, NewCall
    <3>2. UNCHANGED zfs /\ ("refres" \in suspect => "refres" \in suspect')
      BY <2>20 DEF CommitClone, Record, zfs
    <3>3. Unreserved(call[p]) => Unreserved(call[p])'
      BY <2>0, <2>20, <3>1 DEF Is, CommitClone, At, Unreserved, CallShape, Stage, CallType
    <3>4. Computed(call[p])'
      BY <2>0, <2>20, <3>1 DEF Is, CommitClone, At, Computed, CallShape, Stage, CallType
    <3> QED
      BY <2>00, <3>2, <3>3, <3>4, ReservationKept
  <2>21. CASE SetProperty(p)
    <3>1. Is(call'[p], call[p].kind, "sync", call[p].arg, call[p].known, call[p].new, call[p].got, call[p].res)
      BY <2>21, NewCall
    <3>2. call[p].kind \in Movers /\ Unreserved(call[p])' /\ UNCHANGED suspect
      BY <2>21, <3>1 DEF SetProperty, Is, Movers, Unreserved
    <3>3. Unreserved(call[p]) => Unreserved(call[p])'
      BY <2>0, <2>21, <3>1 DEF Is, SetProperty, Unreserved, CallShape, Stage, CallType
    <3>4. Computed(call[p])'
      BY <2>0, <2>21, <3>1 DEF Is, SetProperty, Computed, CallShape, Stage, CallType
    <3> QED
      BY <2>00, <3>2, <3>3, <3>4, ReservationKept
  <2>22. CASE CommitKey(p)
    <3>1. call'[p] = NoCall
      BY <2>22, NewCall
    <3>2. UNCHANGED zfs /\ ("refres" \in suspect => "refres" \in suspect')
      BY <2>22 DEF CommitKey, zfs
    <3>3. Unreserved(call[p]) => Unreserved(call[p])'
      BY <2>0, <2>22, <3>1 DEF Is, CommitKey, Unreserved, CallShape, Stage, CallType
    <3>4. Computed(call[p])'
      BY <2>0, <2>22, <3>1 DEF Is, CommitKey, Computed, CallShape, Stage, CallType
    <3> QED
      BY <2>00, <3>2, <3>3, <3>4, ReservationKept
  <2>23. CASE Fail(p)
    <3>1. call'[p] = NoCall
      BY <2>23, NewCall
    <3>2. UNCHANGED zfs /\ ("refres" \in suspect => "refres" \in suspect')
      BY <2>23 DEF Fail, zfs
    <3>3. Unreserved(call[p]) => "refres" \in suspect'
      BY <2>23 DEF Fail, HalfDone
    <3>4. Computed(call[p])'
      BY <2>0, <2>23, <3>1 DEF Is, Fail, Computed, CallShape, Stage, CallType
    <3> QED
      BY <2>00, <3>2, <3>3, <3>4, ReservationKept
  <2> QED
    BY <1>2, <2>1, <2>2, <2>3, <2>4, <2>5, <2>6, <2>7, <2>8, <2>9, <2>10, <2>11, <2>12, <2>13, <2>14, <2>15, <2>16, <2>17, <2>18, <2>19, <2>20, <2>21, <2>22, <2>23 DEF Step
<1> QED
  BY <1>1, <1>2 DEF Next

LEMMA ReserveInit == Init => ReserveInv
  BY DEF Init, ReserveInv, Fits, Computed

-----------------------------------------------------------------------------
(* The custom key, when no two calls that set it overlap.                  *)

Setters == {"set", "unset"}

\* A key that does not say what the zvol has is about to be set, or was left
\* so by a failure.
Says == key \in {None, copies} \/ "key" \in suspect \/ \E p \in Callers : KeyBehind(call[p])

\* The key a call is about to store is what it gave the zvol.
Agreed(c) == KeyBehind(c) => c.arg = copies

KeyInv == Says /\ \A p \in Callers : Agreed(call[p])

LEMMA KeyUntouched ==
  ASSUME TypeInv, Admitted, Apart(Setters), KeyInv,
         NEW p \in Callers, \A q \in Callers \ {p} : call'[q] = call[q],
         UNCHANGED <<copies, key>> \/ call[p].kind \in Setters,
         Agreed(call[p])',
         \/ Says'
         \/ /\ UNCHANGED <<copies, key>>
            /\ "key" \in suspect => "key" \in suspect'
            /\ KeyBehind(call[p]) => KeyBehind(call[p])' \/ "key" \in suspect'
  PROVE  KeyInv'
<1>1. ASSUME NEW q \in Callers \ {p} PROVE Agreed(call[q])'
  <2>1. call'[q] = call[q] /\ Agreed(call[q])
    BY DEF KeyInv
  <2>2. CASE UNCHANGED <<copies, key>>
    BY <2>1, <2>2 DEF Agreed, KeyBehind
  <2>3. CASE call[p].kind \in Setters
    <3>1. call[q].kind \notin Setters
      BY <2>3, Alone DEF Setters
    <3> QED
      BY <2>1, <3>1 DEF Setters, Agreed, KeyBehind
  <2> QED
    BY <2>2, <2>3
<1>2. Says'
  <2>1. CASE Says'
    BY <2>1
  <2>2. CASE /\ UNCHANGED <<copies, key>>
             /\ "key" \in suspect => "key" \in suspect'
             /\ KeyBehind(call[p]) => KeyBehind(call[p])' \/ "key" \in suspect'
    <3>1. CASE key \in {None, copies} \/ "key" \in suspect
      BY <2>2, <3>1 DEF Says
    <3>2. ASSUME NEW q \in Callers, KeyBehind(call[q]) PROVE Says'
      <4>1. CASE q = p
        BY <2>2, <3>2, <4>1 DEF Says
      <4>2. CASE q # p
        BY <3>2, <4>2 DEF Says, KeyBehind
      <4> QED
        BY <4>1, <4>2
    <3> QED
      BY <3>1, <3>2 DEF KeyInv, Says
  <2> QED
    BY <2>1, <2>2
<1> QED
  BY <1>1, <1>2 DEF KeyInv

LEMMA StartKey ==
  ASSUME TypeInv, Admitted, Apart(Setters), KeyInv, NEW p \in Callers, Step(p),
         NEW kind \in Kinds, NEW pc \in {"read", "property"}, NEW arg \in Nat,
         Start(p, kind, pc, arg)
  PROVE  KeyInv'
<1>1. Is(call'[p], kind, pc, arg, None, None, 0, 0)
  BY NewCall
<1>2. UNCHANGED <<copies, key, suspect>> /\ call[p] = NoCall
  BY DEF Start, zfs
<1>3. Agreed(call[p])' /\ ~KeyBehind(call[p])
  BY <1>1, <1>2 DEF Is, Agreed, KeyBehind
<1>4. \A q \in Callers \ {p} : call'[q] = call[q]
  BY StepOf
<1> QED
  BY <1>2, <1>3, <1>4, KeyUntouched

LEMMA KeyStep ==
  ASSUME Apart(Setters) PROVE TypeInv /\ Admitted /\ KeyInv /\ [Next]_vars => KeyInv'
<1> SUFFICES ASSUME TypeInv, Admitted, KeyInv, [Next]_vars PROVE KeyInv'
  OBVIOUS
<1>1. CASE UNCHANGED vars
  BY <1>1 DEF vars, zfs, KeyInv, Says, Agreed, KeyBehind
<1>2. ASSUME NEW p \in Callers, Step(p) PROVE KeyInv'
  <2>0. /\ call[p] \in CallType /\ CallShape(call[p]) /\ Agreed(call[p])
        /\ call[p].pc \in {"read", "ask", "recover"} => call[p].kind \in {"resize", "stat", "clone"}
    BY StageOf DEF KeyInv
  <2>00. \A q \in Callers \ {p} : call'[q] = call[q]
    BY <1>2, StepOf
  <2>1. CASE Resize(p)
    <3>1. PICK n \in Sizes : Start(p, "resize", "read", n)
      BY <2>1 DEF Resize
    <3>2. n \in Nat
      OBVIOUS
    <3> QED
      BY <1>2, <3>1, <3>2, StartKey
  <2>2. CASE Stat(p)
    BY <1>2, <2>2, StartKey DEF Stat
  <2>3. CASE Clone(p)
    BY <1>2, <2>3, StartKey DEF Clone
  <2>4. CASE Set(p)
    <3>1. PICK n \in Copies : Start(p, "set", "property", n)
      BY <2>4 DEF Set
    <3>2. n \in Nat
      OBVIOUS
    <3> QED
      BY <1>2, <3>1, <3>2, StartKey
  <2>5. CASE Unset(p)
    BY <1>2, <2>5, StartKey DEF Unset
  <2>6. CASE ReadRow(p)
    <3>1. Is(call'[p], call[p].kind, IF row = None THEN "ask" ELSE AfterRead[call[p].kind], call[p].arg, row, call[p].new, call[p].got, call[p].res)
      BY <2>6, NewCall
    <3>2. UNCHANGED <<copies, key>> /\ ("key" \in suspect => "key" \in suspect')
      BY <2>6 DEF ReadRow, zfs
    <3>3. KeyBehind(call[p]) => KeyBehind(call[p])'
      BY <2>0, <2>6, <3>1 DEF Is, ReadRow, KeyBehind, CallShape, Stage, CallType
    <3>4. Agreed(call[p])'
      BY <2>0, <2>6, <3>1, <3>2 DEF Is, ReadRow, Agreed, KeyBehind, CallShape, Stage, CallType, AfterRead
    <3> QED
      BY <2>00, <3>2, <3>3, <3>4, KeyUntouched
  <2>7. CASE AskZfs(p)
    <3>1. Is(call'[p], call[p].kind, "recover", call[p].arg, volsize, call[p].new, call[p].got, call[p].res)
      BY <2>7, NewCall
    <3>2. UNCHANGED <<copies, key>> /\ ("key" \in suspect => "key" \in suspect')
      BY <2>7 DEF AskZfs, zfs
    <3>3. KeyBehind(call[p]) => KeyBehind(call[p])'
      BY <2>0, <2>7, <3>1 DEF Is, AskZfs, KeyBehind, CallShape, Stage, CallType
    <3>4. Agreed(call[p])'
      BY <2>0, <2>7, <3>1, <3>2 DEF Is, AskZfs, Agreed, KeyBehind, CallShape, Stage, CallType
    <3> QED
      BY <2>00, <3>2, <3>3, <3>4, KeyUntouched
  <2>8. CASE Recover(p)
    <3>1. Is(call'[p], call[p].kind, AfterRead[call[p].kind], call[p].arg, call[p].known, call[p].known, call[p].got, call[p].res)
      BY <2>8, NewCall
    <3>2. UNCHANGED <<copies, key>> /\ ("key" \in suspect => "key" \in suspect')
      BY <2>8 DEF Recover, zfs
    <3>3. KeyBehind(call[p]) => KeyBehind(call[p])'
      BY <2>0, <2>8, <3>1 DEF Is, Recover, KeyBehind, CallShape, Stage, CallType
    <3>4. Agreed(call[p])'
      BY <2>0, <2>8, <3>1, <3>2 DEF Is, Recover, Agreed, KeyBehind, CallShape, Stage, CallType, AfterRead
    <3> QED
      BY <2>00, <3>2, <3>3, <3>4, KeyUntouched
  <2>9. CASE Report(p)
    <3>1. call'[p] = NoCall
      BY <2>9, NewCall
    <3>2. UNCHANGED <<copies, key>> /\ ("key" \in suspect => "key" \in suspect')
      BY <2>9 DEF Report, Record, zfs
    <3>3. KeyBehind(call[p]) => KeyBehind(call[p])'
      BY <2>0, <2>9, <3>1 DEF Is, Report, At, KeyBehind, CallShape, Stage, CallType
    <3>4. Agreed(call[p])'
      BY <2>0, <2>9, <3>1, <3>2 DEF Is, Report, At, Agreed, KeyBehind, CallShape, Stage, CallType
    <3> QED
      BY <2>00, <3>2, <3>3, <3>4, KeyUntouched
  <2>10. CASE RejectShrink(p)
    <3>1. call'[p] = NoCall
      BY <2>10, NewCall
    <3>2. UNCHANGED <<copies, key>> /\ ("key" \in suspect => "key" \in suspect')
      BY <2>10 DEF RejectShrink, zfs
    <3>3. KeyBehind(call[p]) => KeyBehind(call[p])'
      BY <2>0, <2>10, <3>1 DEF Is, RejectShrink, At, KeyBehind, CallShape, Stage, CallType
    <3>4. Agreed(call[p])'
      BY <2>0, <2>10, <3>1, <3>2 DEF Is, RejectShrink, At, Agreed, KeyBehind, CallShape, Stage, CallType
    <3> QED
      BY <2>00, <3>2, <3>3, <3>4, KeyUntouched
  <2>11. CASE ClearSize(p)
    <3>1. Is(call'[p], call[p].kind, "grow", call[p].arg, call[p].known, None, call[p].got, call[p].res)
      BY <2>11, NewCall
    <3>2. UNCHANGED <<copies, key>> /\ ("key" \in suspect => "key" \in suspect')
      BY <2>11 DEF ClearSize, zfs
    <3>3. KeyBehind(call[p]) => KeyBehind(call[p])'
      BY <2>0, <2>11, <3>1 DEF Is, ClearSize, At, KeyBehind, CallShape, Stage, CallType
    <3>4. Agreed(call[p])'
      BY <2>0, <2>11, <3>1, <3>2 DEF Is, ClearSize, At, Agreed, KeyBehind, CallShape, Stage, CallType
    <3> QED
      BY <2>00, <3>2, <3>3, <3>4, KeyUntouched
  <2>12. CASE Grow(p)
    <3>1. Is(call'[p], call[p].kind, "measure", call[p].arg, call[p].known, call[p].new, call[p].got, call[p].res)
      BY <2>12, NewCall
    <3>2. UNCHANGED <<copies, key>> /\ ("key" \in suspect => "key" \in suspect')
      BY <2>12 DEF Grow, zfs
    <3>3. KeyBehind(call[p]) => KeyBehind(call[p])'
      BY <2>0, <2>12, <3>1 DEF Is, Grow, At, KeyBehind, CallShape, Stage, CallType
    <3>4. Agreed(call[p])'
      BY <2>0, <2>12, <3>1, <3>2 DEF Is, Grow, At, Agreed, KeyBehind, CallShape, Stage, CallType
    <3> QED
      BY <2>00, <3>2, <3>3, <3>4, KeyUntouched
  <2>13. CASE Measure(p)
    <3>1. Is(call'[p], call[p].kind, "update", call[p].arg, call[p].known, call[p].new, volsize, call[p].res)
      BY <2>13, NewCall
    <3>2. UNCHANGED <<copies, key>> /\ ("key" \in suspect => "key" \in suspect')
      BY <2>13 DEF Measure, zfs
    <3>3. KeyBehind(call[p]) => KeyBehind(call[p])'
      BY <2>0, <2>13, <3>1 DEF Is, Measure, At, KeyBehind, CallShape, Stage, CallType
    <3>4. Agreed(call[p])'
      BY <2>0, <2>13, <3>1, <3>2 DEF Is, Measure, At, Agreed, KeyBehind, CallShape, Stage, CallType
    <3> QED
      BY <2>00, <3>2, <3>3, <3>4, KeyUntouched
  <2>14. CASE UpdateSize(p)
    <3>1. Is(call'[p], call[p].kind, "sync", call[p].arg, call[p].known, call[p].got, call[p].got, call[p].res)
      BY <2>14, NewCall
    <3>2. UNCHANGED <<copies, key>> /\ ("key" \in suspect => "key" \in suspect')
      BY <2>14 DEF UpdateSize, zfs
    <3>3. KeyBehind(call[p]) => KeyBehind(call[p])'
      BY <2>0, <2>14, <3>1 DEF Is, UpdateSize, At, KeyBehind, CallShape, Stage, CallType
    <3>4. Agreed(call[p])'
      BY <2>0, <2>14, <3>1, <3>2 DEF Is, UpdateSize, At, Agreed, KeyBehind, CallShape, Stage, CallType
    <3> QED
      BY <2>00, <3>2, <3>3, <3>4, KeyUntouched
  <2>15. CASE CommitSize(p)
    <3>1. call'[p] = NoCall
      BY <2>15, NewCall
    <3>2. UNCHANGED <<copies, key>> /\ ("key" \in suspect => "key" \in suspect')
      BY <2>15 DEF CommitSize, Record, zfs
    <3>3. KeyBehind(call[p]) => KeyBehind(call[p])'
      BY <2>0, <2>15, <3>1 DEF Is, CommitSize, At, KeyBehind, CallShape, Stage, CallType
    <3>4. Agreed(call[p])'
      BY <2>0, <2>15, <3>1, <3>2 DEF Is, CommitSize, At, Agreed, KeyBehind, CallShape, Stage, CallType
    <3> QED
      BY <2>00, <3>2, <3>3, <3>4, KeyUntouched
  <2>16. CASE ReadReservation(p)
    <3>1. Is(call'[p], call[p].kind, "reserve", call[p].arg, call[p].known, call[p].new, call[p].got, IF refres > 0 THEN volsize * copies ELSE 0)
      BY <2>16, NewCall
    <3>2. UNCHANGED <<copies, key>> /\ ("key" \in suspect => "key" \in suspect')
      BY <2>16 DEF ReadReservation, zfs
    <3>3. KeyBehind(call[p]) => KeyBehind(call[p])'
      BY <2>0, <2>16, <3>1 DEF Is, ReadReservation, KeyBehind, CallShape, Stage, CallType
    <3>4. Agreed(call[p])'
      BY <2>0, <2>16, <3>1, <3>2 DEF Is, ReadReservation, Agreed, KeyBehind, CallShape, Stage, CallType
    <3> QED
      BY <2>00, <3>2, <3>3, <3>4, KeyUntouched
  <2>17. CASE Reserve(p)
    <3>1. Is(call'[p], call[p].kind, "commit", call[p].arg, call[p].known, call[p].new, call[p].got, call[p].res)
      BY <2>17, NewCall
    <3>2. UNCHANGED <<copies, key>> /\ ("key" \in suspect => "key" \in suspect')
      BY <2>17 DEF Reserve, zfs
    <3>3. KeyBehind(call[p]) => KeyBehind(call[p])'
      BY <2>0, <2>17, <3>1 DEF Is, Reserve, KeyBehind, CallShape, Stage, CallType
    <3>4. Agreed(call[p])'
      BY <2>0, <2>17, <3>1, <3>2 DEF Is, Reserve, Agreed, KeyBehind, CallShape, Stage, CallType
    <3> QED
      BY <2>00, <3>2, <3>3, <3>4, KeyUntouched
  <2>18. CASE MakeClone(p)
    <3>1. Is(call'[p], call[p].kind, "thick", call[p].arg, call[p].known, call[p].new, volsize, call[p].res)
      BY <2>18, NewCall
    <3>2. UNCHANGED <<copies, key>> /\ ("key" \in suspect => "key" \in suspect')
      BY <2>18 DEF MakeClone, zfs
    <3>3. KeyBehind(call[p]) => KeyBehind(call[p])'
      BY <2>0, <2>18, <3>1 DEF Is, MakeClone, At, KeyBehind, CallShape, Stage, CallType
    <3>4. Agreed(call[p])'
      BY <2>0, <2>18, <3>1, <3>2 DEF Is, MakeClone, At, Agreed, KeyBehind, CallShape, Stage, CallType
    <3> QED
      BY <2>00, <3>2, <3>3, <3>4, KeyUntouched
  <2>19. CASE Thicken(p)
    <3>1. Is(call'[p], call[p].kind, "commit", call[p].arg, call[p].known, call[p].new, call[p].got, IF refres > 0 THEN call[p].got * Inherited ELSE 0)
      BY <2>19, NewCall
    <3>2. UNCHANGED <<copies, key>> /\ ("key" \in suspect => "key" \in suspect')
      BY <2>19 DEF Thicken, zfs
    <3>3. KeyBehind(call[p]) => KeyBehind(call[p])'
      BY <2>0, <2>19, <3>1 DEF Is, Thicken, At, KeyBehind, CallShape, Stage, CallType
    <3>4. Agreed(call[p])'
      BY <2>0, <2>19, <3>1, <3>2 DEF Is, Thicken, At, Agreed, KeyBehind, CallShape, Stage, CallType
    <3> QED
      BY <2>00, <3>2, <3>3, <3>4, KeyUntouched
  <2>20. CASE CommitClone(p)
    <3>1. call'[p] = NoCall
      BY <2>20, NewCall
    <3>2. UNCHANGED <<copies, key>> /\ ("key" \in suspect => "key" \in suspect')
      BY <2>20 DEF CommitClone, Record, zfs
    <3>3. KeyBehind(call[p]) => KeyBehind(call[p])'
      BY <2>0, <2>20, <3>1 DEF Is, CommitClone, At, KeyBehind, CallShape, Stage, CallType
    <3>4. Agreed(call[p])'
      BY <2>0, <2>20, <3>1, <3>2 DEF Is, CommitClone, At, Agreed, KeyBehind, CallShape, Stage, CallType
    <3> QED
      BY <2>00, <3>2, <3>3, <3>4, KeyUntouched
  <2>21. CASE SetProperty(p)
    <3>1. Is(call'[p], call[p].kind, "sync", call[p].arg, call[p].known, call[p].new, call[p].got, call[p].res)
      BY <2>21, NewCall
    <3>2. call[p].kind \in Setters /\ Agreed(call[p])' /\ KeyBehind(call[p])'
      BY <2>21, <3>1 DEF SetProperty, Is, Setters, Agreed, KeyBehind
    <3>3. Says'
      BY <3>2 DEF Says
    <3> QED
      BY <2>00, <3>2, <3>3, KeyUntouched
  <2>22. CASE CommitKey(p)
    <3>1. call'[p] = NoCall
      BY <2>22, NewCall
    <3>2. call[p].kind \in Setters /\ Agreed(call[p])'
      BY <2>22, <3>1 DEF CommitKey, Setters, Agreed, KeyBehind
    <3>3. Says'
      BY <2>0, <2>22 DEF CommitKey, KeyOf, zfs, Says, Agreed, KeyBehind
    <3> QED
      BY <2>00, <3>2, <3>3, KeyUntouched
  <2>23. CASE Fail(p)
    <3>1. call'[p] = NoCall
      BY <2>23, NewCall
    <3>2. UNCHANGED <<copies, key>> /\ ("key" \in suspect => "key" \in suspect')
      BY <2>23 DEF Fail, zfs
    <3>3. KeyBehind(call[p]) => "key" \in suspect'
      BY <2>23 DEF Fail, HalfDone
    <3>4. Agreed(call[p])'
      BY <2>0, <2>23, <3>1, <3>2 DEF Is, Fail, Agreed, KeyBehind, CallShape, Stage, CallType
    <3> QED
      BY <2>00, <3>2, <3>3, <3>4, KeyUntouched
  <2> QED
    BY <1>2, <2>1, <2>2, <2>3, <2>4, <2>5, <2>6, <2>7, <2>8, <2>9, <2>10, <2>11, <2>12, <2>13, <2>14, <2>15, <2>16, <2>17, <2>18, <2>19, <2>20, <2>21, <2>22, <2>23 DEF Step
<1> QED
  BY <1>1, <1>2 DEF Next

LEMMA KeyInit == Init => KeyInv
  BY DEF Init, KeyInv, Says, Agreed, KeyBehind

-----------------------------------------------------------------------------
(* What follows.                                                           *)

\* Wherever calls fail or crash, and whatever sets properties meanwhile, a
\* vsize in the metabase is the zvol's size; the one Volume.resize clears is
\* back when the call has returned, and after one that failed when the next call
\* that reads it has (recover_vdi_vsize).
THEOREM RowsAgree == ASSUME SizesApart PROVE Spec => []RowAgrees
<1>1. SizeInv => RowAgrees
  BY DEF SizeInv, Agrees, RowAgrees, NoneIn, Recorded, Cleared
<1> QED
  BY SizeInvariant, <1>1, PTL

\* Wherever calls fail or crash, clones have the size they are registered with
\* (Volume.clone), and thick ones reserve it.
THEOREM ClonesAreSized == ASSUME SizesApart PROVE Spec => []ClonesSized
<1>1. SizeInv => ClonesSized
  BY DEF SizeInv
<1> QED
  BY SizeInvariant, <1>1, PTL

\* Wherever calls fail or crash, no resize makes the zvol smaller.
THEOREM ResizesNeverShrink == ASSUME SizesApart PROVE Spec => NeverShrinks
<1>1. TypeInv /\ SizeInv /\ [Next]_vars => [volsize' >= volsize]_vars
  <2> SUFFICES ASSUME TypeInv, SizeInv, NEW p \in Callers, Step(p) PROVE volsize' >= volsize
    BY DEF Next
  <2>1. CASE Grow(p)
    BY <2>1 DEF Grow, At, SizeInv, Knows
  <2>2. CASE ~Grow(p)
    <3>1. volsize' = volsize
      BY <2>2 DEF Step, Start, zfs, Resize, Stat, Clone, Set, Unset, ReadRow, AskZfs, Recover, Report, RejectShrink, ClearSize, Measure, UpdateSize, CommitSize, ReadReservation, Reserve, MakeClone, Thicken, CommitClone, SetProperty, CommitKey, Fail
    <3> QED BY <3>1 DEF TypeInv, TypeOK
  <2> QED BY <2>1, <2>2
<1> QED
  BY SizeInvariant, <1>1, PTL DEF Spec, NeverShrinks

\* As long as resize, set and unset exclude one another, a thick VDI reserves
\* all it needs whenever none of them runs; what one that failed left short is
\* made good by the next that comes as far (vol_sync_thick_refreservation).
THEOREM RestingVdi == ASSUME Apart(Movers) PROVE Spec => []Guaranteed
<1>1. TypeInv /\ Admitted /\ ReserveInv /\ [Next]_vars => (TypeInv /\ Admitted /\ ReserveInv)'
  BY TypeStep, AdmittedStep, ReserveStep
<1>2. TypeInv /\ ReserveInv => Guaranteed
  <2> SUFFICES ASSUME TypeInv, ReserveInv, NoneIn(Movers) PROVE \A p \in Callers : ~Unreserved(call[p])
    BY DEF ReserveInv, Fits, Guaranteed, Movers
  <2> SUFFICES ASSUME NEW p \in Callers PROVE ~Unreserved(call[p])
    OBVIOUS
  <2>1. CallShape(call[p]) /\ call[p] \in CallType /\ call[p].kind \notin Movers
    BY DEF TypeInv, TypeOK, CallType, NoneIn
  <2> QED
    BY <2>1 DEF CallShape, Stage, CallType, Movers, Unreserved
<1> QED
  BY TypeInit, AdmittedInit, ReserveInit, <1>1, <1>2, PTL DEF Spec

\* As long as set and unset exclude one another, the custom key says what the
\* zvol has whenever none of them runs, from the first on that returns after
\* one that failed in between.
THEOREM RestingKeys == ASSUME Apart(Setters) PROVE Spec => []KeysAgree
<1>1. TypeInv /\ Admitted /\ KeyInv /\ [Next]_vars => (TypeInv /\ Admitted /\ KeyInv)'
  BY TypeStep, AdmittedStep, KeyStep
<1>2. KeyInv => KeysAgree
  BY DEF KeyInv, Says, KeysAgree, NoneIn, KeyBehind
<1> QED
  BY TypeInit, AdmittedInit, KeyInit, <1>1, <1>2, PTL DEF Spec
=============================================================================
