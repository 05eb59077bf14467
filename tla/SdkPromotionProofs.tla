--------------------------- MODULE SdkPromotionProofs ---------------------------
(* The invariants of SdkPromotion, for any set of versions and any number  *)
(* of stagings, promotions, interruptions, errors and kills.               *)
EXTENDS SdkPromotion, TLAPS

(* What holds at each statement of a command. *)
Untouched ==
  provider = before /\ backup = Absent /\ staged = chosen /\ chosen \in Payloads

Whole == failures <= 1 /\ before # Absent => provider # Absent

AtStatement ==
  /\ pc \in {"clean", "copy", "swapOut"} => Untouched
  /\ pc \in {"swapOut", "swapIn"} => tmp = chosen /\ chosen \in Payloads
  /\ pc = "swapIn" => provider = Absent /\ backup = before
  /\ pc \in {"swapped", "dropBackup"} => provider # Absent
  /\ pc = "rollback" => failures >= 1
  /\ pc = "dropTmp" => Whole
  /\ pc \in {"none"} \cup Staging /\ ~killed => Whole
  /\ pc \in {"patches", "gate"} => staged \in Payloads

IInv == TypeOK /\ ProviderRecoverable /\ AtStatement

USE PromotionAssumption

LEMMA InitIInv == PromotionInit => IInv
<1> SUFFICES ASSUME PromotionInit PROVE IInv
  OBVIOUS
<1>1. failures \in 0..MaxFailures
  BY DEF PromotionInit
<1>2. killed \in BOOLEAN
  BY DEF PromotionInit
<1> QED
  BY <1>1, <1>2 DEF PromotionInit, IInv, TypeOK, ProviderRecoverable, AtStatement, Untouched,
              Whole, Trees, Staging

LEMMA StatementIInv == IInv /\ Statement => IInv'
<1> SUFFICES ASSUME IInv, Statement PROVE IInv'
  OBVIOUS
<1> USE DEF IInv, TypeOK, ProviderRecoverable, AtStatement, Untouched, Whole, Trees,
            Staging, trees, run
<1>1. CASE Begin
  <2>1. failures' \in 0..MaxFailures
    BY <1>1 DEF Begin
  <2>2. killed' \in BOOLEAN
    BY <1>1 DEF Begin
  <2> QED
    BY <1>1, <2>1, <2>2 DEF Begin, Verified
<1>2. CASE Clean
  BY <1>2 DEF Clean
<1>3. CASE Copy
  BY <1>3 DEF Copy
<1>4. CASE SwapOut
  BY <1>4 DEF SwapOut
<1>5. CASE SwapIn
  BY <1>5 DEF SwapIn
<1>6. CASE LeaveTry
  BY <1>6 DEF LeaveTry
<1>7. CASE DropBackup
  BY <1>7 DEF DropBackup
<1>8. CASE Rollback
  BY <1>8 DEF Rollback, AfterExcept
<1>9. CASE DropTmp
  BY <1>9 DEF DropTmp
<1> QED
  BY <1>1, <1>2, <1>3, <1>4, <1>5, <1>6, <1>7, <1>8, <1>9 DEF Statement

(* An exception or a kill in mid-statement, one case per place it strikes. *)
LEMMA MishapIInv == IInv /\ (Exception \/ Killed) => IInv'
<1> SUFFICES ASSUME IInv, Exception \/ Killed PROVE IInv'
  OBVIOUS
<1> USE DEF IInv, TypeOK, ProviderRecoverable, AtStatement, Untouched, Whole, Trees,
            Staging
<1>1. CASE Exception
  <2>1. CASE pc \in {"clean", "copy"}
    BY <1>1, <2>1 DEF Exception, Halfway, Handler
  <2>2. CASE pc \in {"swapOut", "swapIn", "swapped"}
    BY <1>1, <2>2 DEF Exception, Halfway, Handler, InTry
  <2>3. CASE pc \in {"rollback", "dropBackup"}
    BY <1>1, <2>3 DEF Exception, Halfway, Handler, AfterExcept
  <2>4. CASE pc = "dropTmp"
    BY <1>1, <2>4 DEF Exception, Halfway, Handler
  <2> QED
    BY <1>1, <2>1, <2>2, <2>3, <2>4 DEF Exception
<1>2. CASE Killed
  BY <1>2 DEF Killed, Halfway
<1> QED
  BY <1>1, <1>2

(* Staging changes the staged tree only, and never while it is promoted. *)
LEMMA StageIInv == IInv /\ Stage => IInv'
<1> SUFFICES ASSUME IInv, Stage PROVE IInv'
  OBVIOUS
<1> USE DEF IInv, TypeOK, ProviderRecoverable, AtStatement, Untouched, Whole, Trees,
            Staging, trees, run
<1>1. CASE StartStaging
  BY <1>1 DEF StartStaging
<1>2. CASE PromotePayload
  <2>1. staged' \in Payloads
    BY <1>2 DEF PromotePayload, Payloads
  <2> QED
    BY <1>2, <2>1 DEF PromotePayload
<1>3. CASE ApplyPatchQueue
  BY <1>3 DEF ApplyPatchQueue
<1>4. CASE PassGate
  <2>1. staged' \in Payloads
    BY <1>4 DEF PassGate, Payloads
  <2> QED
    BY <1>4, <2>1 DEF PassGate
<1>5. CASE StagingStops
  <2>1. ASSUME NEW p \in Payloads PROVE [p EXCEPT !.validated = FALSE] \in Payloads
    BY DEF Payloads
  <2>2. Remains(staged) \subseteq Trees
    BY <2>1 DEF Remains
  <2>3. staged' \in Trees
    BY <1>5, <2>2 DEF StagingStops
  <2> QED
    BY <1>5, <2>3 DEF StagingStops
<1> QED
  BY <1>1, <1>2, <1>3, <1>4, <1>5 DEF Stage

LEMMA NextIInv == IInv /\ [Next]_vars => IInv'
<1> SUFFICES ASSUME IInv, [Next]_vars PROVE IInv'
  OBVIOUS
<1>1. CASE Statement
  BY <1>1, StatementIInv
<1>2. CASE Exception \/ Killed
  BY <1>2, MishapIInv
<1>3. CASE Resolve
  BY <1>3 DEF Resolve, IInv, TypeOK, ProviderRecoverable, AtStatement, Untouched, Whole,
              Trees, Staging, run
<1>4. CASE Stage
  BY <1>4, StageIInv
<1>5. CASE UNCHANGED vars
  BY <1>5 DEF vars, IInv, TypeOK, ProviderRecoverable, AtStatement, Untouched, Whole,
              Trees, Staging
<1> QED
  BY <1>1, <1>2, <1>3, <1>4, <1>5 DEF Next

THEOREM Inductive == PromotionSpec => []IInv
  BY InitIInv, NextIInv, PTL DEF PromotionSpec

(* The provider is never a tree whose archives do not agree with their     *)
(* manifest, nor a copy that stopped half way, in every state of every     *)
(* sequence of stagings and promotions (intake_workflow.py:1462-1475).     *)
THEOREM TypeCorrect == PromotionSpec => []TypeOK
<1>1. IInv => TypeOK
  BY DEF IInv
<1> QED
  BY <1>1, Inductive, PTL

(* The provider is all of what it was or all of what was chosen, or what   *)
(* it was is put aside, in every state of every sequence of stagings and   *)
(* promotions (intake_workflow.py:1438-1488).                              *)
THEOREM Recoverable == PromotionSpec => []ProviderRecoverable
<1>1. IInv => ProviderRecoverable
  BY DEF IInv
<1> QED
  BY <1>1, Inductive, PTL

(* One failure leaves the provider tree in place (intake_workflow.py:1477- *)
(* 1479).                                                                  *)
THEOREM NeverMissing == PromotionSpec => []OneFailureNeverMissing
<1>1. IInv => OneFailureNeverMissing
  BY DEF IInv, AtStatement, Whole, OneFailureNeverMissing
<1> QED
  BY <1>1, Inductive, PTL
=============================================================================
