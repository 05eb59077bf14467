----------------------------- MODULE SdkPromotion -----------------------------
(***************************************************************************)
(* Staging and promotion of an SDK: stage_provider_payload and             *)
(* promote_from_staging of sdk-intake/intake_workflow.py.  Staging builds  *)
(* a payload in the staged tree, patches it and gates it.  Promotion       *)
(* copies the staged tree beside the provider, renames the provider aside, *)
(* renames the copy into place, removes what was put aside.                *)
(*                                                                         *)
(* A rename happens or does not; building, copying and removing a tree may *)
(* stop half way.  A command may be interrupted before any statement       *)
(* (Ctrl-C), fail in one (OSError, a check that refuses), or be killed;    *)
(* the next one finds what is left.  Commands run one at a time.           *)
(*                                                                         *)
(* Promotion does not ask how staging ended: it hashes the archives of the *)
(* staged tree against the manifest in it, and nothing else.  A tree that  *)
(* passes is a payload; `validated' records whether its staging came to    *)
(* the end, which the code keeps nowhere.                                  *)
(***************************************************************************)
EXTENDS Naturals

CONSTANTS
  Versions,
  Absent,       \* no tree
  Partial,      \* some of a tree, copied or removed in part; as the staged
                \* tree, one whose archives and manifest do not agree
  MaxFailures   \* bound: interruptions and errors in one promotion

(* Trees whose archives agree with their manifest.  One that is not        *)
(* validated may lack headers, be unpatched or half patched, or hold what  *)
(* the gate would refuse.                                                  *)
Payloads == [version : Versions, validated : BOOLEAN]

ASSUME PromotionAssumption ==
  /\ Absent \notin Payloads /\ Partial \notin Payloads /\ Absent # Partial
  /\ MaxFailures \in Nat

VARIABLES
  provider, backup, tmp,   \* the trees: provider_root, .promote-backup, .promote-tmp
  staged,                  \* the staged tree
  pc,                      \* the statement the command comes to next, or "none"
  before, chosen,          \* history: provider and staged tree when the last
                           \* promotion began
  failures, killed         \* history: what has befallen that promotion

vars == <<provider, backup, tmp, staged, pc, before, chosen, failures, killed>>
trees == <<provider, backup, tmp, staged>>
run == <<before, chosen, failures, killed>>

Trees == Payloads \cup {Absent, Partial}
Staging == {"payload", "patches", "gate"}

PromotionInit ==
  /\ provider \in Payloads \cup {Absent} /\ backup = Absent /\ tmp = Absent
  /\ staged = Absent /\ pc = "none"
  /\ before = provider /\ chosen = provider /\ failures = 0 /\ killed = FALSE

-----------------------------------------------------------------------------
(* stage_provider_payload                                                  *)

StartStaging ==
  /\ pc = "none" /\ pc' = "payload"
  /\ UNCHANGED <<trees, run>>

(* The old tree is removed, the new one filled, its manifest copied last   *)
(* and compared with its archives.                                         *)
PromotePayload ==
  /\ pc = "payload" /\ pc' = "patches"
  /\ \E v \in Versions : staged' = [version |-> v, validated |-> FALSE]
  /\ UNCHANGED <<provider, backup, tmp, run>>

ApplyPatchQueue ==
  /\ pc = "patches" /\ pc' = "gate"
  /\ UNCHANGED <<trees, run>>

PassGate ==
  /\ pc = "gate" /\ pc' = "none"
  /\ staged' = [staged EXCEPT !.validated = TRUE]
  /\ UNCHANGED <<provider, backup, tmp, run>>

(* What a removal that stops, or cannot remove everything, and a filling   *)
(* that stops before the manifest, leave: the old archives and manifest    *)
(* may be the last to go.                                                  *)
Remains(tree) ==
  {tree, Absent, Partial}
    \cup {[p EXCEPT !.validated = FALSE] : p \in Payloads \cap {tree}}

(* Staging is refused, fails, is interrupted or killed.  What it has built *)
(* stays where it is, and nothing marks it.                                *)
StagingStops ==
  /\ pc \in Staging /\ pc' = "none"
  /\ staged' \in IF pc = "payload" THEN Remains(staged) ELSE {staged}
  /\ UNCHANGED <<provider, backup, tmp, run>>

-----------------------------------------------------------------------------
(* promote_from_staging                                                    *)

Unverified == staged # Absent     \* mutant

Verified == staged \in Payloads   \* verify_artifact_hashes

(* A leftover backup or a staged tree that does not verify is refused, and *)
(* nothing changes.                                                        *)
Begin ==
  /\ pc = "none" /\ backup = Absent /\ Verified
  /\ pc' = "clean"
  /\ before' = provider /\ chosen' = staged /\ failures' = 0 /\ killed' = FALSE
  /\ UNCHANGED trees

Clean ==
  /\ pc = "clean" /\ pc' = "copy"
  /\ tmp' = Absent
  /\ UNCHANGED <<provider, backup, staged, run>>

Copy ==
  /\ pc = "copy" /\ pc' = "swapOut"
  /\ tmp' = staged
  /\ UNCHANGED <<provider, backup, staged, run>>

SwapOut ==
  /\ pc = "swapOut" /\ pc' = "swapIn"
  /\ IF provider # Absent THEN backup' = provider /\ provider' = Absent
                          ELSE UNCHANGED <<provider, backup>>
  /\ UNCHANGED <<tmp, staged, run>>

SwapIn ==
  /\ pc = "swapIn" /\ pc' = "swapped"
  /\ provider' = tmp /\ tmp' = Absent
  /\ UNCHANGED <<backup, staged, run>>

LeaveTry ==
  /\ pc = "swapped" /\ pc' = "dropBackup"
  /\ UNCHANGED <<trees, run>>

DropBackup ==
  /\ pc = "dropBackup" /\ pc' = "dropTmp"
  /\ backup' = Absent
  /\ UNCHANGED <<provider, tmp, staged, run>>

CleansUpBackup == "dropBackup"    \* mutant

AfterExcept == "dropTmp"          \* `raise', through `finally'

Rollback ==
  /\ pc = "rollback" /\ pc' = AfterExcept
  /\ IF provider = Absent /\ backup # Absent
       THEN provider' = backup /\ backup' = Absent
       ELSE UNCHANGED <<provider, backup>>
  /\ UNCHANGED <<tmp, staged, run>>

DropTmp ==
  /\ pc = "dropTmp" /\ pc' = "none"
  /\ tmp' = Absent
  /\ UNCHANGED <<provider, backup, staged, run>>

-----------------------------------------------------------------------------
UncaughtInTry == "dropTmp"        \* mutant

InTry == "rollback"               \* except BaseException

(* Where an exception raised at a statement leads. *)
Handler(at) ==
  CASE at \in {"clean", "copy", "dropTmp"} -> "none"
    [] at \in {"swapOut", "swapIn", "swapped"} -> InTry
    [] at = "rollback" -> AfterExcept
    [] at = "dropBackup" -> "dropTmp"

(* What the statement may have done by then. *)
Halfway ==
  /\ tmp' \in IF pc \in {"clean", "dropTmp"} /\ tmp # Absent THEN {tmp, Partial}
              ELSE IF pc = "copy" THEN {tmp, Partial, staged} ELSE {tmp}
  /\ backup' \in IF pc = "dropBackup" /\ backup # Absent THEN {backup, Partial}
                 ELSE {backup}
  /\ UNCHANGED <<provider, staged>>

(* KeyboardInterrupt before the statement, or an OSError in it. *)
Exception ==
  /\ pc \notin {"none"} \cup Staging /\ failures < MaxFailures
  /\ Halfway
  /\ pc' = Handler(pc) /\ failures' = failures + 1
  /\ UNCHANGED <<before, chosen, killed>>

Killed ==
  /\ pc \notin {"none"} \cup Staging
  /\ Halfway
  /\ pc' = "none" /\ killed' = TRUE
  /\ UNCHANGED <<before, chosen, failures>>

(* The maintainer does what the refusal of a leftover backup asks for. *)
Resolve ==
  /\ pc = "none" /\ backup # Absent
  /\ backup' = Absent
  /\ provider' = IF provider = Absent THEN backup ELSE provider
  /\ UNCHANGED <<tmp, staged, pc, run>>

Stage ==
  \/ StartStaging \/ PromotePayload \/ ApplyPatchQueue \/ PassGate \/ StagingStops

Statement ==
  \/ Begin \/ Clean \/ Copy \/ SwapOut \/ SwapIn \/ LeaveTry
  \/ DropBackup \/ Rollback \/ DropTmp

Next == Statement \/ Exception \/ Killed \/ Resolve \/ Stage

PromotionSpec == PromotionInit /\ [][Next]_vars

-----------------------------------------------------------------------------
(* The provider is never a tree whose archives do not agree with their     *)
(* manifest, nor a copy that stopped half way, whatever a staging that     *)
(* stopped has left to be promoted (intake_workflow.py:1462-1475).         *)
TypeOK ==
  /\ provider \in Payloads \cup {Absent}
  /\ {before, chosen} \subseteq Payloads \cup {Absent}
  /\ {backup, tmp, staged} \subseteq Trees
  /\ failures \in 0..MaxFailures /\ killed \in BOOLEAN
  /\ pc \in {"none", "clean", "copy", "swapOut", "swapIn", "swapped", "rollback",
             "dropBackup", "dropTmp"} \cup Staging

(* The swap is atomic: the provider is all of what it was or all of what   *)
(* the last promotion chose, or it is missing and what it was is put       *)
(* aside, whatever interrupts, fails or kills any number of promotions and *)
(* stagings.  No backup is removed that is still needed, and what an       *)
(* earlier command left is never taken for a tree                          *)
(* (intake_workflow.py:1438-1488).                                         *)
ProviderRecoverable ==
  \/ provider # Absent /\ provider \in {before, chosen}
  \/ provider = Absent /\ backup = before

(* One Ctrl-C or one error never leaves the provider tree missing          *)
(* (intake_workflow.py:1477-1479).                                         *)
OneFailureNeverMissing ==
  pc = "none" /\ failures <= 1 /\ ~killed /\ before # Absent => provider # Absent
=============================================================================
