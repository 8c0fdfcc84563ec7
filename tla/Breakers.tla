------------------------------ MODULE Breakers ------------------------------
(***************************************************************************)
(* The decision rules of the circuit breakers (core/breakers.py) and of    *)
(* the escalation ladder's budgets (core/types.py), as operators over the  *)
(* values they read.  Everything here is a pure function: the module that  *)
(* owns the state, XenoGraph, decides when each rule is applied.           *)
(***************************************************************************)
EXTENDS Integers, Sequences

CONSTANTS
  RungBudgets,          \* RUNG_BUDGETS: attempts allowed at each rung 0..4
  MaxIterationsPerTask, \* limits.max_iterations_per_task (CB-1)
  MaxIterationsPerRun,  \* limits.max_iterations_per_run (CB-1)
  None                  \* Python's None

Rungs == 0..4

ASSUME BudgetAssumption == RungBudgets \in [Rungs -> Nat \ {0}]

ASSUME CapAssumption ==
  /\ MaxIterationsPerTask \in Nat \ {0}
  /\ MaxIterationsPerRun \in Nat \ {0}

SIGNATURE_STREAK_LIMIT == 3
DIFF_HISTORY_WINDOW == 10

-----------------------------------------------------------------------------
(* CB-1.  iteration_count is compared with its cap and with nothing else,  *)
(* so it is kept saturated at the cap.                                     *)

Bump(count, calls) ==
  IF count + calls >= MaxIterationsPerRun THEN MaxIterationsPerRun
                                          ELSE count + calls

IterationCapHit(this_task, this_run) ==
  \/ this_task >= MaxIterationsPerTask
  \/ this_run >= MaxIterationsPerRun

-----------------------------------------------------------------------------
(* CB-5.  A rolling window of the hashes of the diffs the models wrote.    *)

RecordDiff(history, diff) ==
  LET first == IF Len(history) < DIFF_HISTORY_WINDOW
               THEN 1 ELSE Len(history) - DIFF_HISTORY_WINDOW + 2
  IN  Append(SubSeq(history, first, Len(history)), diff)

\* Only the previous diff is compared: an oscillation A, B, A goes unseen.
Mutant_DiffThrash(history) ==
  Len(history) >= 2 /\ history[Len(history) - 1] = history[Len(history)]

DiffThrash(history) ==
  \E i \in 1..Len(history) - 1 : history[i] = history[Len(history)]

-----------------------------------------------------------------------------
(* CB-4.  The first failure of a task is a baseline; the streak grows only *)
(* when the same signature survives a model-authored change.               *)

StreakAfter(previous, streak, signature, intervention) ==
  IF previous # signature THEN 0
  ELSE IF intervention # "model_authored" THEN streak
  ELSE streak + 1

NoProgress(previous, streak, signature, intervention) ==
  /\ previous = signature
  /\ intervention = "model_authored"
  /\ streak + 1 >= SIGNATURE_STREAK_LIMIT

-----------------------------------------------------------------------------
(* The write attempts a task may have made once its ladder stands at       *)
(* attempt `attempts` of rung `rung`: one Daedalus write before any        *)
(* failure, then one write per attempt at rungs 1 to 4 (rung 0 only        *)
(* re-runs the evaluation).                                                *)

WritesBelow(rung) ==
  CASE rung = 1 -> 0
    [] rung = 2 -> RungBudgets[1]
    [] rung = 3 -> RungBudgets[1] + RungBudgets[2]
    [] rung = 4 -> RungBudgets[1] + RungBudgets[2] + RungBudgets[3]

LadderWrites(rung, attempts) ==
  IF rung = 0 THEN 1 ELSE 1 + WritesBelow(rung) + attempts
=============================================================================
