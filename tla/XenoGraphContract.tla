-------------------------- MODULE XenoGraphContract --------------------------
(***************************************************************************)
(* XenoGraph implements RunContract.  The history variable `returned_at`   *)
(* remembers the cursor at which Cerberus last returned the run; it        *)
(* constrains nothing.                                                     *)
(***************************************************************************)
EXTENDS XenoGraphProperties

VARIABLE returned_at

historyVars == <<vars, returned_at>>

RememberReturn ==
  returned_at' = IF reject_count' > reject_count THEN task_cursor
                                                 ELSE returned_at

HistoryInit == Init /\ returned_at = 0
HistoryNext == Next /\ RememberReturn
HistorySpec ==
  HistoryInit /\ [][HistoryNext]_historyVars /\ WF_historyVars(HistoryNext)

Outcome ==
  IF pc = "END" THEN IF review_verdict = "approve" THEN "approved"
                                                    ELSE "escalated"
  ELSE IF pc = "raised" THEN "raised" ELSE "running"

CompletedTasks == [i \in 1..Len(checkpoints) |-> checkpoints[i].task]

Contract == INSTANCE RunContract WITH
  completed <- CompletedTasks,
  returns <- reject_count,
  floor <- returned_at,
  outcome <- Outcome

(* The graph keeps the run's contract: completed tasks are never taken     *)
(* back, returns are within budget and always answered by another green    *)
(* task before the run can be approved or returned again, and it ends.     *)
ImplementsContract == Contract!ContractSpec
=============================================================================
