----------------------------- MODULE RunContract -----------------------------
(***************************************************************************)
(* What a run promises its user, with no node, ladder or breaker in it.    *)
(*                                                                         *)
(* The run completes plan tasks one at a time and never takes one back.    *)
(* The reviewer may return it a bounded number of times, and a returned    *)
(* run has to complete at least one more task before it can be approved.   *)
(* It ends approved, escalated, or raised out of the program.              *)
(***************************************************************************)
EXTENDS Integers, Sequences

CONSTANTS
  Tasks,               \* plan task descriptions
  MaxRejectionsPerRun  \* returns the reviewer is allowed

VARIABLES
  completed,  \* the tasks committed so far, in order
  returns,    \* how often the reviewer returned the run
  floor,      \* completed tasks when the reviewer last returned it
  outcome     \* "running", "approved", "escalated" or "raised"

contractVars == <<completed, returns, floor, outcome>>

ContractInit ==
  /\ completed = <<>>
  /\ returns = 0
  /\ floor = 0
  /\ outcome = "running"

CompleteTask ==
  /\ outcome = "running"
  /\ \E task \in Tasks : completed' = Append(completed, task)
  /\ UNCHANGED <<returns, floor, outcome>>

ReturnRun ==
  /\ outcome = "running"
  /\ Len(completed) > floor
  /\ returns < MaxRejectionsPerRun
  /\ returns' = returns + 1
  /\ floor' = Len(completed)
  /\ UNCHANGED <<completed, outcome>>

Approve ==
  /\ outcome = "running"
  /\ Len(completed) > floor
  /\ outcome' = "approved"
  /\ UNCHANGED <<completed, returns, floor>>

GiveUp ==
  /\ outcome = "running"
  /\ outcome' \in {"escalated", "raised"}
  /\ UNCHANGED <<completed, returns, floor>>

ContractNext == CompleteTask \/ ReturnRun \/ Approve \/ GiveUp

ContractSteps == ContractInit /\ [][ContractNext]_contractVars

ContractSpec == ContractSteps /\ <>(outcome # "running")
=============================================================================
