---------------------------- MODULE XenoRun_proofs ----------------------------
(***************************************************************************)
(* Proofs about the graph and the run it controls, for every value of the  *)
(* constants, in four parts.                                               *)
(*                                                                         *)
(* 1. XenoGraph's type correctness and safety.  The inductive invariant is *)
(*    built in layers, each using the ones before it: Control (types,      *)
(*    plan, checkpoints, halting), Worktree (what is on disk when each     *)
(*    node runs) and Ladder (the counters the breakers read).              *)
(* 2. Every step of the graph is a step of RunContract or leaves the       *)
(*    contract's variables alone.  The contract's liveness half is left to *)
(*    TLC.                                                                 *)
(* 3. A run of the graph over real files and commits moves them only as    *)
(*    Worktree's specification allows, and what the graph keeps of the     *)
(*    files is true.                                                       *)
(* 4. So Worktree's theorems are theorems about the run: what is squashed  *)
(*    is what was reviewed and evaluated.                                  *)
(***************************************************************************)
EXTENDS XenoRunProperties, XenoGraphContract, SequenceTheorems, TLAPS

-----------------------------------------------------------------------------
(***************************************************************************)
(* Part 1: XenoGraph.                                                      *)
(***************************************************************************)

-----------------------------------------------------------------------------
(* Sequences.                                                              *)

\* A plan answer is a non-empty sequence of tasks.
LEMMA PlanAnswer ==
  ASSUME NEW answer \in Plans
  PROVE  answer \in Seq(Tasks) /\ Len(answer) >= 1
BY SeqDef, GraphAssumption DEF Plans

\* Appending keeps the elements and adds one.
LEMMA AppendFacts ==
  ASSUME NEW S, NEW s \in Seq(S), NEW e \in S
  PROVE  /\ Append(s, e) \in Seq(S)
         /\ Len(Append(s, e)) = Len(s) + 1
         /\ \A i \in 1..Len(s) : Append(s, e)[i] = s[i]
         /\ Append(s, e)[Len(s) + 1] = e
OBVIOUS

\* The window of CB-5: the entries before from `first` on, then the diff.
Windowed(diffs, diff, kept, first) ==
  /\ RecordDiff(diffs, diff) = Append(kept, diff)
  /\ first <= Len(diffs) + 1
  /\ first = IF Len(diffs) < DIFF_HISTORY_WINDOW
             THEN 1 ELSE Len(diffs) - DIFF_HISTORY_WINDOW + 2
  /\ Len(kept) = Len(diffs) - first + 1
  /\ \A i \in 1..Len(kept) : kept[i] = diffs[first + i - 1]

\* record_diff keeps a window of the earlier diffs and appends the new one.
LEMMA RecordDiffWindow ==
  ASSUME NEW S, NEW diffs \in Seq(S), NEW diff \in S
  PROVE  \E kept \in Seq(S), first \in Nat \ {0} : Windowed(diffs, diff, kept, first)
<1> DEFINE first == IF Len(diffs) < DIFF_HISTORY_WINDOW
                    THEN 1 ELSE Len(diffs) - DIFF_HISTORY_WINDOW + 2
           kept == SubSeq(diffs, first, Len(diffs))
<1>1. Len(diffs) \in Nat /\ first \in 1..Len(diffs) + 1
  BY DEF DIFF_HISTORY_WINDOW
<1>2. \A i \in first..Len(diffs) : diffs[i] \in S
  BY <1>1
<1>3. /\ kept \in Seq(S)
      /\ Len(kept) = IF first <= Len(diffs) THEN Len(diffs) - first + 1 ELSE 0
      /\ \A i \in 1..Len(diffs) - first + 1 : kept[i] = diffs[first + i - 1]
  <2> HIDE DEF first
  <2> QED BY <1>1, <1>2, SubSeqProperties
<1>4. RecordDiff(diffs, diff) = Append(kept, diff)
  BY DEF RecordDiff
<1>5. Len(kept) = Len(diffs) - first + 1
  <2> HIDE DEF kept, first
  <2> QED BY <1>1, <1>3
<1>6. kept \in Seq(S) /\ first \in Nat \ {0}
  BY <1>1, <1>3
<1>7. first = IF Len(diffs) < DIFF_HISTORY_WINDOW
              THEN 1 ELSE Len(diffs) - DIFF_HISTORY_WINDOW + 2
  OBVIOUS
<1> HIDE DEF kept, first
<1>8. \A i \in 1..Len(kept) : kept[i] = diffs[first + i - 1]
  BY <1>3, <1>5
<1>9. first <= Len(diffs) + 1
  BY <1>1
<1>10. Windowed(diffs, diff, kept, first)
  BY ONLY <1>4, <1>5, <1>7, <1>8, <1>9, Zenon DEF Windowed
<1>11. QED
  BY <1>6, <1>10

\* The new diff comes last, in a window one longer until it is full.
LEMMA RecordDiffFacts ==
  ASSUME NEW S, NEW diffs \in Seq(S), NEW diff \in S
  PROVE  /\ RecordDiff(diffs, diff) \in Seq(S)
         /\ Len(RecordDiff(diffs, diff)) \in Nat
         /\ RecordDiff(diffs, diff)[Len(RecordDiff(diffs, diff))] = diff
         /\ Len(RecordDiff(diffs, diff)) =
              IF Len(diffs) < DIFF_HISTORY_WINDOW THEN Len(diffs) + 1
                                                    ELSE DIFF_HISTORY_WINDOW
<1>1. PICK kept \in Seq(S), first \in Nat \ {0} : Windowed(diffs, diff, kept, first)
  BY RecordDiffWindow
<1>2. /\ Append(kept, diff) \in Seq(S)
      /\ Len(Append(kept, diff)) = Len(kept) + 1
      /\ Append(kept, diff)[Len(kept) + 1] = diff
  BY AppendFacts
<1>3. Len(diffs) \in Nat
  OBVIOUS
<1>4. QED
  BY <1>1, <1>2, <1>3 DEF Windowed, DIFF_HISTORY_WINDOW

\* Entering the window keeps what was distinct before distinct.
LEMMA RecordDiffDistinct ==
  ASSUME NEW S, NEW diffs \in Seq(S), NEW diff \in S,
         \A i, j \in 1..Len(diffs) : diffs[i] = diffs[j] => i = j
  PROVE  \A i, j \in 1..Len(RecordDiff(diffs, diff)) - 1 :
           RecordDiff(diffs, diff)[i] = RecordDiff(diffs, diff)[j] => i = j
<1>1. PICK kept \in Seq(S), first \in Nat \ {0} : Windowed(diffs, diff, kept, first)
  BY RecordDiffWindow
<1>2. /\ Len(Append(kept, diff)) = Len(kept) + 1
      /\ \A i \in 1..Len(kept) : Append(kept, diff)[i] = kept[i]
  BY AppendFacts
<1>3. Len(diffs) \in Nat /\ Len(kept) \in Nat
  OBVIOUS
<1>4. \A i \in 1..Len(kept) : /\ first + i - 1 \in 1..Len(diffs)
                              /\ RecordDiff(diffs, diff)[i] = diffs[first + i - 1]
  <2>1. Len(kept) = Len(diffs) - first + 1 /\ first \in Nat \ {0}
    BY <1>1 DEF Windowed
  <2>2. \A i \in 1..Len(kept) : first + i - 1 \in 1..Len(diffs)
    BY <1>3, <2>1
  <2>3. \A i \in 1..Len(kept) : RecordDiff(diffs, diff)[i] = diffs[first + i - 1]
    BY <1>1, <1>2 DEF Windowed
  <2>4. QED
    BY <2>2, <2>3
<1>5. Len(RecordDiff(diffs, diff)) - 1 = Len(kept)
  BY <1>1, <1>2, <1>3 DEF Windowed
<1> DEFINE new == RecordDiff(diffs, diff)
<1>6. ASSUME NEW i \in 1..Len(new) - 1, NEW j \in 1..Len(new) - 1, new[i] = new[j]
      PROVE  i = j
  <2>1. i \in 1..Len(kept) /\ j \in 1..Len(kept)
    BY <1>5
  <2>2. /\ first + i - 1 \in 1..Len(diffs)
        /\ first + j - 1 \in 1..Len(diffs)
        /\ diffs[first + i - 1] = diffs[first + j - 1]
    BY <1>4, <1>6, <2>1
  <2>3. first + i - 1 = first + j - 1
    BY <2>2
  <2>4. QED
    BY <1>3, <2>1, <2>3
<1>7. QED
  BY <1>6

-----------------------------------------------------------------------------
(* A failing evaluation, flattened: it halts the run, or it moves the      *)
(* ladder and the run goes on.                                             *)

FailureHalts ==
  /\ pc' = "cerberus"
  /\ \/ /\ halt_reason' = "breaker"
        /\ \E code \in BreakerCodes : breaker_trips' = Append(breaker_trips, code)
     \/ /\ halt_reason' \in {"infrastructure", "ladder_exhausted"}
        /\ UNCHANGED breaker_trips
  /\ UNCHANGED <<ladderVars, intervention>>

FailureClimbs ==
  /\ UNCHANGED haltVars
  /\ pc' = RouteByRung(ladder_rung')
  /\ \/ /\ rung_attempts < RungBudgets[ladder_rung]
        /\ rung_attempts' = rung_attempts + 1
        /\ ladder_rung' = ladder_rung
        /\ intervention' = IF ladder_rung = 0 THEN "none" ELSE intervention
     \/ /\ rung_attempts >= RungBudgets[ladder_rung]
        /\ ladder_rung < 4
        /\ ladder_rung' = ladder_rung + 1
        /\ rung_attempts' = 1
        /\ intervention' = intervention

\* A failing evaluation halts the run, or finds no breaker due and climbs.
LEMMA FailureSplits ==
  ASSUME TypeOK, NEW report, NEW signature, TalosFails(report, signature)
  PROVE  \/ FailureHalts
         \/ /\ FailureClimbs
            /\ ~NoProgress(failure_signature, signature_streak, signature,
                           intervention)
            /\ ~DiffThrash(diff_history)
            /\ ~IterationCapHit(iterations_this_task, iteration_count')
<1>1. CASE NoProgress(failure_signature, signature_streak, signature, intervention)
  BY <1>1 DEF TalosFails, BreakerHalt, Trip, FailureHalts, BreakerCodes
<1>2. CASE ~NoProgress(failure_signature, signature_streak, signature, intervention)
  <2>1. PICK breach \in PolledBreakers :
          IF breach # None THEN BreakerHalt(breach)
          ELSE IF eval_report' = "infrastructure"
          THEN InfraRetry \/ InfraHalt
          ELSE RetryRung \/ NextRung \/ LadderExhausted
    BY <1>2 DEF TalosFails, AdvanceLadder
  <2>2. breach # None => breach \in BreakerCodes
    BY DEF PolledBreakers, BreakerCodes
  <2>3. CASE breach # None
    BY <2>1, <2>2, <2>3 DEF BreakerHalt, Trip, FailureHalts
  <2>4. CASE breach = None
    <3>1. /\ ~IterationCapHit(iterations_this_task, iteration_count')
          /\ ~DiffThrash(diff_history)
      BY <2>4, NoneAssumption DEF PolledBreakers
    <3>2. CASE InfraRetry
      BY <3>1, <3>2, <1>2 DEF InfraRetry, Continue, FailureClimbs, RouteByRung, TypeOK
    <3>3. CASE InfraHalt
      BY <3>3 DEF InfraHalt, Halt, FailureHalts
    <3>4. CASE RetryRung
      BY <3>1, <3>4, <1>2 DEF RetryRung, Continue, FailureClimbs
    <3>5. CASE NextRung
      BY <3>1, <3>5, <1>2 DEF NextRung, Continue, FailureClimbs
    <3>6. CASE LadderExhausted
      BY <3>6 DEF LadderExhausted, Halt, FailureHalts
    <3>7. QED
      BY <2>1, <2>4, <3>2, <3>3, <3>4, <3>5, <3>6
  <2>5. QED
    BY <2>3, <2>4
<1>3. QED
  BY <1>1, <1>2

-----------------------------------------------------------------------------
(* Layer 1, Control: the types, the plan against the checkpoints, and what *)
(* each node may assume of the plan, of the rung and of the halt.          *)

\* The plan each node finds.
NodePlan ==
  /\ WorkHasATask
  /\ pc = "argus_skeleton" => task_cursor = 0
  /\ pc = "odysseus" => Replanning \/ task_cursor = 0
  /\ pc = "cerberus" /\ ~Halted => plan # <<>> /\ task_cursor = Len(plan)

\* Once three model-authored changes changed nothing, the run is halted.
StreakOpen == ~Halted => signature_streak < SIGNATURE_STREAK_LIMIT

Control ==
  /\ TypeOK
  /\ CheckpointsArePlanPrefix
  /\ NodePlan
  /\ HaltsReachCerberus
  /\ StreakOpen

\* Counting a node's calls keeps iteration_count in its range
\* (Router._apply_to_state).
LEMMA CallsTyped ==
  ASSUME TypeOK, NEW a \in Nat, NEW b \in Nat, Calls(a, b)
  PROVE  iteration_count' \in 0..MaxIterationsPerRun
<1>1. PICK n \in a..b : iteration_count' = Bump(iteration_count, n)
  BY DEF Calls
<1>2. QED
  BY <1>1, CapAssumption DEF Bump, TypeOK

\* The same for an answered call, with its format retry.
LEMMA AnsweredTyped ==
  ASSUME TypeOK, Answered
  PROVE  iteration_count' \in 0..MaxIterationsPerRun
BY CallsTyped DEF Answered

\* The same for a chain that ran out; the node halts.
LEMMA ExhaustedTyped ==
  ASSUME TypeOK, NEW reason, ChainExhausted(reason)
  PROVE  iteration_count' \in 0..MaxIterationsPerRun
BY CallsTyped DEF ChainExhausted

\* What a write leaves behind has the right types.
LEMMA WriteTyped ==
  ASSUME TypeOK, NEW diff \in Diffs, AfterWrite(diff)
  PROVE  /\ pc' \in Nodes
         /\ halt_reason' \in HaltReasons \cup {None}
         /\ breaker_trips' \in Seq(BreakerCodes)
         /\ diff_history' \in Seq(Diffs)
         /\ intervention' \in {"none", "model_authored", "declined"}
         /\ worktree' \in {"committed", "evaluated", "written"}
<1>1. diff_history' \in Seq(Diffs)
  BY RecordDiffFacts DEF AfterWrite, TypeOK
<1>2. Append(breaker_trips, "CB-6") \in Seq(BreakerCodes)
  BY AppendFacts DEF TypeOK, BreakerCodes
<1>3. QED
  BY <1>1, <1>2 DEF AfterWrite, Continue, Trip, TypeOK, Nodes, HaltReasons, haltVars

\* Every step keeps every field in its range.
LEMMA TypeStep ==
  Control /\ [Next]_vars => TypeOK'
<1> SUFFICES ASSUME Control, [Next]_vars PROVE TypeOK'
  OBVIOUS
<1> USE DEF Control
<1>1. CASE ArgusSkeleton
  <2>1. iteration_count' \in 0..MaxIterationsPerRun
    BY <1>1, CallsTyped DEF ArgusSkeleton
  <2> QED
    BY <1>1, <2>1 DEF ArgusSkeleton, Continue, Halt, TypeOK, Nodes, HaltReasons,
       planVars, doneVars, ladderVars, failVars, writeVars, reviewVars, haltVars
<1>2. CASE OdysseusPlans
  <2>1. iteration_count' \in 0..MaxIterationsPerRun
    BY <1>2, AnsweredTyped DEF OdysseusPlans
  <2>2. PICK answer \in Plans : plan' = NewPlan(answer) /\ task_count' = Len(NewPlan(answer))
    BY <1>2 DEF OdysseusPlans
  <2>3. NewPlan(answer) \in Seq(Tasks) /\ Len(NewPlan(answer)) \in Nat
    <3>1. answer \in Seq(Tasks)
      BY PlanAnswer
    <3>2. \A i \in 1..task_cursor : plan[i] \in Tasks
      BY DEF CheckpointsArePlanPrefix, TypeOK
    <3>3. SubSeq(plan, 1, task_cursor) \in Seq(Tasks)
      <4>1. task_cursor \in Int /\ 1 \in Int
        BY DEF TypeOK
      <4>2. QED
        BY ONLY <3>2, <4>1, SubSeqProperties
    <3>4. SubSeq(plan, 1, task_cursor) \o answer \in Seq(Tasks)
      BY <3>1, <3>3, ConcatProperties
    <3>5. NewPlan(answer) \in Seq(Tasks)
      BY <3>1, <3>4 DEF NewPlan
    <3>6. QED
      BY <3>5, LenProperties
  <2> QED
    BY <1>2, <2>1, <2>2, <2>3 DEF OdysseusPlans, Continue, ConsumeRejection, TypeOK,
       Nodes, doneVars, ladderVars, failVars, writeVars, reviewVars, haltVars
<1>3. CASE OdysseusHalts
  <2>1. iteration_count' \in 0..MaxIterationsPerRun
    BY <1>3, AnsweredTyped, ExhaustedTyped DEF OdysseusHalts
  <2> QED
    BY <1>3, <2>1 DEF OdysseusHalts, ChainExhausted, Halt, ConsumeRejection, TypeOK,
       Nodes, HaltReasons, planVars, doneVars, ladderVars, failVars, writeVars, reviewVars
<1>4. CASE ArgusResearch
  <2>1. iteration_count' \in 0..MaxIterationsPerRun
    BY <1>4, AnsweredTyped, ExhaustedTyped DEF ArgusResearch
  <2> QED
    BY <1>4, <2>1 DEF ArgusResearch, Continue, ChainExhausted, Halt, TypeOK, Nodes,
       HaltReasons, planVars, doneVars, ladderVars, failVars, writeVars, reviewVars, haltVars
<1>5. CASE Daedalus
  <2>1. iteration_count' \in 0..MaxIterationsPerRun
    BY <1>5, AnsweredTyped, ExhaustedTyped DEF Daedalus, Escape
  <2>2. /\ pc' \in Nodes
        /\ halt_reason' \in HaltReasons \cup {None}
        /\ breaker_trips' \in Seq(BreakerCodes)
        /\ diff_history' \in Seq(Diffs)
        /\ intervention' \in {"none", "model_authored", "declined"}
        /\ worktree' \in {"committed", "evaluated", "written"}
    <3>1. CASE \E diff \in Diffs : AfterWrite(diff)
      BY <3>1, WriteTyped
    <3>2. CASE ~\E diff \in Diffs : AfterWrite(diff)
      BY <1>5, <3>2 DEF Daedalus, Escape, ChainExhausted, Halt, TypeOK, Nodes, HaltReasons
    <3>3. QED
      BY <3>1, <3>2
  <2> QED
    BY <1>5, <2>1, <2>2 DEF Daedalus, ConsumeRejection, TypeOK, planVars, doneVars,
       ladderVars, failVars, reviewVars
<1>6. CASE ChironDeclines
  <2>1. iteration_count' \in 0..MaxIterationsPerRun
    BY <1>6, AnsweredTyped DEF ChironDeclines
  <2> QED
    BY <1>6, <2>1 DEF ChironDeclines, Continue, TypeOK, Nodes, planVars, doneVars,
       ladderVars, failVars, reviewVars, haltVars
<1>7. CASE ChironPatches
  <2>1. iteration_count' \in 0..MaxIterationsPerRun
    BY <1>7, AnsweredTyped, ExhaustedTyped DEF ChironPatches, Escape
  <2>2. /\ pc' \in Nodes
        /\ halt_reason' \in HaltReasons \cup {None}
        /\ breaker_trips' \in Seq(BreakerCodes)
        /\ diff_history' \in Seq(Diffs)
        /\ intervention' \in {"none", "model_authored", "declined"}
        /\ worktree' \in {"committed", "evaluated", "written"}
    <3>1. CASE \E diff \in Diffs : AfterWrite(diff)
      BY <3>1, WriteTyped
    <3>2. CASE ~\E diff \in Diffs : AfterWrite(diff)
      BY <1>7, <3>2 DEF ChironPatches, Escape, ChainExhausted, Halt, TypeOK, Nodes, HaltReasons
    <3>3. QED
      BY <3>1, <3>2
  <2> QED
    BY <1>7, <2>1, <2>2 DEF ChironPatches, TypeOK, planVars, doneVars, ladderVars,
       failVars, reviewVars
<1>8. CASE TalosPasses
  <2>1. task_cursor + 1 \in 1..Len(plan)
    BY <1>8 DEF TalosPasses, NodePlan, WorkHasATask, TypeOK
  <2>2. checkpoints' \in Seq([task_index : Nat, task : Tasks])
    <3>1. CurrentTask \in Tasks
      BY <2>1, ElementOfSeq DEF CurrentTask, TypeOK
    <3>2. [task_index |-> task_cursor, task |-> CurrentTask]
            \in [task_index : Nat, task : Tasks]
      BY <3>1 DEF TypeOK
    <3>3. QED
      BY <1>8, <3>2, AppendFacts DEF TalosPasses, TypeOK
  <2> QED
    BY <1>8, <2>2 DEF TalosPasses, ResetForNewTask, Continue, TypeOK, Nodes, Rungs,
       SIGNATURE_STREAK_LIMIT, planVars, reviewVars, haltVars
<1>9. ASSUME NEW report \in {"failed", "infrastructure"},
             NEW signature \in Signatures \cup InfraSignatures,
             TalosFails(report, signature)
      PROVE  TypeOK'
  <2>1. iteration_count' \in 0..MaxIterationsPerRun
    BY <1>9, CallsTyped DEF TalosFails, ObserveFailure
  <2>2. signature_streak' \in 0..SIGNATURE_STREAK_LIMIT
    <3>1. signature_streak \in 0..2
      BY <1>9, NoneAssumption DEF TalosFails, StreakOpen, HaltsReachCerberus, Halted,
         SIGNATURE_STREAK_LIMIT, TypeOK
    <3>2. QED
      BY <1>9, <3>1 DEF TalosFails, ObserveFailure, StreakAfter, SIGNATURE_STREAK_LIMIT
  <2>3. /\ pc' \in Nodes
        /\ halt_reason' \in HaltReasons \cup {None}
        /\ breaker_trips' \in Seq(BreakerCodes)
        /\ ladder_rung' \in Rungs
        /\ rung_attempts' \in Nat
        /\ intervention' \in {"none", "model_authored", "declined"}
    <3>1. CASE FailureHalts
      <4>1. breaker_trips' \in Seq(BreakerCodes)
        <5>1. breaker_trips \in Seq(BreakerCodes)
          BY DEF TypeOK
        <5>2. \A code \in BreakerCodes : Append(breaker_trips, code) \in Seq(BreakerCodes)
          BY ONLY <5>1, AppendFacts
        <5>3. QED
          BY <3>1, <5>1, <5>2 DEF FailureHalts
      <4>2. QED
        BY <3>1, <4>1 DEF FailureHalts, TypeOK, Nodes, HaltReasons, ladderVars
    <3>2. CASE FailureClimbs
      <4>1. ladder_rung' \in {0, 1, 2, 3, 4} /\ rung_attempts' \in Nat
        <5>1. ladder_rung \in 0..4 /\ rung_attempts \in Nat
          BY DEF TypeOK, Rungs
        <5>2. ladder_rung' \in 0..4 /\ rung_attempts' \in Nat
          BY ONLY <3>2, <5>1 DEF FailureClimbs
        <5>3. QED
          BY <5>2
      <4>2. pc' \in Nodes
        BY <3>2, <4>1 DEF FailureClimbs, RouteByRung, Nodes
      <4>3. QED
        BY <3>2, <4>1, <4>2 DEF FailureClimbs, TypeOK, Rungs, haltVars
    <3>3. QED
      BY <1>9, <3>1, <3>2, FailureSplits
  <2> QED
    BY <1>9, <2>1, <2>2, <2>3 DEF TalosFails, ObserveFailure, TypeOK, planVars,
       doneVars, reviewVars
<1>10. CASE Rollback
  BY <1>10 DEF Rollback, Continue, TypeOK, Nodes, planVars, doneVars, ladderVars,
     failVars, reviewVars, haltVars
<1>11. CASE CerberusReportsHalt
  BY <1>11 DEF CerberusReportsHalt, Review, TypeOK, planVars, doneVars, ladderVars,
     failVars, writeVars, haltVars
<1>12. CASE CerberusUnreviewed
  <2>1. iteration_count' \in 0..MaxIterationsPerRun
    BY <1>12, CallsTyped DEF CerberusUnreviewed
  <2> QED
    BY <1>12, <2>1 DEF CerberusUnreviewed, Escalate, Review, TypeOK, HaltReasons,
       planVars, doneVars, ladderVars, failVars, writeVars
<1>13. CASE CerberusApproves
  <2>1. iteration_count' \in 0..MaxIterationsPerRun
    BY <1>13, AnsweredTyped DEF CerberusApproves
  <2> QED
    BY <1>13, <2>1 DEF CerberusApproves, Review, TypeOK, planVars, doneVars, ladderVars,
       failVars, writeVars, haltVars
<1>14. CASE CerberusReturnsToCoder
  <2>1. iteration_count' \in 0..MaxIterationsPerRun
    BY <1>14, AnsweredTyped DEF CerberusReturnsToCoder
  <2>2. plan' \in Seq(Tasks) /\ task_count' \in Nat
    BY <1>14, AppendFacts DEF CerberusReturnsToCoder, TypeOK
  <2> QED
    BY <1>14, <2>1, <2>2, GraphAssumption DEF CerberusReturnsToCoder, Review, Continue,
       RejectionAllowed, TypeOK, Nodes, doneVars, ladderVars, failVars, writeVars, haltVars
<1>15. CASE CerberusReturnsToPlanner
  <2>1. iteration_count' \in 0..MaxIterationsPerRun
    BY <1>15, AnsweredTyped DEF CerberusReturnsToPlanner
  <2> QED
    BY <1>15, <2>1, GraphAssumption DEF CerberusReturnsToPlanner, Review, Continue,
       RejectionAllowed, TypeOK, Nodes, planVars, doneVars, ladderVars, failVars,
       writeVars, haltVars
<1>16. CASE CerberusEscalates
  <2>1. iteration_count' \in 0..MaxIterationsPerRun
    BY <1>16, AnsweredTyped DEF CerberusEscalates
  <2> QED
    BY <1>16, <2>1 DEF CerberusEscalates, Escalate, Review, TypeOK, HaltReasons,
       planVars, doneVars, ladderVars, failVars, writeVars
<1>17. CASE UncaughtError
  BY <1>17 DEF UncaughtError, TypeOK, planVars, doneVars, ladderVars, failVars,
     writeVars, reviewVars, haltVars
<1>18. CASE Terminated \/ UNCHANGED vars
  BY <1>18 DEF Terminated, TypeOK, vars, planVars, doneVars, ladderVars, failVars,
     writeVars, reviewVars, haltVars
<1>19. QED
  BY <1>1, <1>2, <1>3, <1>4, <1>5, <1>6, <1>7, <1>8, <1>9, <1>10, <1>11, <1>12,
     <1>13, <1>14, <1>15, <1>16, <1>17, <1>18 DEF Next, Talos, Cerberus

\* A re-plan keeps the completed prefix and leaves work after it.
LEMMA NewPlanFacts ==
  ASSUME Control, pc = "odysseus", NEW answer \in Plans
  PROVE  /\ NewPlan(answer) \in Seq(Tasks)
         /\ task_cursor < Len(NewPlan(answer))
         /\ \A i \in 1..task_cursor : NewPlan(answer)[i] = plan[i]
<1>1. /\ task_cursor \in Nat
      /\ task_cursor <= Len(plan)
      /\ plan \in Seq(Tasks)
      /\ Replanning \/ task_cursor = 0
  BY DEF Control, CheckpointsArePlanPrefix, TypeOK, NodePlan
<1>2. answer \in Seq(Tasks) /\ Len(answer) >= 1
  BY PlanAnswer
<1>3. CASE Replanning
  <2> DEFINE done == SubSeq(plan, 1, task_cursor)
  <2>1. \A i \in 1..task_cursor : plan[i] \in Tasks
    BY <1>1
  <2>2. /\ done \in Seq(Tasks)
        /\ Len(done) = IF 1 <= task_cursor THEN task_cursor - 1 + 1 ELSE 0
        /\ \A i \in 1..task_cursor - 1 + 1 : done[i] = plan[1 + i - 1]
    BY ONLY <1>1, <2>1, SubSeqProperties
  <2>3. Len(done) = task_cursor /\ \A i \in 1..task_cursor : done[i] = plan[i]
    <3> HIDE DEF done
    <3> QED BY <1>1, <2>2
  <2>4. /\ done \o answer \in Seq(Tasks)
        /\ Len(done \o answer) = Len(done) + Len(answer)
        /\ \A i \in 1..Len(done) + Len(answer) :
             (done \o answer)[i] = IF i <= Len(done) THEN done[i]
                                                     ELSE answer[i - Len(done)]
    <3> HIDE DEF done
    <3> QED BY <1>2, <2>2, ConcatProperties
  <2>5. NewPlan(answer) = done \o answer
    BY <1>3 DEF NewPlan
  <2> HIDE DEF done
  <2>6. Len(answer) \in Nat
    BY <1>2
  <2>7. \A i \in 1..task_cursor : (done \o answer)[i] = plan[i]
    BY <1>1, <2>3, <2>4, <2>6
  <2>8. QED
    BY <1>1, <1>2, <2>3, <2>4, <2>5, <2>6, <2>7
<1>4. CASE ~Replanning
  <2>1. NewPlan(answer) = answer /\ task_cursor = 0
    BY <1>1, <1>4 DEF NewPlan
  <2>2. QED
    BY <1>2, <2>1
<1>5. QED
  BY <1>3, <1>4

\* Every step keeps the checkpoints a prefix of the plan and gives each node
\* the plan it needs.
LEMMA PlanStep ==
  Control /\ [Next]_vars => CheckpointsArePlanPrefix' /\ NodePlan'
<1> SUFFICES ASSUME Control, [Next]_vars
             PROVE  CheckpointsArePlanPrefix' /\ NodePlan'
  OBVIOUS
<1> USE NoneAssumption DEF Control
<1> DEFINE SamePlan == UNCHANGED <<planVars, doneVars>>
<1>1. ASSUME SamePlan
      PROVE  CheckpointsArePlanPrefix'
  BY <1>1 DEF CheckpointsArePlanPrefix, planVars, doneVars
<1>2. CASE ArgusSkeleton
  BY <1>1, <1>2 DEF ArgusSkeleton, Continue, Halt, Halted, NodePlan, WorkHasATask,
     Replanning, planVars, doneVars, ladderVars
<1>3. CASE OdysseusPlans
  <2>1. PICK answer \in Plans : plan' = NewPlan(answer) /\ task_count' = Len(NewPlan(answer))
    BY <1>3 DEF OdysseusPlans
  <2>2. /\ NewPlan(answer) \in Seq(Tasks)
        /\ task_cursor < Len(NewPlan(answer))
        /\ \A i \in 1..task_cursor : NewPlan(answer)[i] = plan[i]
    BY <1>3, NewPlanFacts DEF OdysseusPlans
  <2>3. UNCHANGED doneVars /\ pc' = "argus_research"
    BY <1>3 DEF OdysseusPlans, Continue
  <2>4. CheckpointsArePlanPrefix'
    <3>1. /\ task_cursor = Len(checkpoints)
          /\ \A i \in 1..Len(checkpoints) :
               checkpoints[i] = [task_index |-> i - 1, task |-> plan[i]]
          /\ Len(checkpoints) \in Nat
          /\ Len(NewPlan(answer)) \in Nat
      BY <2>2 DEF CheckpointsArePlanPrefix, TypeOK
    <3>2. QED
      BY <2>1, <2>2, <2>3, <3>1 DEF CheckpointsArePlanPrefix, doneVars
  <2>5. NodePlan'
    BY <2>1, <2>2, <2>3 DEF NodePlan, WorkHasATask, doneVars
  <2>6. QED
    BY <2>4, <2>5
<1>4. CASE OdysseusHalts
  BY <1>1, <1>4 DEF OdysseusHalts, ChainExhausted, Halt, Halted, NodePlan, WorkHasATask,
     planVars, doneVars
<1>5. CASE ArgusResearch
  BY <1>1, <1>5 DEF ArgusResearch, ChainExhausted, Continue, Halt, Halted, NodePlan,
     WorkHasATask, planVars, doneVars
<1>6. CASE Daedalus
  <2>1. SamePlan /\ pc = "daedalus" /\ (pc' = "talos" \/ (pc' = "cerberus" /\ Halted'))
    BY <1>6 DEF Daedalus, AfterWrite, Escape, ChainExhausted, Continue, Halt, Trip, Halted
  <2>2. QED
    BY <1>1, <2>1 DEF NodePlan, WorkHasATask, planVars, doneVars
<1>7. CASE ChironDeclines
  BY <1>1, <1>7 DEF ChironDeclines, Continue, NodePlan, WorkHasATask, planVars, doneVars
<1>8. CASE ChironPatches
  <2>1. SamePlan /\ pc = "chiron" /\ (pc' = "talos" \/ (pc' = "cerberus" /\ Halted'))
    BY <1>8 DEF ChironPatches, AfterWrite, Escape, ChainExhausted, Continue, Halt, Trip, Halted
  <2>2. QED
    BY <1>1, <2>1 DEF NodePlan, WorkHasATask, planVars, doneVars
<1>9. CASE TalosPasses
  <2>1. task_cursor \in Nat /\ task_cursor < Len(plan) /\ plan \in Seq(Tasks)
    BY <1>9 DEF TalosPasses, NodePlan, WorkHasATask, TypeOK
  <2>2. /\ UNCHANGED planVars
        /\ task_cursor' = task_cursor + 1
        /\ pc' = IF task_cursor + 1 < task_count THEN "argus_research" ELSE "cerberus"
        /\ checkpoints' = Append(checkpoints, [task_index |-> task_cursor,
                                               task |-> plan[task_cursor + 1]])
    BY <1>9 DEF TalosPasses, Continue, CurrentTask
  <2>3. CheckpointsArePlanPrefix'
    <3> DEFINE entry == [task_index |-> task_cursor, task |-> plan[task_cursor + 1]]
    <3>1. /\ Len(checkpoints) = task_cursor
          /\ task_count = Len(plan)
          /\ \A i \in 1..Len(checkpoints) :
               checkpoints[i] = [task_index |-> i - 1, task |-> plan[i]]
      BY DEF CheckpointsArePlanPrefix
    <3>2. /\ Len(Append(checkpoints, entry)) = Len(checkpoints) + 1
          /\ \A i \in 1..Len(checkpoints) : Append(checkpoints, entry)[i] = checkpoints[i]
          /\ Append(checkpoints, entry)[Len(checkpoints) + 1] = entry
      <4>1. plan[task_cursor + 1] \in Tasks
        BY <2>1
      <4>2. entry \in [task_index : Nat, task : Tasks]
        BY <2>1, <4>1
      <4>3. checkpoints \in Seq([task_index : Nat, task : Tasks])
        BY DEF TypeOK
      <4> HIDE DEF entry
      <4> QED BY <4>2, <4>3, AppendFacts
    <3>3. \A i \in 1..task_cursor + 1 :
            Append(checkpoints, entry)[i] = [task_index |-> i - 1, task |-> plan[i]]
      <4> TAKE i \in 1..task_cursor + 1
      <4>1. CASE i = task_cursor + 1
        BY <2>1, <3>1, <3>2, <4>1
      <4>2. CASE i # task_cursor + 1
        <5>1. i \in 1..Len(checkpoints)
          BY <2>1, <3>1, <4>2
        <5> HIDE DEF entry
        <5> QED BY <3>1, <3>2, <5>1
      <4> QED BY <4>1, <4>2
    <3>4. Len(plan) \in Nat
      BY <2>1
    <3> HIDE DEF entry
    <3>5. checkpoints' = Append(checkpoints, entry)
      BY <2>2 DEF entry
    <3>6. QED
      BY <2>1, <2>2, <3>1, <3>2, <3>3, <3>4, <3>5 DEF CheckpointsArePlanPrefix, planVars
  <2>4. NodePlan'
    <3>1. task_count = Len(plan) /\ Len(plan) \in Nat /\ plan # <<>>
      BY <2>1 DEF CheckpointsArePlanPrefix
    <3>2. QED
      BY <2>1, <2>2, <3>1 DEF NodePlan, WorkHasATask, planVars
  <2>5. QED
    BY <2>3, <2>4
<1>10. ASSUME NEW report, NEW signature, TalosFails(report, signature)
       PROVE  CheckpointsArePlanPrefix' /\ NodePlan'
  <2>1. SamePlan /\ pc = "talos"
    BY <1>10 DEF TalosFails
  <2>2. \/ pc' = "cerberus" /\ Halted'
        \/ pc' = RouteByRung(ladder_rung') /\ ladder_rung' \in 0..4
    BY <1>10, FailureSplits DEF FailureHalts, FailureClimbs, Halted, TypeOK, Rungs
  <2>3. \/ pc' = "cerberus" /\ Halted'
        \/ pc' \in {"talos", "chiron", "argus_research", "rollback"}
        \/ pc' = "odysseus" /\ ladder_rung' = 4
    BY <2>2 DEF RouteByRung
  <2>4. QED
    BY <1>1, <2>1, <2>3 DEF NodePlan, WorkHasATask, Replanning, planVars, doneVars
<1>11. CASE Rollback
  BY <1>1, <1>11 DEF Rollback, Continue, NodePlan, WorkHasATask, planVars, doneVars
<1>12. CASE CerberusReportsHalt \/ CerberusUnreviewed \/ CerberusApproves \/ CerberusEscalates
  BY <1>1, <1>12 DEF CerberusReportsHalt, CerberusUnreviewed, CerberusApproves,
     CerberusEscalates, Escalate, Review, NodePlan, WorkHasATask, planVars, doneVars
<1>13. CASE CerberusReturnsToCoder
  <2>1. PICK objection \in Tasks : plan' = Append(plan, objection)
    BY <1>13 DEF CerberusReturnsToCoder
  <2>2. /\ Len(plan') = Len(plan) + 1
        /\ \A i \in 1..Len(plan) : plan'[i] = plan[i]
        /\ Len(plan) \in Nat
    BY <2>1, AppendFacts DEF TypeOK
  <2>3. /\ pc' = "argus_research"
        /\ task_count' = Len(plan) + 1
        /\ UNCHANGED doneVars
        /\ task_cursor = Len(plan)
    BY <1>13 DEF CerberusReturnsToCoder, Continue, Review, NodePlan
  <2>4. CheckpointsArePlanPrefix'
    <3>1. /\ Len(checkpoints) = Len(plan)
          /\ \A i \in 1..Len(plan) :
               checkpoints[i] = [task_index |-> i - 1, task |-> plan[i]]
      BY <2>3 DEF CheckpointsArePlanPrefix
    <3>2. QED
      BY <2>2, <2>3, <3>1 DEF CheckpointsArePlanPrefix, doneVars
  <2>5. NodePlan'
    BY <2>2, <2>3 DEF NodePlan, WorkHasATask, doneVars
  <2>6. QED
    BY <2>4, <2>5
<1>14. CASE CerberusReturnsToPlanner
  BY <1>1, <1>14 DEF CerberusReturnsToPlanner, Continue, Review, NodePlan, WorkHasATask,
     Replanning, planVars, doneVars
<1>15. CASE UncaughtError
  BY <1>1, <1>15 DEF UncaughtError, NodePlan, WorkHasATask, planVars, doneVars
<1>16. CASE Terminated \/ UNCHANGED vars
  BY <1>1, <1>16 DEF Terminated, vars, NodePlan, WorkHasATask, Replanning, Halted,
     planVars, doneVars, ladderVars, haltVars
<1>17. QED
  BY <1>2, <1>3, <1>4, <1>5, <1>6, <1>7, <1>8, <1>9, <1>10, <1>11, <1>12, <1>13,
     <1>14, <1>15, <1>16 DEF Next, Talos, Cerberus

\* A step that is not halted goes on, halts once for a reason other than a
\* breaker, or fires one breaker; a halted one stays as it is.
LEMMA HaltOnce ==
  ASSUME Control,
         \/ UNCHANGED haltVars /\ (Halted => pc' \in {"cerberus", "END"})
         \/ /\ ~Halted
            /\ pc' \in {"cerberus", "END"}
            /\ halt_reason' \in HaltReasons \ {"breaker"}
            /\ UNCHANGED breaker_trips
         \/ /\ ~Halted
            /\ pc' = "cerberus"
            /\ halt_reason' = "breaker"
            /\ \E code \in BreakerCodes : breaker_trips' = Append(breaker_trips, code)
  PROVE  HaltsReachCerberus'
<1>1. CASE UNCHANGED haltVars /\ (Halted => pc' \in {"cerberus", "END"})
  BY <1>1 DEF Control, HaltsReachCerberus, Halted, haltVars
<1>2. CASE ~Halted /\ UNCHANGED breaker_trips /\ pc' \in {"cerberus", "END"}
           /\ halt_reason' \in HaltReasons \ {"breaker"}
  BY <1>2, NoneAssumption DEF Control, HaltsReachCerberus, Halted
<1>3. CASE ~Halted /\ pc' = "cerberus" /\ halt_reason' = "breaker"
           /\ \E code \in BreakerCodes : breaker_trips' = Append(breaker_trips, code)
  <2>1. breaker_trips = <<>>
    BY <1>3, NoneAssumption DEF Control, HaltsReachCerberus, Halted
  <2>2. PICK code \in BreakerCodes : breaker_trips' = Append(<<>>, code)
    BY <1>3, <2>1
  <2>3. Len(breaker_trips') = 1 /\ breaker_trips' # <<>>
    BY <2>2
  <2>4. QED
    BY <1>3, <2>3 DEF HaltsReachCerberus, Halted
<1>4. QED
  BY <1>1, <1>2, <1>3

\* Every step that halts the run goes to Cerberus; a halted run only ends.
LEMMA HaltStep ==
  Control /\ [Next]_vars => HaltsReachCerberus'
<1> SUFFICES ASSUME Control, [Next]_vars PROVE HaltsReachCerberus'
  OBVIOUS
<1> USE NoneAssumption
<1>1. Halted => pc \in {"cerberus", "END"}
  BY DEF Control, HaltsReachCerberus
<1>2. CASE ArgusSkeleton
  BY <1>1, <1>2, HaltOnce DEF ArgusSkeleton, Continue, Halt, HaltReasons
<1>3. CASE OdysseusPlans
  BY <1>1, <1>3, HaltOnce DEF OdysseusPlans, Continue
<1>4. CASE OdysseusHalts
  BY <1>1, <1>4, HaltOnce DEF OdysseusHalts, ChainExhausted, Halt, HaltReasons
<1>5. CASE ArgusResearch
  BY <1>1, <1>5, HaltOnce DEF ArgusResearch, ChainExhausted, Continue, Halt, HaltReasons
<1>6. CASE Daedalus
  BY <1>1, <1>6, HaltOnce DEF Daedalus, AfterWrite, Escape, ChainExhausted, Continue,
     Halt, Trip, HaltReasons, BreakerCodes
<1>7. CASE ChironDeclines
  BY <1>1, <1>7, HaltOnce DEF ChironDeclines, Continue
<1>8. CASE ChironPatches
  BY <1>1, <1>8, HaltOnce DEF ChironPatches, AfterWrite, Escape, ChainExhausted, Continue,
     Halt, Trip, HaltReasons, BreakerCodes
<1>9. CASE TalosPasses
  BY <1>1, <1>9, HaltOnce DEF TalosPasses, Continue
<1>10. ASSUME NEW report, NEW signature, TalosFails(report, signature)
       PROVE  HaltsReachCerberus'
  <2>1. ~Halted
    BY <1>1, <1>10 DEF TalosFails
  <2>2. CASE FailureHalts
    BY <2>1, <2>2, HaltOnce DEF FailureHalts, HaltReasons
  <2>3. CASE FailureClimbs
    BY <2>1, <2>3, HaltOnce DEF FailureClimbs
  <2>4. QED
    BY <1>10, <2>2, <2>3, FailureSplits DEF Control
<1>11. CASE Rollback
  BY <1>1, <1>11, HaltOnce DEF Rollback, Continue
<1>12. CASE CerberusReportsHalt \/ CerberusApproves
  BY <1>1, <1>12, HaltOnce DEF CerberusReportsHalt, CerberusApproves
<1>13. CASE CerberusUnreviewed \/ CerberusEscalates
  BY <1>1, <1>13, HaltOnce DEF CerberusUnreviewed, CerberusEscalates, Escalate, HaltReasons
<1>14. CASE CerberusReturnsToCoder \/ CerberusReturnsToPlanner
  BY <1>1, <1>14, HaltOnce DEF CerberusReturnsToCoder, CerberusReturnsToPlanner, Continue
<1>15. CASE UncaughtError
  BY <1>1, <1>15, HaltOnce DEF UncaughtError
<1>16. CASE Terminated \/ UNCHANGED vars
  BY <1>1, <1>16, HaltOnce DEF Terminated, vars
<1>17. QED
  BY <1>2, <1>3, <1>4, <1>5, <1>6, <1>7, <1>8, <1>9, <1>10, <1>11, <1>12, <1>13,
     <1>14, <1>15, <1>16 DEF Next, Talos, Cerberus

\* The streak reaches its limit only in the step that halts the run.
LEMMA StreakStep ==
  Control /\ [Next]_vars => StreakOpen'
<1> SUFFICES ASSUME Control, [Next]_vars PROVE StreakOpen'
  OBVIOUS
<1>1. ASSUME UNCHANGED failVars, Halted => Halted' PROVE StreakOpen'
  BY <1>1 DEF Control, StreakOpen, failVars
<1>2. ASSUME NEW report, NEW signature, TalosFails(report, signature)
      PROVE  StreakOpen'
  <2>1. CASE FailureHalts
    BY <2>1, NoneAssumption DEF FailureHalts, StreakOpen, Halted
  <2>2. CASE ~NoProgress(failure_signature, signature_streak, signature, intervention)
    <3>1. signature_streak \in Nat /\ signature_streak < 3
      BY <1>2, NoneAssumption DEF TalosFails, Control, TypeOK, HaltsReachCerberus,
         StreakOpen, Halted, SIGNATURE_STREAK_LIMIT
    <3>2. signature_streak' = StreakAfter(failure_signature, signature_streak,
                                          signature, intervention)
      BY <1>2 DEF TalosFails, ObserveFailure
    <3>3. signature_streak' < 3
      BY <2>2, <3>1, <3>2 DEF NoProgress, StreakAfter, SIGNATURE_STREAK_LIMIT
    <3>4. QED
      BY <3>3 DEF StreakOpen, SIGNATURE_STREAK_LIMIT
  <2>3. QED
    BY <1>2, <2>1, <2>2, FailureSplits DEF Control
<1>3. CASE TalosPasses
  BY <1>3 DEF TalosPasses, ResetForNewTask, StreakOpen, SIGNATURE_STREAK_LIMIT
<1>4. CASE ArgusSkeleton \/ OdysseusPlans \/ OdysseusHalts \/ ArgusResearch
  BY <1>1, <1>4, NoneAssumption DEF ArgusSkeleton, OdysseusPlans, OdysseusHalts,
     ArgusResearch, ChainExhausted, Continue, Halt, Halted, haltVars
<1>5. CASE Daedalus \/ ChironDeclines \/ ChironPatches
  BY <1>1, <1>5, NoneAssumption DEF Daedalus, ChironDeclines, ChironPatches, AfterWrite,
     Escape, ChainExhausted, Continue, Halt, Trip, Halted, haltVars
<1>6. CASE Rollback \/ UncaughtError
  BY <1>1, <1>6 DEF Rollback, UncaughtError, Continue, Halted, haltVars
<1>7. CASE Cerberus
  BY <1>1, <1>7, NoneAssumption DEF Cerberus, CerberusReportsHalt, CerberusUnreviewed,
     CerberusApproves, CerberusReturnsToCoder, CerberusReturnsToPlanner,
     CerberusEscalates, Escalate, Review, Continue, Halted, haltVars
<1>8. CASE Terminated \/ UNCHANGED vars
  BY <1>1, <1>8 DEF Terminated, vars, Halted, haltVars
<1>9. QED
  BY <1>2, <1>3, <1>4, <1>5, <1>6, <1>7, <1>8 DEF Next, Talos

\* A fresh AgentState satisfies the control layer.
LEMMA ControlInit == Init => Control
<1> SUFFICES ASSUME Init PROVE Control
  OBVIOUS
<1>1. TypeOK
  <2>1. PICK answers \in 0..2 : iteration_count = Bump(0, answers)
    BY DEF Init
  <2>2. iteration_count \in 0..MaxIterationsPerRun
    BY <2>1, CapAssumption DEF Bump
  <2>3. QED
    BY <2>2, GraphAssumption DEF Init, TypeOK, Nodes, Rungs, SIGNATURE_STREAK_LIMIT
<1>2. CheckpointsArePlanPrefix
  BY DEF Init, CheckpointsArePlanPrefix
<1>3. NodePlan /\ HaltsReachCerberus /\ StreakOpen
  BY NoneAssumption DEF Init, NodePlan, WorkHasATask, Halted, HaltsReachCerberus,
     StreakOpen, SIGNATURE_STREAK_LIMIT
<1>4. QED
  BY <1>1, <1>2, <1>3 DEF Control

\* The control layer holds in every state of every run.
THEOREM ControlInvariant == Spec => []Control
<1>1. Control /\ [Next]_vars => Control'
  BY TypeStep, PlanStep, HaltStep, StreakStep DEF Control
<1>2. QED
  BY ControlInit, <1>1, PTL DEF Spec

(* Every field stays in the range the code gives it.                       *)
THEOREM TypeCorrect == Spec => []TypeOK
BY ControlInvariant, PTL DEF Control

(* Checkpoint i was made for plan task i, no re-plan or rejection rewrites *)
(* a committed task, and task_count is the length of the plan on disk.     *)
THEOREM CheckpointsFollowPlan == Spec => []CheckpointsArePlanPrefix
BY ControlInvariant, PTL DEF Control

(* No node that works on a task runs past the end of the plan.             *)
THEOREM WorkersHaveATask == Spec => []WorkHasATask
BY ControlInvariant, PTL DEF Control, NodePlan

(* A halted run goes to Cerberus and ends; one breaker at most fires.      *)
THEOREM HaltedRunsReachCerberus == Spec => []HaltsReachCerberus
BY ControlInvariant, PTL DEF Control

-----------------------------------------------------------------------------
(* Layer 2, Worktree: which rung and which files each node finds, what the *)
(* intervention says of them, and what an approval means.                  *)

NodeRung ==
  /\ pc \in {"argus_skeleton", "cerberus"} /\ ~Halted => ladder_rung = 0
  /\ pc = "odysseus" => ladder_rung \in {0, 4}
  /\ pc = "argus_research" => ladder_rung \in {0, 2, 4}
  /\ pc = "chiron" => ladder_rung \in {1, 2}
  /\ pc = "rollback" => ladder_rung = 3
  /\ pc = "daedalus" => ladder_rung \in {0, 3, 4}

NodeFiles ==
  /\ ~Halted /\ pc \notin {"talos", "raised"} => worktree # "written"
  /\ pc \in {"argus_skeleton", "cerberus"} /\ ~Halted => worktree = "committed"
  /\ pc = "odysseus" /\ ladder_rung = 0 => worktree = "committed"

\* A verdict of APPROVE ends the run, so it is never carried into more work.
ApproveEnds == review_verdict = "approve" => pc = "END"

Worktree ==
  /\ NodeRung
  /\ NodeFiles
  /\ RewritesStartClean
  /\ InterventionIsHonest
  /\ ApproveEnds
  /\ ApprovalIsEarned

\* Every step of the graph preserves the worktree layer, given the control
\* layer.
LEMMA WorktreeStep ==
  Control /\ Worktree /\ [Next]_vars => Worktree'
<1> SUFFICES ASSUME Control, Worktree, [Next]_vars PROVE Worktree'
  OBVIOUS
<1> USE NoneAssumption
<1>0. /\ Halted => pc \in {"cerberus", "END"}
      /\ Len(breaker_trips) <= 1
      /\ breaker_trips # <<>> <=> halt_reason = "breaker"
  BY DEF Control, HaltsReachCerberus
<1>1. CASE ArgusSkeleton
  BY <1>0, <1>1 DEF ArgusSkeleton, Continue, Halt, Halted, Worktree, NodeRung, NodeFiles,
     RewritesStartClean, InterventionIsHonest, ApproveEnds, ApprovalIsEarned,
     planVars, doneVars, ladderVars, writeVars, reviewVars, haltVars
<1>2. CASE OdysseusPlans \/ OdysseusHalts
  BY <1>0, <1>2 DEF OdysseusPlans, OdysseusHalts, ChainExhausted, Continue, Halt, Halted,
     Worktree, NodeRung, NodeFiles, RewritesStartClean, InterventionIsHonest, ApproveEnds,
     ApprovalIsEarned, doneVars, ladderVars, writeVars, reviewVars, haltVars
<1>3. CASE ArgusResearch
  BY <1>0, <1>3 DEF ArgusResearch, ChainExhausted, Continue, Halt, Halted, Worktree,
     NodeRung, NodeFiles, RewritesStartClean, InterventionIsHonest, ApproveEnds,
     ApprovalIsEarned, planVars, doneVars, ladderVars, writeVars, reviewVars, haltVars
<1>4. CASE Daedalus \/ ChironPatches
  <2>1. /\ pc \in {"daedalus", "chiron"}
        /\ UNCHANGED reviewVars
        /\ \/ pc' = "talos" /\ worktree' = "written" /\ intervention' = "model_authored"
           \/ pc' = "cerberus" /\ Halted'
    BY <1>4 DEF Daedalus, ChironPatches, AfterWrite, Escape, ChainExhausted, Continue,
       Halt, Trip, Halted
  <2>2. QED
    BY <2>1 DEF Worktree, NodeRung, NodeFiles, RewritesStartClean, InterventionIsHonest,
       ApproveEnds, ApprovalIsEarned, reviewVars
<1>5. CASE ChironDeclines
  BY <1>0, <1>5 DEF ChironDeclines, Continue, Halted, Worktree, NodeRung, NodeFiles,
     RewritesStartClean, InterventionIsHonest, ApproveEnds, ApprovalIsEarned,
     planVars, doneVars, ladderVars, reviewVars, haltVars
<1>6. CASE TalosPasses
  BY <1>0, <1>6 DEF TalosPasses, ResetForNewTask, Continue, Halted, Worktree, NodeRung,
     NodeFiles, RewritesStartClean, InterventionIsHonest, ApproveEnds, ApprovalIsEarned,
     reviewVars, haltVars
<1>7. ASSUME NEW report, NEW signature, TalosFails(report, signature)
      PROVE  Worktree'
  <2>1. /\ pc = "talos"
        /\ UNCHANGED reviewVars
        /\ worktree' # "written"
        /\ review_verdict # "approve"
        /\ ladder_rung \in 0..4
    BY <1>7 DEF TalosFails, ObserveFailure, Worktree, ApproveEnds, Control, TypeOK, Rungs
  <2>2. CASE FailureHalts
    BY <2>1, <2>2 DEF FailureHalts, Halted, Worktree, NodeRung, NodeFiles,
       RewritesStartClean, InterventionIsHonest, ApproveEnds, ApprovalIsEarned, reviewVars
  <2>3. CASE FailureClimbs
    <3>1. /\ pc' = RouteByRung(ladder_rung')
          /\ ladder_rung' \in 0..4
          /\ ladder_rung' = 0 => intervention' = "none"
      BY <2>1, <2>3 DEF FailureClimbs
    <3>2. \/ pc' = "talos" /\ ladder_rung' = 0 /\ intervention' = "none"
          \/ pc' = "chiron" /\ ladder_rung' = 1
          \/ pc' = "argus_research" /\ ladder_rung' = 2
          \/ pc' = "rollback" /\ ladder_rung' = 3
          \/ pc' = "odysseus" /\ ladder_rung' = 4
      BY <3>1 DEF RouteByRung
    <3>3. QED
      BY <2>1, <3>2 DEF Worktree, NodeRung, NodeFiles, RewritesStartClean,
         InterventionIsHonest, ApproveEnds, ApprovalIsEarned, reviewVars
  <2>4. QED
    BY <1>7, <2>2, <2>3, FailureSplits DEF Control
<1>8. CASE Rollback
  BY <1>0, <1>8 DEF Rollback, Continue, Halted, Worktree, NodeRung, NodeFiles,
     RewritesStartClean, InterventionIsHonest, ApproveEnds, ApprovalIsEarned,
     ladderVars, reviewVars, haltVars
<1>9. CASE CerberusReportsHalt \/ CerberusUnreviewed \/ CerberusEscalates
  BY <1>9 DEF CerberusReportsHalt, CerberusUnreviewed, CerberusEscalates, Escalate, Review,
     Halted, Worktree, NodeRung, NodeFiles, RewritesStartClean, InterventionIsHonest,
     ApproveEnds, ApprovalIsEarned, haltVars
<1>10. CASE CerberusApproves
  <2>1. /\ ~Halted
        /\ breaker_trips = <<>>
        /\ plan # <<>>
        /\ Len(checkpoints) = Len(plan)
        /\ worktree = "committed"
    BY <1>0, <1>10 DEF CerberusApproves, Halted, Control, NodePlan, CheckpointsArePlanPrefix,
       Worktree, NodeFiles
  <2>2. /\ pc' = "END"
        /\ review_verdict' = "approve"
        /\ UNCHANGED <<planVars, doneVars, haltVars, worktree>>
    BY <1>10 DEF CerberusApproves, Review, writeVars
  <2>3. ~Halted' /\ ApprovalIsEarned'
    BY <2>1, <2>2 DEF ApprovalIsEarned, Halted, planVars, doneVars, haltVars
  <2>4. QED
    BY <2>1, <2>2, <2>3 DEF Worktree, NodeRung, NodeFiles, RewritesStartClean,
       InterventionIsHonest, ApproveEnds
<1>11. CASE CerberusReturnsToCoder \/ CerberusReturnsToPlanner
  BY <1>0, <1>11 DEF CerberusReturnsToCoder, CerberusReturnsToPlanner, Review, Continue,
     Halted, Worktree, NodeRung, NodeFiles, RewritesStartClean, InterventionIsHonest,
     ApproveEnds, ApprovalIsEarned, ladderVars, writeVars, haltVars
<1>12. CASE UncaughtError
  BY <1>0, <1>12 DEF UncaughtError, Nodes, Halted, Worktree, NodeRung, NodeFiles,
     RewritesStartClean, InterventionIsHonest, ApproveEnds, ApprovalIsEarned,
     reviewVars
<1>13. CASE Terminated \/ UNCHANGED vars
  BY <1>13 DEF Terminated, vars, Halted, Worktree, NodeRung, NodeFiles, RewritesStartClean,
     InterventionIsHonest, ApproveEnds, ApprovalIsEarned, planVars, doneVars, ladderVars,
     writeVars, reviewVars, haltVars
<1>14. QED
  BY <1>1, <1>2, <1>3, <1>4, <1>5, <1>6, <1>7, <1>8, <1>9, <1>10, <1>11, <1>12, <1>13
     DEF Next, Talos, Cerberus

\* A fresh AgentState satisfies the worktree layer.
LEMMA WorktreeInit == Init => Worktree
BY NoneAssumption DEF Init, Halted, Worktree, NodeRung, NodeFiles, RewritesStartClean,
   InterventionIsHonest, ApproveEnds, ApprovalIsEarned

\* The worktree layer holds in every state of every run.
THEOREM WorktreeInvariant == Spec => []Worktree
<1>1. Control /\ Control' /\ Worktree /\ [Next]_vars => Worktree'
  BY WorktreeStep
<1>2. QED
  BY ControlInvariant, WorktreeInit, <1>1, PTL DEF Spec

(* An approved run completed every task of its plan, is not halted, fired  *)
(* no breaker and holds nothing Talos has not passed; any other run that   *)
(* ends is an escalation with its reason.                                  *)
THEOREM ApprovalsAreEarned == Spec => []ApprovalIsEarned
BY WorktreeInvariant, PTL DEF Worktree

(* A first write and an L3 rewrite start from the last checkpoint.         *)
THEOREM RewritesAreClean == Spec => []RewritesStartClean
BY WorktreeInvariant, PTL DEF Worktree

(* The intervention Talos is told is the one that happened.                *)
THEOREM InterventionsAreHonest == Spec => []InterventionIsHonest
BY WorktreeInvariant, PTL DEF Worktree

-----------------------------------------------------------------------------
(* Layer 3, Ladder: the counters the breakers and the ladder read.         *)

Working == {"argus_skeleton", "odysseus", "argus_research", "rollback",
            "daedalus", "chiron", "cerberus"}

\* Attempts stay within the rung's budget; work past L0 follows a write; a
\* task's first step and Cerberus's review find an empty window.
LadderState ==
  /\ rung_attempts <= RungBudgets[ladder_rung]
  /\ ladder_rung > 0 \/ pc = "talos" => diff_history # <<>>
  /\ pc \in {"argus_skeleton", "cerberus"} /\ ~Halted => diff_history = <<>>

\* The streak is behind the recorded diffs, by two when a diff is waiting
\* for its evaluation.
StreakCounts ==
  /\ failure_signature = None => signature_streak = 0
  /\ failure_signature # None =>
       /\ signature_streak < Len(diff_history)
       /\ ~Halted /\ worktree = "written" => signature_streak + 1 < Len(diff_history)

\* The next write of a working run is already granted.
WriteGranted ==
  ~Halted /\ pc \in Working
    => iterations_this_task + 1 <= LadderWrites(ladder_rung, rung_attempts)

\* While Talos evaluates, only the newest diff can be a repeat.
FrontDistinct ==
  pc = "talos" =>
    \A i, j \in 1..Len(diff_history) - 1 : diff_history[i] = diff_history[j] => i = j

\* The objections travel with a coder's rejection up to Daedalus.
ObjectionsAtHand ==
  reject_destination = "coder" /\ pc \in {"argus_research", "daedalus"}
    => cerberus_notes = "objections"

Ladder ==
  /\ LadderState
  /\ StreakCounts
  /\ WritesWithinLadder
  /\ WriteGranted
  /\ FrontDistinct
  /\ NoThrashSurvives
  /\ RejectionIsConsumed
  /\ ObjectionsAtHand

Safe == Control /\ Worktree /\ Ladder

\* The graph's steps, by what they do to the ladder, the window and the
\* counters.
Writes ==
  /\ pc \in {"daedalus", "chiron"}
  /\ iterations_this_task' = iterations_this_task + 1
  /\ UNCHANGED <<ladderVars, failVars>>
  /\ \/ /\ \E diff \in Diffs : diff_history' = RecordDiff(diff_history, diff)
        /\ worktree' = "written"
        /\ \/ pc' = "talos" /\ UNCHANGED haltVars
           \/ pc' = "cerberus" /\ Halted'
     \/ pc' = "cerberus" /\ Halted' /\ UNCHANGED diff_history
     \/ /\ pc' = "talos" /\ UNCHANGED <<diff_history, worktree, haltVars>>
        /\ pc = "chiron"

Moves ==
  /\ pc \in Nodes \ {"talos", "daedalus", "chiron"}
  /\ UNCHANGED <<ladderVars, failVars, iterations_this_task, diff_history>>
  /\ worktree' \in {worktree, "committed"}
  /\ \/ /\ UNCHANGED haltVars
        /\ \/ pc = "argus_skeleton" /\ pc' = "odysseus"
           \/ pc = "odysseus" /\ pc' = "argus_research"
           \/ /\ pc = "argus_research"
              /\ pc' = IF ladder_rung = 2 THEN "chiron" ELSE "daedalus"
           \/ pc = "rollback" /\ pc' = "daedalus"
           \/ pc = "cerberus" /\ ~Halted /\ pc' \in {"argus_research", "odysseus"}
           \/ pc = "cerberus" /\ pc' = "END"
     \/ Halted' /\ pc' \in {"cerberus", "END"}

Stops == pc' = "raised" /\ UNCHANGED <<ladderVars, failVars, writeVars, haltVars>>

\* Every step is a write, an evaluation, a move or a stop.
LEMMA StepKinds ==
  ASSUME Safe, [Next]_vars
  PROVE  \/ Writes
         \/ Moves
         \/ TalosPasses
         \/ \E report \in {"failed", "infrastructure"},
               signature \in Signatures \cup InfraSignatures : TalosFails(report, signature)
         \/ Stops
         \/ UNCHANGED vars
<1> USE NoneAssumption
<1>1. CASE ArgusSkeleton
  BY <1>1 DEF ArgusSkeleton, Continue, Halt, Halted, Moves, Nodes, writeVars
<1>2. CASE OdysseusPlans \/ OdysseusHalts
  BY <1>2 DEF OdysseusPlans, OdysseusHalts, ChainExhausted, Continue, Halt, Halted, Moves,
     Nodes, writeVars
<1>3. CASE ArgusResearch
  BY <1>3 DEF ArgusResearch, ChainExhausted, Continue, Halt, Halted, Moves, Nodes, writeVars
<1>4. CASE Daedalus
  BY <1>4 DEF Daedalus, AfterWrite, Escape, ChainExhausted, Continue, Halt, Trip, Halted,
     Writes
<1>5. CASE ChironDeclines
  BY <1>5 DEF ChironDeclines, Continue, Writes
<1>6. CASE ChironPatches
  BY <1>6 DEF ChironPatches, AfterWrite, Escape, ChainExhausted, Continue, Halt, Trip,
     Halted, Writes
<1>7. CASE Rollback
  BY <1>7 DEF Rollback, Continue, Moves, Nodes
<1>8. CASE CerberusReportsHalt \/ CerberusApproves
  BY <1>8 DEF CerberusReportsHalt, CerberusApproves, Review, Moves, Nodes, writeVars
<1>9. CASE CerberusUnreviewed \/ CerberusEscalates
  BY <1>9 DEF CerberusUnreviewed, CerberusEscalates, Escalate, Review, Halted, Moves,
     Nodes, writeVars
<1>10. CASE CerberusReturnsToCoder \/ CerberusReturnsToPlanner
  BY <1>10 DEF CerberusReturnsToCoder, CerberusReturnsToPlanner, Review, Continue, Moves,
     Nodes, writeVars
<1>11. CASE UncaughtError
  BY <1>11 DEF UncaughtError, Stops
<1>12. QED
  BY <1>1, <1>2, <1>3, <1>4, <1>5, <1>6, <1>7, <1>8, <1>9, <1>10, <1>11
     DEF Next, Talos, Cerberus, Terminated

\* What the ladder grants grows by one write with each attempt past L0.
LEMMA LadderGrants ==
  ASSUME NEW rung \in 0..4, NEW attempts \in Nat
  PROVE  /\ LadderWrites(rung, attempts) \in Nat
         /\ rung > 0 => LadderWrites(rung, attempts + 1) = LadderWrites(rung, attempts) + 1
         /\ LadderWrites(0, attempts) = 1
         /\ rung < 4 /\ attempts <= RungBudgets[rung]
              => LadderWrites(rung, attempts) + 1 <= LadderWrites(rung + 1, 1)
<1>1. \A r \in 0..4 : RungBudgets[r] \in Nat \ {0}
  BY BudgetAssumption DEF Rungs
<1>2. rung \in {0, 1, 2, 3, 4}
  OBVIOUS
<1>3. CASE rung = 0
  BY <1>3 DEF LadderWrites, WritesBelow
<1>4. CASE rung = 1
  BY <1>1, <1>4 DEF LadderWrites, WritesBelow
<1>5. CASE rung = 2
  BY <1>1, <1>5 DEF LadderWrites, WritesBelow
<1>6. CASE rung = 3
  BY <1>1, <1>6 DEF LadderWrites, WritesBelow
<1>7. CASE rung = 4
  BY <1>1, <1>7 DEF LadderWrites, WritesBelow
<1>8. QED
  BY <1>2, <1>3, <1>4, <1>5, <1>6, <1>7

\* The types a ladder step reads.
LEMMA LadderTypes ==
  ASSUME Safe
  PROVE  /\ ladder_rung \in 0..4
         /\ rung_attempts \in Nat
         /\ iterations_this_task \in Nat
         /\ signature_streak \in Nat
         /\ diff_history \in Seq(Diffs)
         /\ Len(diff_history) \in Nat
         /\ diff_history # <<>> <=> Len(diff_history) >= 1
         /\ RungBudgets[ladder_rung] \in Nat \ {0}
         /\ failure_signature # None \/ failure_signature = None
         /\ Halted => pc \in {"cerberus", "END"}
         /\ ~Halted => signature_streak < 3
<1>1. diff_history \in Seq(Diffs)
  BY DEF Safe, Control, TypeOK
<1>2. Len(diff_history) \in Nat /\ (diff_history # <<>> <=> Len(diff_history) >= 1)
  BY <1>1
<1>3. QED
  BY <1>1, <1>2, BudgetAssumption DEF Safe, Control, TypeOK, HaltsReachCerberus, StreakOpen,
     SIGNATURE_STREAK_LIMIT, Rungs

\* The window after a write: the new diff comes last.
LEMMA WindowGrows ==
  ASSUME Safe, NEW diff \in Diffs
  PROVE  /\ RecordDiff(diff_history, diff) # <<>>
         /\ \A n \in Nat : n < Len(diff_history) /\ n <= 3
                         => n + 1 < Len(RecordDiff(diff_history, diff))
<1>1. /\ RecordDiff(diff_history, diff) \in Seq(Diffs)
      /\ Len(RecordDiff(diff_history, diff)) =
           IF Len(diff_history) < DIFF_HISTORY_WINDOW THEN Len(diff_history) + 1
                                                      ELSE DIFF_HISTORY_WINDOW
      /\ Len(diff_history) \in Nat
  BY LadderTypes, RecordDiffFacts
<1>2. Len(RecordDiff(diff_history, diff)) >= 1
  BY <1>1 DEF DIFF_HISTORY_WINDOW
<1>3. RecordDiff(diff_history, diff) # <<>>
  BY <1>1, <1>2, EmptySeq
<1>4. \A n \in Nat : n < Len(diff_history) /\ n <= 3
                         => n + 1 < Len(RecordDiff(diff_history, diff))
  BY <1>1 DEF DIFF_HISTORY_WINDOW
<1>5. QED
  BY <1>3, <1>4

\* Every step keeps each node at a rung that routes to it.
LEMMA LadderStateStep ==
  ASSUME Safe, [Next]_vars
  PROVE  LadderState'
<1> USE LadderTypes, NoneAssumption
<1>0. LadderState
  BY DEF Safe, Ladder
<1>1. CASE Writes
  <2>1. diff_history' # <<>> \/ (diff_history' = diff_history)
    BY <1>1, WindowGrows DEF Writes
  <2>2. diff_history # <<>> => diff_history' # <<>>
    BY <2>1
  <2>3. pc' = "talos" => diff_history' # <<>>
    <3>1. pc = "chiron" => ladder_rung > 0
      BY DEF Safe, Worktree, NodeRung
    <3>2. QED
      BY <1>1, <3>1, <1>0, WindowGrows, <2>2 DEF Writes, LadderState
  <2>4. QED
    BY <1>0, <1>1, <2>2, <2>3 DEF LadderState, Writes, ladderVars
<1>2. CASE Moves
  BY <1>0, <1>2 DEF LadderState, Moves, ladderVars, Halted, haltVars
<1>3. CASE TalosPasses
  BY <1>3, BudgetAssumption DEF TalosPasses, ResetForNewTask, LadderState, Continue, Rungs
<1>4. ASSUME NEW report, NEW signature, TalosFails(report, signature)
      PROVE  LadderState'
  <2>1. diff_history # <<>> /\ UNCHANGED diff_history
    BY <1>0, <1>4 DEF LadderState, TalosFails
  <2>2. CASE FailureHalts
    BY <1>0, <2>1, <2>2 DEF FailureHalts, LadderState, Halted, ladderVars
  <2>3. CASE FailureClimbs
    <3>1. ladder_rung' \in 0..4 /\ rung_attempts' <= RungBudgets[ladder_rung']
      <4>1. \A rung \in 0..4 : RungBudgets[rung] \in Nat \ {0}
        BY BudgetAssumption DEF Rungs
      <4>2. CASE ladder_rung' = ladder_rung
        BY <2>3, <4>1, <4>2 DEF FailureClimbs
      <4>3. CASE ladder_rung' = ladder_rung + 1 /\ ladder_rung < 4 /\ rung_attempts' = 1
        <5>1. ladder_rung' \in 0..4 /\ RungBudgets[ladder_rung'] >= 1
          BY <4>1, <4>3
        <5>2. QED
          BY <4>3, <5>1
      <4>4. QED
        BY <2>3, <4>2, <4>3 DEF FailureClimbs
    <3>2. pc' \notin {"argus_skeleton", "cerberus"}
      BY <2>3, <3>1 DEF FailureClimbs, RouteByRung
    <3>3. QED
      BY <2>1, <3>1, <3>2 DEF LadderState
  <2>4. QED
    BY <1>4, <2>2, <2>3, FailureSplits DEF Safe, Control
<1>5. CASE Stops
  BY <1>0, <1>5 DEF Stops, LadderState, ladderVars, writeVars
<1>6. CASE UNCHANGED vars
  BY <1>0, <1>6 DEF vars, LadderState, Halted, ladderVars, writeVars, haltVars
<1>7. QED
  BY <1>1, <1>2, <1>3, <1>4, <1>5, <1>6, StepKinds

\* Every step keeps CB-4's streak below the diffs written for the task.
LEMMA StreakCountsStep ==
  ASSUME Safe, [Next]_vars
  PROVE  StreakCounts'
<1> USE LadderTypes, NoneAssumption
<1>0. StreakCounts /\ LadderState
  BY DEF Safe, Ladder
<1>1. CASE Writes
  <2>1. ~Halted /\ worktree # "written" /\ UNCHANGED failVars
    BY <1>1 DEF Writes, Safe, Worktree, NodeFiles
  <2>2. CASE \E diff \in Diffs : diff_history' = RecordDiff(diff_history, diff)
    <3>1. PICK diff \in Diffs : diff_history' = RecordDiff(diff_history, diff)
      BY <2>2
    <3>2. signature_streak < Len(diff_history) => signature_streak + 1 < Len(diff_history')
      BY <2>1, <3>1, WindowGrows
    <3>3. Len(diff_history') \in Nat
      BY <3>1, RecordDiffFacts
    <3>4. QED
      BY <1>0, <2>1, <3>2, <3>3 DEF StreakCounts, failVars
  <2>3. CASE UNCHANGED diff_history /\ (Halted' \/ UNCHANGED worktree)
    BY <1>0, <2>1, <2>3 DEF StreakCounts, failVars
  <2>4. QED
    BY <1>1, <2>2, <2>3 DEF Writes
<1>2. CASE Moves
  BY <1>0, <1>2 DEF StreakCounts, Moves, failVars, Halted, haltVars
<1>3. CASE TalosPasses
  BY <1>3 DEF TalosPasses, ResetForNewTask, StreakCounts
<1>4. ASSUME NEW report, NEW signature \in Signatures \cup InfraSignatures,
             TalosFails(report, signature)
      PROVE  StreakCounts'
  <2>1. /\ pc = "talos"
        /\ ~Halted
        /\ UNCHANGED diff_history
        /\ failure_signature' = signature
        /\ signature_streak' = StreakAfter(failure_signature, signature_streak,
                                           signature, intervention)
        /\ worktree' # "written"
    BY <1>4 DEF TalosFails, ObserveFailure
  <2>2. intervention = "model_authored" <=> worktree = "written"
    BY <2>1 DEF Safe, Worktree, InterventionIsHonest
  <2>3. Len(diff_history) >= 1 /\ signature # None
    BY <1>0, <2>1, GraphAssumption DEF LadderState
  <2>4. signature_streak' < Len(diff_history)
    BY <1>0, <2>1, <2>2, <2>3 DEF StreakCounts, StreakAfter
  <2>5. QED
    BY <2>1, <2>3, <2>4 DEF StreakCounts
<1>5. CASE Stops
  BY <1>0, <1>5 DEF Stops, StreakCounts, Halted, failVars, writeVars, haltVars
<1>6. CASE UNCHANGED vars
  BY <1>0, <1>6 DEF vars, StreakCounts, Halted, failVars, writeVars, haltVars
<1>7. QED
  BY <1>1, <1>2, <1>3, <1>4, <1>5, <1>6, StepKinds

\* Every step keeps the write attempts within what the ladder granted.
LEMMA WritesStep ==
  ASSUME Safe, [Next]_vars
  PROVE  WritesWithinLadder' /\ WriteGranted'
<1> USE LadderTypes, NoneAssumption
<1>0. WritesWithinLadder /\ WriteGranted /\ LadderState
  BY DEF Safe, Ladder
<1>a. LadderWrites(ladder_rung, rung_attempts) \in Nat
  BY LadderGrants
<1>1. CASE Writes
  <2>1. iterations_this_task + 1 <= LadderWrites(ladder_rung, rung_attempts)
    BY <1>0, <1>1 DEF Writes, WriteGranted, Working
  <2>2. QED
    BY <1>1, <2>1 DEF Writes, WritesWithinLadder, WriteGranted, Working, ladderVars
<1>2. CASE Moves
  BY <1>0, <1>2 DEF Moves, WritesWithinLadder, WriteGranted, Working, Nodes, Halted,
     ladderVars, haltVars
<1>3. CASE TalosPasses
  BY <1>3, LadderGrants DEF TalosPasses, ResetForNewTask, WritesWithinLadder, WriteGranted
<1>4. ASSUME NEW report, NEW signature, TalosFails(report, signature)
      PROVE  WritesWithinLadder' /\ WriteGranted'
  <2>1. UNCHANGED iterations_this_task
    BY <1>4 DEF TalosFails
  <2>2. CASE FailureHalts
    BY <1>0, <2>1, <2>2 DEF FailureHalts, WritesWithinLadder, WriteGranted, Halted, ladderVars
  <2>3. CASE FailureClimbs
    <3>1. iterations_this_task <= LadderWrites(ladder_rung, rung_attempts)
      BY <1>0 DEF WritesWithinLadder
    <3>2. CASE ladder_rung' = ladder_rung /\ rung_attempts' = rung_attempts + 1
      <4>1. CASE ladder_rung = 0
        <5>1. LadderWrites(0, rung_attempts) = 1 /\ LadderWrites(0, rung_attempts + 1) = 1
          BY DEF LadderWrites
        <5>2. pc' = "talos"
          BY <2>3, <3>2, <4>1 DEF FailureClimbs, RouteByRung
        <5>3. QED
          BY <2>1, <3>1, <3>2, <4>1, <5>1, <5>2 DEF WritesWithinLadder, WriteGranted, Working
      <4>2. CASE ladder_rung > 0
        <5>1. LadderWrites(ladder_rung, rung_attempts + 1)
                = LadderWrites(ladder_rung, rung_attempts) + 1
          BY <4>2, LadderGrants
        <5>2. QED
          BY <1>a, <2>1, <3>1, <3>2, <5>1 DEF WritesWithinLadder, WriteGranted
      <4>3. QED
        BY <4>1, <4>2
    <3>3. CASE ladder_rung < 4 /\ ladder_rung' = ladder_rung + 1 /\ rung_attempts' = 1
      <4>1. LadderWrites(ladder_rung, rung_attempts) + 1 <= LadderWrites(ladder_rung + 1, 1)
        BY <1>0, <3>3, LadderGrants DEF LadderState
      <4>2. LadderWrites(ladder_rung + 1, 1) \in Nat
        <5>1. ladder_rung + 1 \in 0..4 /\ 1 \in Nat
          BY <3>3
        <5>2. QED
          BY ONLY <5>1, LadderGrants
      <4>3. QED
        BY <1>a, <2>1, <3>1, <3>3, <4>1, <4>2 DEF WritesWithinLadder, WriteGranted
    <3>4. QED
      BY <2>3, <3>2, <3>3 DEF FailureClimbs
  <2>4. QED
    BY <1>4, <2>2, <2>3, FailureSplits DEF Safe, Control
<1>5. CASE Stops
  BY <1>0, <1>5 DEF Stops, WritesWithinLadder, WriteGranted, Working, ladderVars, writeVars
<1>6. CASE UNCHANGED vars
  BY <1>0, <1>6 DEF vars, WritesWithinLadder, WriteGranted, Halted, ladderVars, writeVars,
     haltVars
<1>7. QED
  BY <1>1, <1>2, <1>3, <1>4, <1>5, <1>6, StepKinds

\* Every step keeps the diff window free of repeats unless Talos runs next.
LEMMA ThrashStep ==
  ASSUME Safe, [Next]_vars
  PROVE  FrontDistinct' /\ NoThrashSurvives'
<1> USE LadderTypes, NoneAssumption
<1>0. FrontDistinct /\ NoThrashSurvives /\ LadderState
  BY DEF Safe, Ladder
<1>1. CASE Writes
  <2>1. \A i, j \in 1..Len(diff_history) : diff_history[i] = diff_history[j] => i = j
    BY <1>0, <1>1 DEF Writes, NoThrashSurvives
  <2>2. pc' \in {"talos", "cerberus"}
    BY <1>1 DEF Writes
  <2>3. CASE UNCHANGED diff_history
    BY <2>1, <2>2, <2>3 DEF FrontDistinct, NoThrashSurvives
  <2>4. CASE \E diff \in Diffs : diff_history' = RecordDiff(diff_history, diff)
    <3>1. PICK diff \in Diffs : diff_history' = RecordDiff(diff_history, diff)
      BY <2>4
    <3>2. diff_history \in Seq(Diffs)
      BY LadderTypes
    <3>3. \A i, j \in 1..Len(diff_history') - 1 :
            diff_history'[i] = diff_history'[j] => i = j
      BY <2>1, <3>1, <3>2, RecordDiffDistinct
    <3>4. QED
      BY <2>2, <3>3 DEF FrontDistinct, NoThrashSurvives
  <2>5. QED
    BY <1>1, <2>3, <2>4 DEF Writes
<1>2. CASE Moves
  <2>1. pc' # "talos" /\ UNCHANGED diff_history
    BY <1>2 DEF Moves
  <2>2. \/ pc \in {"odysseus", "argus_research", "rollback"}
        \/ diff_history = <<>>
        \/ pc' \in {"cerberus", "END"}
    BY <1>0, <1>2 DEF Moves, LadderState, Nodes
  <2>3. QED
    BY <1>0, <2>1, <2>2, EmptySeq DEF FrontDistinct, NoThrashSurvives
<1>3. CASE TalosPasses
  BY <1>3 DEF TalosPasses, ResetForNewTask, Continue, FrontDistinct, NoThrashSurvives
<1>4. ASSUME NEW report, NEW signature, TalosFails(report, signature)
      PROVE  FrontDistinct' /\ NoThrashSurvives'
  <2>1. pc = "talos" /\ UNCHANGED diff_history
    BY <1>4 DEF TalosFails
  <2>2. \A i, j \in 1..Len(diff_history) - 1 : diff_history[i] = diff_history[j] => i = j
    BY <1>0, <2>1 DEF FrontDistinct
  <2>3. CASE FailureHalts
    BY <2>3 DEF FailureHalts, FrontDistinct, NoThrashSurvives
  <2>4. CASE ~DiffThrash(diff_history)
    <3>1. \A i \in 1..Len(diff_history) - 1 : diff_history[i] # diff_history[Len(diff_history)]
      BY <2>4 DEF DiffThrash
    <3>2. \A i, j \in 1..Len(diff_history) : diff_history[i] = diff_history[j] => i = j
      <4> TAKE i, j \in 1..Len(diff_history)
      <4>1. CASE i = Len(diff_history) \/ j = Len(diff_history)
        BY <3>1, <4>1
      <4>2. CASE i \in 1..Len(diff_history) - 1 /\ j \in 1..Len(diff_history) - 1
        BY <2>2, <4>2
      <4>3. QED
        BY <4>1, <4>2
    <3>3. QED
      BY <2>1, <2>2, <3>2 DEF FrontDistinct, NoThrashSurvives
  <2>5. QED
    BY <1>4, <2>3, <2>4, FailureSplits DEF Safe, Control
<1>5. CASE Stops
  BY <1>5 DEF Stops, FrontDistinct, NoThrashSurvives
<1>6. CASE UNCHANGED vars
  BY <1>0, <1>6 DEF vars, FrontDistinct, NoThrashSurvives, writeVars
<1>7. QED
  BY <1>1, <1>2, <1>3, <1>4, <1>5, <1>6, StepKinds

\* The rejection goes to the node it names and is consumed there.
LEMMA RejectionStep ==
  ASSUME Safe, [Next]_vars
  PROVE  RejectionIsConsumed' /\ ObjectionsAtHand'
<1> USE NoneAssumption
<1>0. /\ RejectionIsConsumed /\ ObjectionsAtHand
      /\ Halted => pc \in {"cerberus", "END"}
  BY DEF Safe, Ladder, Control, HaltsReachCerberus
<1>1. CASE ArgusSkeleton \/ Rollback \/ ChironDeclines \/ ChironPatches
  <2>1. reject_destination = None \/ FALSE
    <3>1. pc \in {"argus_skeleton", "rollback", "chiron"} /\ ~Halted
      BY <1>0, <1>1 DEF ArgusSkeleton, Rollback, ChironDeclines, ChironPatches
    <3>2. QED
      BY <1>0, <3>1 DEF RejectionIsConsumed, Safe, Control, TypeOK
  <2>2. QED
    BY <1>1, <2>1 DEF ArgusSkeleton, Rollback, ChironDeclines, ChironPatches,
       RejectionIsConsumed, ObjectionsAtHand
<1>2. CASE OdysseusPlans \/ OdysseusHalts \/ Daedalus
  BY <1>2 DEF OdysseusPlans, OdysseusHalts, Daedalus, ConsumeRejection,
     RejectionIsConsumed, ObjectionsAtHand
<1>3. CASE ArgusResearch
  <2>1. pc = "argus_research" /\ UNCHANGED <<ladderVars, writeVars, reviewVars, reject_destination>>
    BY <1>3 DEF ArgusResearch
  <2>2. \/ pc' = "cerberus" /\ Halted'
        \/ pc' \in {"chiron", "daedalus"} /\ (ladder_rung # 2 => pc' = "daedalus")
    BY <1>3 DEF ArgusResearch, ChainExhausted, Continue, Halt, Halted
  <2>3. QED
    BY <1>0, <2>1, <2>2 DEF RejectionIsConsumed, ObjectionsAtHand, ladderVars, writeVars,
       reviewVars
<1>4. ASSUME pc = "talos", ~Halted, UNCHANGED reject_destination
      PROVE  RejectionIsConsumed' /\ ObjectionsAtHand'
  <2>1. reject_destination = None
    BY <1>0, <1>4 DEF RejectionIsConsumed, Safe, Control, TypeOK
  <2>2. QED
    BY <1>4, <2>1 DEF RejectionIsConsumed, ObjectionsAtHand
<1>5. CASE Talos
  <2>1. pc = "talos" /\ UNCHANGED reject_destination
    BY <1>5 DEF Talos, TalosPasses, TalosFails
  <2>2. QED
    BY <1>0, <1>4, <2>1
<1>6. CASE CerberusReportsHalt
  BY <1>0, <1>6 DEF CerberusReportsHalt, Review, RejectionIsConsumed, ObjectionsAtHand,
     Halted, ladderVars, writeVars, haltVars
<1>7. CASE CerberusUnreviewed \/ CerberusApproves \/ CerberusEscalates
  <2>1. pc = "cerberus" /\ ~Halted /\ UNCHANGED reject_destination
    BY <1>7 DEF CerberusUnreviewed, CerberusApproves, CerberusEscalates, Escalate
  <2>2. reject_destination = None
    BY <1>0, <2>1 DEF RejectionIsConsumed, Safe, Control, TypeOK
  <2>3. QED
    BY <2>1, <2>2 DEF RejectionIsConsumed, ObjectionsAtHand
<1>8. CASE CerberusReturnsToCoder \/ CerberusReturnsToPlanner
  <2>1. pc = "cerberus" /\ ~Halted /\ UNCHANGED <<ladderVars, writeVars>>
    BY <1>8 DEF CerberusReturnsToCoder, CerberusReturnsToPlanner, Review
  <2>2. ladder_rung = 0
    BY <2>1 DEF Safe, Worktree, NodeRung
  <2>3. iterations_this_task = 0
    BY <2>1, <2>2, LadderTypes DEF Safe, Ladder, WriteGranted, Working, LadderWrites
  <2>4. \/ reject_destination' = "coder" /\ pc' = "argus_research"
           /\ cerberus_notes' = "objections"
        \/ reject_destination' = "planner" /\ pc' = "odysseus"
    BY <1>8 DEF CerberusReturnsToCoder, CerberusReturnsToPlanner, Review, Continue
  <2>5. QED
    BY <2>1, <2>2, <2>3, <2>4 DEF RejectionIsConsumed, ObjectionsAtHand, ladderVars, writeVars
<1>9. CASE UncaughtError
  BY <1>0, <1>9 DEF UncaughtError, RejectionIsConsumed, ObjectionsAtHand, Halted,
     ladderVars, writeVars, haltVars
<1>10. CASE Terminated \/ UNCHANGED vars
  BY <1>0, <1>10 DEF Terminated, vars, RejectionIsConsumed, ObjectionsAtHand, Halted,
     ladderVars, writeVars, reviewVars, haltVars
<1>11. QED
  BY <1>1, <1>2, <1>3, <1>5, <1>6, <1>7, <1>8, <1>9, <1>10 DEF Next, Cerberus

\* A fresh AgentState satisfies the ladder layer.
LEMMA LadderInit == Init => Ladder
<1> SUFFICES ASSUME Init PROVE Ladder
  OBVIOUS
<1>1. LadderState
  BY BudgetAssumption DEF Init, LadderState, Rungs
<1>2. StreakCounts /\ WritesWithinLadder /\ WriteGranted
  BY DEF Init, StreakCounts, WritesWithinLadder, WriteGranted, LadderWrites
<1>3. FrontDistinct /\ NoThrashSurvives
  BY DEF Init, FrontDistinct, NoThrashSurvives
<1>4. RejectionIsConsumed /\ ObjectionsAtHand
  BY NoneAssumption DEF Init, RejectionIsConsumed, ObjectionsAtHand
<1>5. QED
  BY <1>1, <1>2, <1>3, <1>4 DEF Ladder

\* The three layers together hold in every state of every run.
THEOREM SafetyInvariant == Spec => []Safe
<1>1. Control /\ Worktree /\ Ladder /\ [Next]_vars => Ladder'
  <2> SUFFICES ASSUME Control, Worktree, Ladder, [Next]_vars PROVE Ladder'
    OBVIOUS
  <2>1. Safe
    BY DEF Safe
  <2>2. QED
    BY <2>1, LadderStateStep, StreakCountsStep, WritesStep, ThrashStep, RejectionStep
       DEF Ladder
<1>2. Spec => []Ladder
  BY ControlInvariant, WorktreeInvariant, LadderInit, <1>1, PTL DEF Spec
<1>3. QED
  BY ControlInvariant, WorktreeInvariant, <1>2, PTL DEF Safe

(* CB-4's streak never exceeds the model-authored diffs of the task other  *)
(* than its baseline.                                                      *)
THEOREM StreaksNeedWrites == Spec => []StreakNeedsWrites
<1>1. Safe => StreakNeedsWrites
  BY LadderTypes DEF Safe, Ladder, StreakCounts, StreakNeedsWrites
<1>2. QED
  BY SafetyInvariant, <1>1, PTL

(* The ladder bounds the write attempts of a task, for every budget.       *)
THEOREM LadderBoundsWrites == Spec => []WritesWithinLadder
<1>1. Safe => WritesWithinLadder
  BY DEF Safe, Ladder
<1>2. QED
  BY SafetyInvariant, <1>1, PTL

(* CB-5: no model is asked again while two diffs of the window are equal.  *)
THEOREM ThrashIsCaught == Spec => []NoThrashSurvives
<1>1. Safe => NoThrashSurvives
  BY DEF Safe, Ladder
<1>2. QED
  BY SafetyInvariant, <1>1, PTL

(* A rejection is read by the node it names, on a fresh ladder, and by no  *)
(* later one.                                                              *)
THEOREM RejectionsAreConsumed == Spec => []RejectionIsConsumed
<1>1. Safe => RejectionIsConsumed
  BY DEF Safe, Ladder
<1>2. QED
  BY SafetyInvariant, <1>1, PTL

-----------------------------------------------------------------------------
(* Action properties.                                                      *)

(* Once halted, a run's reason, breakers, plan, commits and files are      *)
(* frozen, and no model is called again.                                   *)
THEOREM HaltsAreFinal == Spec => HaltIsFinal
<1>1. ASSUME Control, [Next]_vars, Halted
      PROVE  UNCHANGED <<haltVars, planVars, doneVars, worktree, iteration_count>>
  <2>1. pc \in {"cerberus", "END"}
    BY <1>1 DEF Control, HaltsReachCerberus
  <2>2. CerberusReportsHalt \/ Terminated \/ UNCHANGED vars
    BY <1>1, <2>1 DEF Next, ArgusSkeleton, OdysseusPlans, OdysseusHalts, ArgusResearch,
       Daedalus, ChironDeclines, ChironPatches, Talos, TalosPasses, TalosFails, Rollback,
       Cerberus, CerberusUnreviewed, CerberusApproves, CerberusReturnsToCoder,
       CerberusReturnsToPlanner, CerberusEscalates, UncaughtError
  <2>3. QED
    BY <2>2 DEF CerberusReportsHalt, Terminated, Review, vars, writeVars
<1>2. QED
  BY ControlInvariant, <1>1, PTL DEF Spec, HaltIsFinal

(* Neither the rung nor the attempts at a rung are given back within a     *)
(* task, not even by L4's re-plan.                                         *)
THEOREM LadderNeverDescends == Spec => LadderIsMonotonic
<1>1. ASSUME Control, [Next]_vars, task_cursor' = task_cursor
      PROVE  \/ ladder_rung' > ladder_rung
             \/ ladder_rung' = ladder_rung /\ rung_attempts' >= rung_attempts
  <2>1. ladder_rung \in 0..4 /\ rung_attempts \in Nat /\ task_cursor \in Nat
    BY <1>1 DEF Control, TypeOK, Rungs
  <2>2. ASSUME UNCHANGED ladderVars
        PROVE  ladder_rung' = ladder_rung /\ rung_attempts' >= rung_attempts
    BY <2>1, <2>2 DEF ladderVars
  <2>3. ~TalosPasses
    BY <1>1, <2>1 DEF TalosPasses
  <2>4. ASSUME NEW report, NEW signature, TalosFails(report, signature)
        PROVE  \/ ladder_rung' > ladder_rung
               \/ ladder_rung' = ladder_rung /\ rung_attempts' >= rung_attempts
    <3>1. FailureHalts \/ FailureClimbs
      BY <1>1, <2>4, FailureSplits DEF Control
    <3>2. QED
      BY <2>1, <2>2, <3>1 DEF FailureHalts, FailureClimbs
  <2>5. Talos \/ UNCHANGED ladderVars
    BY <1>1 DEF Next, ArgusSkeleton, OdysseusPlans, OdysseusHalts, ArgusResearch,
       Daedalus, ChironDeclines, ChironPatches, Rollback, Cerberus, CerberusReportsHalt,
       CerberusUnreviewed, CerberusApproves, CerberusReturnsToCoder,
       CerberusReturnsToPlanner, CerberusEscalates, Escalate, Review, UncaughtError,
       Terminated, vars
  <2>6. QED
    BY <2>2, <2>3, <2>4, <2>5 DEF Talos
<1>2. QED
  BY ControlInvariant, <1>1, PTL DEF Spec, LadderIsMonotonic

(* A failing evaluation at an iteration cap halts the run.                 *)
THEOREM CapsHaltFailingTasks == Spec => CapHaltsFailingTask
<1>1. ASSUME Control, [Next]_vars, pc = "talos", eval_report' # "passed", pc' # "raised",
             IterationCapHit(iterations_this_task, iteration_count'),
             ~(UNCHANGED vars)
      PROVE  Halted'
  <2>1. \E report, signature : TalosFails(report, signature)
    BY <1>1 DEF Next, ArgusSkeleton, OdysseusPlans, OdysseusHalts, ArgusResearch,
       Daedalus, ChironDeclines, ChironPatches, Talos, TalosPasses, Rollback, Cerberus,
       CerberusReportsHalt, CerberusUnreviewed, CerberusApproves, CerberusReturnsToCoder,
       CerberusReturnsToPlanner, CerberusEscalates, UncaughtError, Terminated
  <2>2. PICK report, signature : TalosFails(report, signature)
    BY <2>1
  <2>3. FailureHalts
    BY <1>1, <2>2, FailureSplits DEF Control
  <2>4. QED
    BY <2>3, NoneAssumption DEF FailureHalts, Halted
<1>2. Control /\ [Next]_vars =>
        [/\ pc = "talos" /\ eval_report' # "passed" /\ pc' # "raised"
         /\ IterationCapHit(iterations_this_task, iteration_count')
         => Halted']_vars
  BY <1>1
<1>3. QED
  BY ControlInvariant, <1>2, PTL DEF Spec, CapHaltsFailingTask

-----------------------------------------------------------------------------
(* Why every run ends: Fuel decreases with every step, in an order that    *)
(* has no infinite descent.  What remains for TLC is that the graph is     *)
(* scheduled until it ends (Termination, under WF_vars(Next)).             *)

\* Smaller at some place and equal before it: lexicographically smaller.
LEMMA LessAt ==
  ASSUME NEW a1, NEW a2, NEW a3, NEW a4, NEW a5, NEW a6, NEW a7,
         NEW b1, NEW b2, NEW b3, NEW b4, NEW b5, NEW b6, NEW b7,
         \/ a1 < b1
         \/ a1 = b1 /\ a2 < b2
         \/ a1 = b1 /\ a2 = b2 /\ a3 < b3
         \/ a1 = b1 /\ a2 = b2 /\ a3 = b3 /\ a4 < b4
         \/ a1 = b1 /\ a2 = b2 /\ a3 = b3 /\ a4 = b4 /\ a5 < b5
         \/ a1 = b1 /\ a2 = b2 /\ a3 = b3 /\ a4 = b4 /\ a5 = b5 /\ a6 < b6
         \/ a1 = b1 /\ a2 = b2 /\ a3 = b3 /\ a4 = b4 /\ a5 = b5 /\ a6 = b6 /\ a7 < b7
  PROVE  Less(<<a1, a2, a3, a4, a5, a6, a7>>, <<b1, b2, b3, b4, b5, b6, b7>>)
<1> DEFINE a == <<a1, a2, a3, a4, a5, a6, a7>>
           b == <<b1, b2, b3, b4, b5, b6, b7>>
           At(i) == a[i] < b[i] /\ \A j \in 1..i - 1 : a[j] = b[j]
<1>1. \E i \in 1..7 : At(i)
  <2>1. CASE a1 < b1
    BY <2>1, At(1)
  <2>2. CASE a1 = b1 /\ a2 < b2
    BY <2>2, At(2)
  <2>3. CASE a1 = b1 /\ a2 = b2 /\ a3 < b3
    BY <2>3, At(3)
  <2>4. CASE a1 = b1 /\ a2 = b2 /\ a3 = b3 /\ a4 < b4
    BY <2>4, At(4)
  <2>5. CASE a1 = b1 /\ a2 = b2 /\ a3 = b3 /\ a4 = b4 /\ a5 < b5
    BY <2>5, At(5)
  <2>6. CASE a1 = b1 /\ a2 = b2 /\ a3 = b3 /\ a4 = b4 /\ a5 = b5 /\ a6 < b6
    BY <2>6, At(6)
  <2>7. CASE a1 = b1 /\ a2 = b2 /\ a3 = b3 /\ a4 = b4 /\ a5 = b5 /\ a6 = b6 /\ a7 < b7
    BY <2>7, At(7)
  <2>8. QED
    BY <2>1, <2>2, <2>3, <2>4, <2>5, <2>6, <2>7
<1>2. Len(b) = 7
  OBVIOUS
<1>3. QED
  BY <1>1, <1>2 DEF Less

\* Counting calls never lowers iteration_count, and an answered one raises
\* it unless it is at its cap.
LEMMA CallsCount ==
  ASSUME TypeOK, NEW a \in Nat, NEW b \in Nat, Calls(a, b)
  PROVE  /\ iteration_count' >= iteration_count
         /\ a >= 1 /\ iteration_count < MaxIterationsPerRun
              => iteration_count' > iteration_count
<1>1. PICK n \in a..b : iteration_count' = Bump(iteration_count, n)
  BY DEF Calls
<1>2. QED
  BY <1>1, CapAssumption DEF Bump, TypeOK

\* No budget is overdrawn.
FuelTyped ==
  Safe => /\ MaxRejectionsPerRun - reject_count \in Nat
          /\ MaxIterationsPerRun - iteration_count \in Nat
          /\ UncountedPlans \in {0, 1}
          /\ task_count - task_cursor \in Nat
          /\ 4 - ladder_rung \in Nat
          /\ RungBudgets[ladder_rung] - rung_attempts \in Nat
          /\ NodesLeft \in 0..6

LEMMA FuelNatural == FuelTyped
<1> SUFFICES ASSUME Safe PROVE FuelTyped!2
  BY DEF FuelTyped
<1>1. TypeOK /\ CheckpointsArePlanPrefix /\ LadderState
  BY DEF Safe, Control, Ladder
<1>2. RungBudgets[ladder_rung] \in Nat
  BY <1>1, BudgetAssumption DEF TypeOK
<1>3. NodesLeft \in 0..6
  BY <1>1 DEF TypeOK, Nodes, NodesLeft
<1>4. MaxRejectionsPerRun - reject_count \in Nat
  BY <1>1, GraphAssumption DEF TypeOK
<1>5. MaxIterationsPerRun - iteration_count \in Nat
  BY <1>1, CapAssumption DEF TypeOK
<1>6. task_count - task_cursor \in Nat
  BY <1>1 DEF TypeOK, CheckpointsArePlanPrefix
<1>7. 4 - ladder_rung \in Nat
  BY <1>1 DEF TypeOK, Rungs
<1>8. RungBudgets[ladder_rung] - rung_attempts \in Nat
  BY <1>1, <1>2 DEF TypeOK, LadderState
<1>9. UncountedPlans \in {0, 1}
  BY DEF UncountedPlans
<1>10. QED
  BY <1>3, <1>4, <1>5, <1>6, <1>7, <1>8, <1>9

\* And so after the step.
LEMMA FuelNaturalThen == FuelTyped'
BY FuelNatural, PTL

\* What a step spends.
SpendsARejection == reject_count' = reject_count + 1

SpendsACall ==
  /\ reject_count' = reject_count
  /\ iteration_count' > iteration_count

SpendsNeither ==
  /\ reject_count' = reject_count
  /\ iteration_count' = iteration_count

SpendsTheLastPlan == SpendsNeither /\ UncountedPlans = 1 /\ UncountedPlans' = 0

SpendsATask ==
  /\ SpendsNeither /\ UNCHANGED UncountedPlans
  /\ task_count' = task_count /\ task_cursor' = task_cursor + 1

SpendsARung ==
  /\ SpendsNeither /\ UNCHANGED UncountedPlans
  /\ UNCHANGED <<task_count, task_cursor>>
  /\ ladder_rung' = ladder_rung + 1

SpendsAnAttempt ==
  /\ SpendsNeither /\ UNCHANGED UncountedPlans
  /\ UNCHANGED <<task_count, task_cursor, ladder_rung>>
  /\ rung_attempts' = rung_attempts + 1

SpendsANode ==
  /\ SpendsNeither /\ UNCHANGED UncountedPlans
  /\ UNCHANGED <<task_count, task_cursor, ladder_rung, rung_attempts>>
  /\ NodesLeft' < NodesLeft

Spends ==
  \/ SpendsARejection
  \/ SpendsACall
  \/ SpendsTheLastPlan
  \/ SpendsATask
  \/ SpendsARung
  \/ SpendsAnAttempt
  \/ SpendsANode

\* A step that counts no rejection, keeps plan, cursor and ladder, moves to
\* a node nearer to the end and cannot make a re-plan uncounted.
LEMMA Forward ==
  ASSUME Safe, Safe', reject_count' = reject_count, iteration_count' >= iteration_count,
         UNCHANGED <<task_count, task_cursor, ladder_rung, rung_attempts>>,
         NodesLeft' < NodesLeft, pc' \notin {"argus_skeleton", "odysseus"}
  PROVE  Spends
<1>1. UncountedPlans' = 0 /\ UncountedPlans \in {0, 1}
  BY DEF UncountedPlans
<1>2. iteration_count' = iteration_count \/ iteration_count' > iteration_count
  <2>1. iteration_count \in 0..MaxIterationsPerRun
    BY DEF Safe, Control, TypeOK
  <2>2. iteration_count' \in 0..MaxIterationsPerRun
    BY DEF Safe, Control, TypeOK
  <2>3. QED
    BY <2>1, <2>2, CapAssumption
<1>3. QED
  BY <1>1, <1>2 DEF Spends, SpendsACall, SpendsNeither, SpendsTheLastPlan, SpendsANode

\* Every step of the graph spends something.
LEMMA EveryStepSpends ==
  ASSUME Safe, Safe', [Next]_vars, ~UNCHANGED vars
  PROVE  Spends
<1>1. TypeOK /\ TypeOK'
  BY DEF Safe, Control
<1>2. 1 \in Nat /\ 2 \in Nat /\ 0 \in Nat
  OBVIOUS
<1>3. ASSUME Answered
      PROVE  /\ iteration_count' >= iteration_count
             /\ iteration_count < MaxIterationsPerRun => iteration_count' > iteration_count
  BY <1>1, <1>2, <1>3, CallsCount DEF Answered
<1>4. ASSUME NEW reason, ChainExhausted(reason)
      PROVE  iteration_count' >= iteration_count
  BY <1>1, <1>2, <1>4, CallsCount DEF ChainExhausted
<1>5. CASE ArgusSkeleton
  <2>1. CASE Calls(1, 1) /\ Continue("odysseus")
    <3>1. /\ iteration_count' >= iteration_count
          /\ iteration_count < MaxIterationsPerRun => iteration_count' > iteration_count
      BY <1>1, <1>2, <2>1, CallsCount
    <3>2. /\ pc = "argus_skeleton" /\ pc' = "odysseus"
          /\ reject_count' = reject_count
          /\ UNCHANGED <<task_count, task_cursor, ladder_rung, rung_attempts>>
      BY <1>5, <2>1
         DEF ArgusSkeleton, Continue, planVars, doneVars, ladderVars, reviewVars
    <3>3. CASE iteration_count' > iteration_count
      BY <3>2, <3>3 DEF Spends, SpendsACall
    <3>4. CASE ~(iteration_count' > iteration_count)
      <4>1. iteration_count = MaxIterationsPerRun /\ iteration_count' = iteration_count
        <5>1. iteration_count \in 0..MaxIterationsPerRun /\ MaxIterationsPerRun \in Nat
          BY <1>1, CapAssumption DEF TypeOK
        <5>2. iteration_count' \in 0..MaxIterationsPerRun
          BY <1>1 DEF TypeOK
        <5>3. QED
          BY <3>1, <3>4, <5>1, <5>2
      <4>2. UncountedPlans' = UncountedPlans
        BY <3>2, <4>1 DEF UncountedPlans
      <4>3. NodesLeft' < NodesLeft
        BY <3>2 DEF NodesLeft
      <4>4. SpendsNeither
        BY <3>2, <4>1 DEF SpendsNeither
      <4>5. SpendsANode
        BY <3>2, <4>2, <4>3, <4>4 DEF SpendsANode
      <4>6. QED
        BY <4>5 DEF Spends
    <3>5. QED
      BY <3>3, <3>4
  <2>2. CASE Calls(0, 0) /\ Halt("chain_exhausted")
    <3>1. iteration_count' >= iteration_count
      BY <1>1, <1>2, <2>2, CallsCount
    <3>2. QED
      BY <1>5, <2>2, <3>1, Forward
         DEF ArgusSkeleton, Halt, planVars, doneVars, ladderVars, reviewVars, NodesLeft
  <2>3. QED
    BY <1>5, <2>1, <2>2 DEF ArgusSkeleton
<1>6. CASE OdysseusPlans
  <2>1. /\ pc = "odysseus" /\ pc' = "argus_research" /\ Answered
        /\ reject_count' = reject_count
    BY <1>6 DEF OdysseusPlans, Continue, reviewVars
  <2>2. CASE iteration_count' > iteration_count
    BY <2>1, <2>2 DEF Spends, SpendsACall
  <2>3. CASE ~(iteration_count' > iteration_count)
    <3>1. iteration_count = MaxIterationsPerRun /\ iteration_count' = iteration_count
      BY <1>1, <1>3, <2>1, <2>3, CapAssumption DEF TypeOK
    <3>2. UncountedPlans = 1 /\ UncountedPlans' = 0
      BY <2>1, <3>1 DEF UncountedPlans
    <3>3. QED
      BY <2>1, <3>1, <3>2 DEF Spends, SpendsTheLastPlan, SpendsNeither
  <2>4. QED
    BY <2>2, <2>3
<1>7. CASE OdysseusHalts
  <2>1. iteration_count' >= iteration_count
    BY <1>3, <1>4, <1>7 DEF OdysseusHalts
  <2>2. pc = "odysseus" /\ pc' = "cerberus"
    BY <1>7 DEF OdysseusHalts, ChainExhausted, Halt
  <2>3. QED
    BY <1>7, <2>1, <2>2, Forward
       DEF OdysseusHalts, planVars, doneVars, ladderVars, reviewVars, NodesLeft
<1>8. CASE ArgusResearch
  <2>1. iteration_count' >= iteration_count
    BY <1>3, <1>4, <1>8 DEF ArgusResearch
  <2>2. pc = "argus_research" /\ pc' \in {"cerberus", "chiron", "daedalus"}
    BY <1>8 DEF ArgusResearch, ChainExhausted, Halt, Continue
  <2>3. QED
    BY <1>8, <2>1, <2>2, Forward
       DEF ArgusResearch, planVars, doneVars, ladderVars, reviewVars, NodesLeft
<1>9. CASE Daedalus \/ ChironDeclines \/ ChironPatches
  <2>1. iteration_count' >= iteration_count
    BY <1>3, <1>4, <1>9 DEF Daedalus, ChironDeclines, ChironPatches, Escape
  <2>2. pc \in {"daedalus", "chiron"} /\ pc' \in {"cerberus", "talos"}
    BY <1>9 DEF Daedalus, ChironDeclines, ChironPatches, Escape, AfterWrite, Trip,
       ChainExhausted, Halt, Continue
  <2>3. /\ reject_count' = reject_count
        /\ UNCHANGED <<task_count, task_cursor, ladder_rung, rung_attempts>>
    BY <1>9 DEF Daedalus, ChironDeclines, ChironPatches, planVars, doneVars, ladderVars,
       reviewVars
  <2>4. QED
    BY <2>1, <2>2, <2>3, Forward DEF NodesLeft
<1>10. CASE TalosPasses
  <2>1. UncountedPlans = 0 /\ UncountedPlans' = 0
    BY <1>10 DEF TalosPasses, Continue, UncountedPlans
  <2>2. QED
    BY <1>10, <2>1 DEF TalosPasses, planVars, reviewVars, Spends, SpendsATask, SpendsNeither
<1>11. ASSUME NEW report, NEW signature, TalosFails(report, signature)
       PROVE  Spends
  <2>1. Calls(0, 1) /\ pc = "talos"
    BY <1>11 DEF TalosFails, ObserveFailure
  <2>2. iteration_count' >= iteration_count
    BY <1>1, <1>2, <2>1, CallsCount
  <2>3. reject_count' = reject_count /\ UNCHANGED <<task_count, task_cursor>>
    BY <1>11 DEF TalosFails, planVars, doneVars, reviewVars
  <2>4. CASE FailureHalts
    BY <2>1, <2>2, <2>3, <2>4, Forward DEF FailureHalts, ladderVars, NodesLeft
  <2>5. CASE FailureClimbs /\ ~IterationCapHit(iterations_this_task, iteration_count')
    <3>1. UncountedPlans = 0 /\ UncountedPlans' = 0
      BY <1>1, <2>1, <2>5, CapAssumption DEF IterationCapHit, UncountedPlans, TypeOK
    <3>2. iteration_count' > iteration_count \/ iteration_count' = iteration_count
      BY <1>1, <2>2 DEF TypeOK
    <3>3. \/ ladder_rung' = ladder_rung + 1
          \/ ladder_rung' = ladder_rung /\ rung_attempts' = rung_attempts + 1
      BY <2>5 DEF FailureClimbs
    <3>4. QED
      BY <2>3, <3>1, <3>2, <3>3
         DEF Spends, SpendsACall, SpendsARung, SpendsAnAttempt, SpendsNeither
  <2>6. QED
    BY <1>1, <1>11, <2>4, <2>5, FailureSplits
<1>12. CASE Rollback
  BY <1>1, <1>12, Forward
     DEF Rollback, Continue, planVars, doneVars, ladderVars, reviewVars, NodesLeft, TypeOK
<1>13. CASE CerberusReportsHalt \/ CerberusUnreviewed \/ CerberusApproves \/ CerberusEscalates
  <2>1. iteration_count' >= iteration_count
    <3>1. CASE CerberusReportsHalt
      BY <1>1, <3>1 DEF CerberusReportsHalt, TypeOK
    <3>2. CASE CerberusUnreviewed
      <4>1. Calls(0, 1)
        BY <3>2 DEF CerberusUnreviewed
      <4>2. QED
        BY <1>1, <1>2, <4>1, CallsCount
    <3>3. CASE CerberusApproves \/ CerberusEscalates
      BY <1>3, <3>3 DEF CerberusApproves, CerberusEscalates
    <3>4. QED
      BY <1>13, <3>1, <3>2, <3>3
  <2>2. pc = "cerberus" /\ pc' = "END"
    BY <1>13 DEF CerberusReportsHalt, CerberusUnreviewed, CerberusApproves,
       CerberusEscalates, Escalate
  <2>3. /\ reject_count' = reject_count
        /\ UNCHANGED <<task_count, task_cursor, ladder_rung, rung_attempts>>
    BY <1>13 DEF CerberusReportsHalt, CerberusUnreviewed, CerberusApproves,
       CerberusEscalates, Escalate, Review, planVars, doneVars, ladderVars
  <2>4. QED
    BY <2>1, <2>2, <2>3, Forward DEF NodesLeft
<1>14. CASE CerberusReturnsToCoder \/ CerberusReturnsToPlanner
  BY <1>14 DEF CerberusReturnsToCoder, CerberusReturnsToPlanner, Spends, SpendsARejection
<1>15. CASE UncaughtError
  <2>1. pc \in Nodes /\ pc' = "raised"
    BY <1>15 DEF UncaughtError
  <2>2. NodesLeft' < NodesLeft
    BY <2>1 DEF NodesLeft, Nodes
  <2>3. /\ reject_count' = reject_count
        /\ iteration_count' = iteration_count
        /\ UNCHANGED <<task_count, task_cursor, ladder_rung, rung_attempts>>
    BY <1>15 DEF UncaughtError, planVars, doneVars, ladderVars, reviewVars
  <2>4. QED
    BY <1>1, <2>1, <2>2, <2>3, Forward DEF TypeOK
<1>16. QED
  BY <1>5, <1>6, <1>7, <1>8, <1>9, <1>10, <1>11, <1>12, <1>13, <1>14, <1>15
     DEF Next, Talos, Cerberus, Terminated

\* The more is spent of a budget, the less is left of it.
LEMMA MoreSpentLessLeft ==
  ASSUME NEW budget \in Nat, NEW before \in Nat, NEW after \in Nat, after > before
  PROVE  budget - after < budget - before
OBVIOUS

\* What a step spends makes the fuel smaller.
LEMMA SpendingBurns ==
  ASSUME Safe, Safe', Spends
  PROVE  Fuel' \in Seq(Nat) /\ Less(Fuel', Fuel)
<1> DEFINE a1 == MaxRejectionsPerRun - reject_count
           a2 == MaxIterationsPerRun - iteration_count
           a3 == UncountedPlans
           a4 == task_count - task_cursor
           a5 == 4 - ladder_rung
           a6 == RungBudgets[ladder_rung] - rung_attempts
           a7 == NodesLeft
<1>1. TypeOK /\ TypeOK'
  BY DEF Safe, Control
<1>2. /\ MaxRejectionsPerRun \in Nat
      /\ MaxIterationsPerRun \in Nat
      /\ RungBudgets[ladder_rung] \in Nat
  BY <1>1, GraphAssumption, CapAssumption, BudgetAssumption DEF TypeOK
<1>3. /\ reject_count \in Nat /\ iteration_count \in Nat /\ iteration_count' \in Nat
      /\ task_count \in Nat /\ task_cursor \in Nat
      /\ ladder_rung \in Nat /\ rung_attempts \in Nat
  BY <1>1 DEF TypeOK, Rungs
<1>4. \/ a1' < a1
      \/ a1' = a1 /\ a2' < a2
      \/ a1' = a1 /\ a2' = a2 /\ a3' < a3
      \/ a1' = a1 /\ a2' = a2 /\ a3' = a3 /\ a4' < a4
      \/ a1' = a1 /\ a2' = a2 /\ a3' = a3 /\ a4' = a4 /\ a5' < a5
      \/ a1' = a1 /\ a2' = a2 /\ a3' = a3 /\ a4' = a4 /\ a5' = a5 /\ a6' < a6
      \/ a1' = a1 /\ a2' = a2 /\ a3' = a3 /\ a4' = a4 /\ a5' = a5 /\ a6' = a6 /\ a7' < a7
  <2>1. CASE SpendsARejection
    <3>1. a1' < a1
      BY <1>2, <1>3, <2>1 DEF SpendsARejection
    <3> HIDE DEF a1, a2, a3, a4, a5, a6, a7
    <3>2. QED
      BY <3>1
  <2>2. CASE SpendsACall
    <3>1. a1' = a1
      BY <2>2 DEF SpendsACall
    <3>2. iteration_count' > iteration_count
      BY <2>2 DEF SpendsACall
    <3>3. MaxIterationsPerRun - iteration_count' < MaxIterationsPerRun - iteration_count
      BY <1>2, <1>3, <3>2, MoreSpentLessLeft
    <3>4. a2' < a2
      BY <3>3
    <3> HIDE DEF a1, a2, a3, a4, a5, a6, a7
    <3>5. QED
      BY <3>1, <3>4
  <2>3. CASE SpendsTheLastPlan
    BY <2>3 DEF SpendsTheLastPlan, SpendsNeither
  <2>4. CASE SpendsATask
    BY <1>3, <2>4 DEF SpendsATask, SpendsNeither
  <2>5. CASE SpendsARung
    BY <1>3, <2>5 DEF SpendsARung, SpendsNeither
  <2>6. CASE SpendsAnAttempt
    BY <1>2, <1>3, <2>6 DEF SpendsAnAttempt, SpendsNeither
  <2>7. CASE SpendsANode
    BY <2>7 DEF SpendsANode, SpendsNeither
  <2>8. QED
    BY <2>1, <2>2, <2>3, <2>4, <2>5, <2>6, <2>7 DEF Spends
<1>5. a1' \in Nat /\ a2' \in Nat /\ a3' \in Nat /\ a4' \in Nat /\ a5' \in Nat /\ a6' \in Nat
      /\ a7' \in Nat
  <2>1. a3' \in Nat /\ a7' \in Nat
    BY FuelNaturalThen DEF FuelTyped
  <2>2. QED
    BY FuelNaturalThen, <2>1 DEF FuelTyped
<1>6. Fuel = <<a1, a2, a3, a4, a5, a6, a7>> /\ Fuel' = <<a1', a2', a3', a4', a5', a6', a7'>>
  BY DEF Fuel
<1> HIDE DEF a1, a2, a3, a4, a5, a6, a7
<1>7. Fuel' \in Seq(Nat)
  BY <1>5, <1>6
<1>8. Less(Fuel', Fuel)
  BY <1>4, <1>6, LessAt
<1>9. QED
  BY <1>7, <1>8

(* No step of the graph leaves the run with as much fuel as before, and no *)
(* budget is overdrawn (EveryStepBurnsFuel).                               *)
THEOREM RunsBurnFuel == Spec => EveryStepBurnsFuel
<1>1. Safe /\ Safe' /\ [Next]_vars => [Fuel' \in Seq(Nat) /\ Less(Fuel', Fuel)]_vars
  BY EveryStepSpends, SpendingBurns
<1>2. QED
  BY <1>1, SafetyInvariant, PTL DEF Spec, EveryStepBurnsFuel

-----------------------------------------------------------------------------
(* How long a run can be.  LangGraph counts the steps of a run and gives   *)
(* up at its recursion_limit, which build.py:511-514 calls a backstop      *)
(* behind CB-1's caps; the code itself counts nothing.  The potential      *)
(* below bounds that count by the limits of the configuration.             *)

\* A task that passes at the first try: researched, written, evaluated, and
\* re-evaluated as often as L0 allows.
TaskSteps == 3 + RungBudgets[0]

\* A call below its cap, or a rejection, can pay for a whole new plan.
PlanSteps == TaskSteps * MaxNewTasks + 8

\* The most steps a run of the graph takes.
MostSteps ==
  PlanSteps * (MaxIterationsPerRun + 2 * MaxRejectionsPerRun) + RungBudgets[0] + 6

\* Plans the run can still pay for.  A planner's rejection pays twice, for
\* the plan may have to be made after the cap.
PlansLeft ==
  MaxIterationsPerRun - iteration_count
    + 2 * (MaxRejectionsPerRun - reject_count) + UncountedPlans

TasksLeft == task_count - task_cursor

\* Evaluations that can follow one another with no call between them.
RetriesLeft == IF ladder_rung = 0 THEN RungBudgets[0] - rung_attempts ELSE 0

\* Steps before a call is counted, the cap is met or a task passes.
Reach ==
  IF pc = "talos" /\ iteration_count < MaxIterationsPerRun THEN 6 ELSE NodesLeft

StepsLeft == PlanSteps * PlansLeft + TaskSteps * TasksLeft + RetriesLeft + Reach

\* A run with the count LangGraph keeps of its steps.
VARIABLE steps

CountedNext == Next /\ ~UNCHANGED vars /\ steps' = steps + 1

CountedSpec == Init /\ steps = 0 /\ [][CountedNext]_<<vars, steps>>

\* Fewer of what costs g each leaves at least g more.
LEMMA FewerCostLess ==
  ASSUME NEW g \in Nat, NEW d \in Nat, NEW e \in Nat, e < d
  PROVE  g * e \in Nat /\ g * d \in Nat /\ g * e + g <= g * d
<1>1. PICK k \in Nat : d = e + 1 + k
  <2>1. d - e - 1 \in Nat /\ d = e + 1 + (d - e - 1)
    OBVIOUS
  <2>2. QED
    BY <2>1
<1>2. g * d = g * e + g + g * k
  BY <1>1
<1>3. g * k \in Nat /\ g * e \in Nat
  OBVIOUS
<1>4. QED
  BY <1>2, <1>3

\* No more of what costs g each costs no more.
LEMMA NoMoreCostNoMore ==
  ASSUME NEW g \in Nat, NEW d \in Nat, NEW e \in Nat, e <= d
  PROVE  g * e \in Nat /\ g * d \in Nat /\ g * e <= g * d
<1>1. CASE e = d
  BY <1>1
<1>2. CASE e < d
  BY <1>2, FewerCostLess
<1>3. QED
  BY <1>1, <1>2

\* The ways a step pays for itself, in plans p, tasks t, retries r and
\* nodes n: a plan, a task, a retry or nodes.
LEMMA PaidFor ==
  ASSUME NEW g \in Nat, NEW b \in Nat, NEW k \in Nat, NEW m \in Nat,
         b = 3 + k, g = b * m + 8,
         NEW p \in Nat, NEW t \in Nat, NEW r \in Nat, NEW n \in Nat,
         NEW q \in Nat, NEW u \in Nat, NEW s \in Nat, NEW o \in Nat,
         \/ q < p /\ (u <= t \/ u <= m) /\ s <= r /\ o <= n + 7
         \/ q <= p /\ u = t /\ s <= r /\ o < n
         \/ q <= p /\ u = t /\ s < r /\ o <= n
         \/ q <= p /\ u + 1 = t /\ s <= k /\ o <= n + 2
  PROVE  g * q + b * u + s + o < g * p + b * t + r + n
<1>1. b * u \in Nat /\ b * t \in Nat /\ b * m \in Nat /\ g * q \in Nat /\ g * p \in Nat
  OBVIOUS
<1>2. CASE q < p /\ (u <= t \/ u <= m) /\ s <= r /\ o <= n + 7
  <2>1. g * q + g <= g * p
    BY <1>2, FewerCostLess
  <2>2. b * u <= b * t \/ b * u <= b * m
    BY <1>2, NoMoreCostNoMore
  <2>3. s <= r /\ o <= n + 7
    BY <1>2
  <2>4. g = b * m + 8
    OBVIOUS
  <2> DEFINE bu == b * u  bt == b * t  bm == b * m  gq == g * q  gp == g * p
  <2>5. gq + g <= gp /\ (bu <= bt \/ bu <= bm) /\ g = bm + 8
    BY <2>1, <2>2, <2>4
  <2>6. bu \in Nat /\ bt \in Nat /\ bm \in Nat /\ gq \in Nat /\ gp \in Nat
    BY <1>1
  <2> HIDE DEF bu, bt, bm, gq, gp
  <2>7. gq + bu + s + o < gp + bt + r + n
    BY <2>3, <2>5, <2>6
  <2>8. QED
    BY <2>7 DEF bu, bt, gq, gp
<1>3. ASSUME q <= p, u = t, s + o < r + n
      PROVE  g * q + b * u + s + o < g * p + b * t + r + n
  <2>1. g * q <= g * p
    BY <1>3, NoMoreCostNoMore
  <2> DEFINE bt == b * t  gq == g * q  gp == g * p
  <2>2. gq <= gp /\ bt \in Nat /\ gq \in Nat /\ gp \in Nat
    BY <1>1, <2>1
  <2> HIDE DEF bt, gq, gp
  <2>3. gq + bt + s + o < gp + bt + r + n
    BY <1>3, <2>2
  <2>4. QED
    BY <1>3, <2>3 DEF bt, gq, gp
<1>4. CASE q <= p /\ u + 1 = t /\ s <= k /\ o <= n + 2
  <2>1. g * q <= g * p
    BY <1>4, NoMoreCostNoMore
  <2>2. b * u + b <= b * t
    <3>1. u < t
      BY <1>4
    <3>2. QED
      BY <3>1, FewerCostLess
  <2> DEFINE bu == b * u  bt == b * t  gq == g * q  gp == g * p
  <2>3. gq <= gp /\ bu + b <= bt
    BY <2>1, <2>2
  <2>4. bu \in Nat /\ bt \in Nat /\ gq \in Nat /\ gp \in Nat
    BY <1>1
  <2> HIDE DEF bu, bt, gq, gp
  <2>5. gq + bu + s + o < gp + bt + r + n
    BY <1>4, <2>3, <2>4
  <2>6. QED
    BY <2>5 DEF bu, bt, gq, gp
<1>5. QED
  BY <1>2, <1>3, <1>4

\* What the potential is made of is never negative.
StepsTyped ==
  Safe => /\ PlansLeft \in Nat
          /\ TasksLeft \in Nat
          /\ RetriesLeft \in Nat
          /\ Reach \in 0..6

LEMMA StepsNatural == StepsTyped
<1> SUFFICES ASSUME Safe PROVE StepsTyped!2
  BY DEF StepsTyped
<1>1. /\ MaxRejectionsPerRun - reject_count \in Nat
      /\ MaxIterationsPerRun - iteration_count \in Nat
      /\ task_count - task_cursor \in Nat
      /\ NodesLeft \in 0..6
  BY FuelNatural DEF FuelTyped
<1>2. UncountedPlans \in {0, 1}
  BY DEF UncountedPlans
<1>3. PlansLeft \in Nat
  BY <1>1, <1>2 DEF PlansLeft
<1>4. RungBudgets[ladder_rung] - rung_attempts \in Nat
  BY FuelNatural DEF FuelTyped
<1>5. RetriesLeft \in Nat
  BY <1>4 DEF RetriesLeft
<1>6. QED
  BY <1>1, <1>3, <1>5 DEF TasksLeft, Reach

\* And so after the step.
LEMMA StepsNaturalThen == StepsTyped'
BY StepsNatural, PTL

\* What a step pays with.
PaysAPlan ==
  /\ PlansLeft' < PlansLeft
  /\ TasksLeft' <= TasksLeft \/ TasksLeft' <= MaxNewTasks
  /\ RetriesLeft' <= RetriesLeft
  /\ Reach' <= Reach + 7

PaysNodes ==
  /\ PlansLeft' <= PlansLeft
  /\ TasksLeft' = TasksLeft
  /\ RetriesLeft' <= RetriesLeft
  /\ Reach' < Reach

PaysARetry ==
  /\ PlansLeft' <= PlansLeft
  /\ TasksLeft' = TasksLeft
  /\ RetriesLeft' < RetriesLeft
  /\ Reach' <= Reach

PaysATask ==
  /\ PlansLeft' <= PlansLeft
  /\ TasksLeft' + 1 = TasksLeft
  /\ RetriesLeft' <= RungBudgets[0]
  /\ Reach' <= Reach + 2

Pays == PaysAPlan \/ PaysNodes \/ PaysARetry \/ PaysATask

\* What a step pays makes the potential smaller.
LEMMA PayingShortens ==
  ASSUME Safe, Safe', Pays
  PROVE  StepsLeft \in Nat /\ StepsLeft' \in Nat /\ StepsLeft' < StepsLeft
<1>1. PlansLeft \in Nat /\ TasksLeft \in Nat /\ RetriesLeft \in Nat /\ Reach \in Nat
  BY StepsNatural DEF StepsTyped
<1>2. PlansLeft' \in Nat /\ TasksLeft' \in Nat /\ RetriesLeft' \in Nat /\ Reach' \in Nat
  <2>1. Reach' \in 0..6
    BY StepsNaturalThen DEF StepsTyped
  <2>2. QED
    BY <2>1, StepsNaturalThen DEF StepsTyped
<1>3. RungBudgets[0] \in Nat /\ MaxNewTasks \in Nat
  BY BudgetAssumption, GraphAssumption DEF Rungs
<1>4. TaskSteps \in Nat /\ TaskSteps = 3 + RungBudgets[0]
  BY <1>3 DEF TaskSteps
<1>5. PlanSteps \in Nat /\ PlanSteps = TaskSteps * MaxNewTasks + 8
  BY <1>3, <1>4 DEF PlanSteps
<1>6. PlanSteps * PlansLeft' + TaskSteps * TasksLeft' + RetriesLeft' + Reach'
        < PlanSteps * PlansLeft + TaskSteps * TasksLeft + RetriesLeft + Reach
  <2> DEFINE p == PlansLeft   t == TasksLeft   r == RetriesLeft   n == Reach
             q == PlansLeft'  u == TasksLeft'  s == RetriesLeft'  o == Reach'
  <2>1. \/ q < p /\ (u <= t \/ u <= MaxNewTasks) /\ s <= r /\ o <= n + 7
        \/ q <= p /\ u = t /\ s <= r /\ o < n
        \/ q <= p /\ u = t /\ s < r /\ o <= n
        \/ q <= p /\ u + 1 = t /\ s <= RungBudgets[0] /\ o <= n + 2
    BY DEF Pays, PaysAPlan, PaysNodes, PaysARetry, PaysATask
  <2>2. p \in Nat /\ t \in Nat /\ r \in Nat /\ n \in Nat
    BY <1>1
  <2>3. q \in Nat /\ u \in Nat /\ s \in Nat /\ o \in Nat
    BY <1>2
  <2> HIDE DEF p, t, r, n, q, u, s, o
  <2>4. PlanSteps * q + TaskSteps * u + s + o < PlanSteps * p + TaskSteps * t + r + n
    BY <1>3, <1>4, <1>5, <2>1, <2>2, <2>3, PaidFor, ZenonT(40)
  <2>5. QED
    BY <2>4 DEF p, t, r, n, q, u, s, o
<1>7. StepsLeft' = PlanSteps * PlansLeft' + TaskSteps * TasksLeft' + RetriesLeft' + Reach'
  BY DEF StepsLeft, PlanSteps, TaskSteps
<1>8. StepsLeft \in Nat
  BY <1>1, <1>4, <1>5 DEF StepsLeft
<1>9. StepsLeft' \in Nat
  BY <1>2, <1>4, <1>5, <1>7
<1>10. QED
  BY <1>6, <1>7, <1>8, <1>9 DEF StepsLeft

\* A plan answer leaves at most MaxNewTasks tasks to do.
LEMMA PlanIsBounded ==
  ASSUME Safe, OdysseusPlans
  PROVE  task_count' - task_cursor' <= MaxNewTasks
<1>1. PICK answer \in Plans : task_count' = Len(NewPlan(answer))
  BY DEF OdysseusPlans
<1>2. answer \in Seq(Tasks) /\ Len(answer) <= MaxNewTasks
  BY SeqDef, GraphAssumption DEF Plans
<1>3. /\ plan \in Seq(Tasks) /\ task_cursor \in Nat /\ task_cursor <= Len(plan)
      /\ Replanning \/ task_cursor = 0
  BY DEF Safe, Control, TypeOK, CheckpointsArePlanPrefix, NodePlan, OdysseusPlans
<1>4. task_cursor' = task_cursor
  BY DEF OdysseusPlans, doneVars
<1>5. CASE Replanning
  <2>1. /\ SubSeq(plan, 1, task_cursor) \in Seq(Tasks)
        /\ Len(SubSeq(plan, 1, task_cursor)) = task_cursor
    BY <1>3
  <2>2. Len(NewPlan(answer)) = task_cursor + Len(answer)
    BY <1>2, <1>5, <2>1 DEF NewPlan
  <2>3. QED
    BY <1>1, <1>2, <1>3, <1>4, <2>2
<1>6. CASE ~Replanning
  <2>1. Len(NewPlan(answer)) = Len(answer) /\ task_cursor = 0
    BY <1>3, <1>6 DEF NewPlan
  <2>2. QED
    BY <1>1, <1>2, <1>4, <2>1
<1>7. QED
  BY <1>5, <1>6

\* The numbers the potential is computed from.
LEMMA Counters ==
  ASSUME Safe
  PROVE  /\ iteration_count \in Nat /\ reject_count \in Nat
         /\ task_count \in Nat /\ task_cursor \in Nat
         /\ iteration_count <= MaxIterationsPerRun
         /\ MaxIterationsPerRun \in Nat /\ MaxRejectionsPerRun \in Nat
         /\ MaxNewTasks \in Nat \ {0}
BY CapAssumption, GraphAssumption DEF Safe, Control, TypeOK

\* And after the step.
LEMMA CountersThen ==
  Safe' => /\ iteration_count' \in Nat /\ reject_count' \in Nat
           /\ task_count' \in Nat /\ task_cursor' \in Nat
           /\ iteration_count' <= MaxIterationsPerRun
<1> SUFFICES ASSUME Safe'
             PROVE  /\ iteration_count' \in Nat /\ reject_count' \in Nat
                    /\ task_count' \in Nat /\ task_cursor' \in Nat
                    /\ iteration_count' <= MaxIterationsPerRun
  OBVIOUS
<1> QED
  BY CapAssumption, GraphAssumption DEF Safe, Control, TypeOK

\* A step that counts no rejection and keeps plan, cursor and ladder, away
\* from the planner: what it pays is a call, or the nodes it moved past.
LEMMA WalksOn ==
  ASSUME Safe, Safe', reject_count' = reject_count, iteration_count' >= iteration_count,
         UNCHANGED <<task_count, task_cursor, ladder_rung, rung_attempts>>,
         pc' \notin {"argus_skeleton", "odysseus"},
         \/ Reach' < Reach
         \/ iteration_count' > iteration_count
  PROVE  Pays
<1>1. UncountedPlans' = 0 /\ UncountedPlans \in {0, 1}
  BY DEF UncountedPlans
<1>2. TasksLeft' = TasksLeft /\ RetriesLeft' = RetriesLeft
  BY DEF TasksLeft, RetriesLeft
<1>3. RetriesLeft \in Nat /\ TasksLeft \in Nat /\ Reach \in 0..6
  BY StepsNatural DEF StepsTyped
<1>4. Reach' \in 0..6
  BY StepsNaturalThen DEF StepsTyped
<1>5. CASE Reach' < Reach
  <2>1. PlansLeft' <= PlansLeft
    BY <1>1, Counters, CountersThen DEF PlansLeft
  <2>2. QED
    BY <1>2, <1>3, <1>5, <2>1 DEF Pays, PaysNodes
<1>6. CASE iteration_count' > iteration_count
  <2>1. PlansLeft' < PlansLeft
    BY <1>1, <1>6, Counters, CountersThen DEF PlansLeft
  <2>2. QED
    BY <1>2, <1>3, <1>4, <2>1 DEF Pays, PaysAPlan
<1>7. QED
  BY <1>5, <1>6

\* Every step of the graph pays for itself.
LEMMA EveryStepPays ==
  ASSUME Safe, Safe', [Next]_vars, ~UNCHANGED vars
  PROVE  Pays
<1>1. TypeOK /\ TypeOK'
  BY DEF Safe, Control
<1>2. 1 \in Nat /\ 2 \in Nat /\ 0 \in Nat
  OBVIOUS
<1>3. ASSUME Answered
      PROVE  /\ iteration_count' >= iteration_count
             /\ iteration_count < MaxIterationsPerRun => iteration_count' > iteration_count
  BY <1>1, <1>2, <1>3, CallsCount DEF Answered
<1>4. ASSUME NEW reason, ChainExhausted(reason)
      PROVE  iteration_count' >= iteration_count
  BY <1>1, <1>2, <1>4, CallsCount DEF ChainExhausted
<1>5. /\ RetriesLeft \in Nat /\ TasksLeft \in Nat /\ PlansLeft \in Nat
      /\ Reach \in 0..6 /\ Reach' \in 0..6
  <2>1. Reach' \in 0..6
    BY StepsNaturalThen DEF StepsTyped
  <2>2. QED
    BY <2>1, StepsNatural DEF StepsTyped
<1>6. CASE ArgusSkeleton
  <2>1. /\ pc = "argus_skeleton" /\ pc' \in {"odysseus", "cerberus"}
        /\ reject_count' = reject_count
        /\ UNCHANGED <<task_count, task_cursor, ladder_rung, rung_attempts>>
    BY <1>6
       DEF ArgusSkeleton, Continue, Halt, planVars, doneVars, ladderVars, reviewVars
  <2>2. /\ iteration_count' >= iteration_count
        /\ pc' = "odysseus" /\ iteration_count < MaxIterationsPerRun
             => iteration_count' > iteration_count
    <3>1. CASE Calls(1, 1)
      BY <1>1, <1>2, <3>1, CallsCount
    <3>2. CASE Calls(0, 0) /\ Halt("chain_exhausted")
      BY <1>1, <1>2, <3>2, CallsCount DEF Halt
    <3>3. QED
      BY <1>6, <3>1, <3>2 DEF ArgusSkeleton
  <2>3. PlansLeft' <= PlansLeft
    <3>1. CASE pc' = "cerberus"
      <4>1. UncountedPlans' = 0 /\ UncountedPlans \in {0, 1}
        BY <3>1 DEF UncountedPlans
      <4>2. QED
        BY <2>1, <2>2, <4>1, Counters, CountersThen DEF PlansLeft
    <3>2. CASE pc' = "odysseus" /\ iteration_count < MaxIterationsPerRun
      <4>1. UncountedPlans' \in {0, 1} /\ UncountedPlans = 0
        <5>1. iteration_count # MaxIterationsPerRun
          BY <3>2, Counters
        <5>2. QED
          BY <5>1 DEF UncountedPlans
      <4>2. iteration_count' > iteration_count
        BY <2>2, <3>2
      <4>3. QED
        BY <2>1, <4>1, <4>2, Counters, CountersThen DEF PlansLeft
    <3>3. CASE pc' = "odysseus" /\ ~(iteration_count < MaxIterationsPerRun)
      <4>1. iteration_count = MaxIterationsPerRun /\ iteration_count' = iteration_count
        BY <2>2, <3>3, Counters, CountersThen
      <4>2. UncountedPlans' = UncountedPlans
        BY <2>1, <3>3, <4>1 DEF UncountedPlans
      <4>3. UncountedPlans \in {0, 1}
        BY DEF UncountedPlans
      <4>4. QED
        BY <2>1, <4>1, <4>2, <4>3, Counters DEF PlansLeft
    <3>4. QED
      BY <2>1, <3>1, <3>2, <3>3
  <2>4. Reach' < Reach
    BY <2>1 DEF Reach, NodesLeft
  <2>5. TasksLeft' = TasksLeft /\ RetriesLeft' = RetriesLeft
    BY <2>1 DEF TasksLeft, RetriesLeft
  <2>6. QED
    BY <1>5, <2>3, <2>4, <2>5 DEF Pays, PaysNodes
<1>7. CASE OdysseusPlans
  <2>1. /\ pc = "odysseus" /\ pc' = "argus_research" /\ Answered
        /\ reject_count' = reject_count
        /\ UNCHANGED <<ladder_rung, rung_attempts>>
    BY <1>7 DEF OdysseusPlans, Continue, reviewVars, ladderVars
  <2>2. PlansLeft' < PlansLeft
    <3>1. UncountedPlans' = 0
      BY <2>1 DEF UncountedPlans
    <3>2. UncountedPlans = IF iteration_count = MaxIterationsPerRun THEN 1 ELSE 0
      BY <2>1 DEF UncountedPlans
    <3>3. CASE iteration_count = MaxIterationsPerRun
      <4>1. UncountedPlans = 1 /\ iteration_count' = iteration_count
        BY <1>3, <2>1, <3>2, <3>3, Counters, CountersThen
      <4>2. QED
        BY <2>1, <3>1, <4>1, Counters DEF PlansLeft
    <3>4. CASE iteration_count # MaxIterationsPerRun
      <4>1. UncountedPlans = 0 /\ iteration_count' > iteration_count
        BY <1>3, <2>1, <3>2, <3>4, Counters
      <4>2. QED
        BY <2>1, <3>1, <4>1, Counters, CountersThen DEF PlansLeft
    <3>5. QED
      BY <3>3, <3>4
  <2>3. TasksLeft' <= MaxNewTasks
    BY <1>7, PlanIsBounded DEF TasksLeft
  <2>4. RetriesLeft' = RetriesLeft
    BY <2>1 DEF RetriesLeft
  <2>5. QED
    BY <1>5, <2>2, <2>3, <2>4 DEF Pays, PaysAPlan
<1>8. CASE OdysseusHalts
  <2>1. iteration_count' >= iteration_count
    BY <1>3, <1>4, <1>8 DEF OdysseusHalts
  <2>2. pc = "odysseus" /\ pc' = "cerberus"
    BY <1>8 DEF OdysseusHalts, ChainExhausted, Halt
  <2>3. QED
    BY <1>8, <2>1, <2>2, WalksOn
       DEF OdysseusHalts, planVars, doneVars, ladderVars, reviewVars, Reach, NodesLeft
<1>9. CASE ArgusResearch
  <2>1. iteration_count' >= iteration_count
    BY <1>3, <1>4, <1>9 DEF ArgusResearch
  <2>2. pc = "argus_research" /\ pc' \in {"cerberus", "chiron", "daedalus"}
    BY <1>9 DEF ArgusResearch, ChainExhausted, Halt, Continue
  <2>3. QED
    BY <1>9, <2>1, <2>2, WalksOn
       DEF ArgusResearch, planVars, doneVars, ladderVars, reviewVars, Reach, NodesLeft
<1>10. CASE Daedalus \/ ChironDeclines \/ ChironPatches
  <2>1. iteration_count' >= iteration_count
    BY <1>3, <1>4, <1>10 DEF Daedalus, ChironDeclines, ChironPatches, Escape
  <2>2. /\ pc \in {"daedalus", "chiron"}
        /\ pc' = "cerberus" \/ (pc' = "talos" /\ Answered)
    BY <1>10 DEF Daedalus, ChironDeclines, ChironPatches, Escape, AfterWrite, Trip,
       ChainExhausted, Halt, Continue
  <2>3. /\ reject_count' = reject_count
        /\ UNCHANGED <<task_count, task_cursor, ladder_rung, rung_attempts>>
    BY <1>10 DEF Daedalus, ChironDeclines, ChironPatches, planVars, doneVars, ladderVars,
       reviewVars
  <2>4. Reach' < Reach \/ iteration_count' > iteration_count
    <3>1. CASE pc' = "cerberus"
      BY <2>2, <3>1 DEF Reach, NodesLeft
    <3>2. CASE pc' = "talos" /\ iteration_count < MaxIterationsPerRun
      BY <1>3, <2>2, <3>2
    <3>3. CASE pc' = "talos" /\ ~(iteration_count < MaxIterationsPerRun)
      <4>1. ~(iteration_count' < MaxIterationsPerRun)
        BY <2>1, <3>3, Counters, CountersThen
      <4>2. QED
        BY <2>2, <3>3, <4>1 DEF Reach, NodesLeft
    <3>4. QED
      BY <2>2, <3>1, <3>2, <3>3
  <2>5. QED
    BY <2>1, <2>2, <2>3, <2>4, WalksOn
<1>11. CASE TalosPasses
  <2>1. /\ pc = "talos" /\ pc' \in {"argus_research", "cerberus"}
        /\ iteration_count' = iteration_count /\ reject_count' = reject_count
        /\ task_count' = task_count /\ task_cursor' = task_cursor + 1
        /\ ladder_rung' = 0 /\ rung_attempts' = 0
    BY <1>11 DEF TalosPasses, Continue, ResetForNewTask, planVars, reviewVars
  <2>2. PlansLeft' = PlansLeft
    BY <2>1 DEF PlansLeft, UncountedPlans
  <2>3. TasksLeft' + 1 = TasksLeft
    BY <2>1, Counters DEF TasksLeft
  <2>4. RetriesLeft' <= RungBudgets[0]
    BY <2>1, BudgetAssumption DEF RetriesLeft, Rungs
  <2>5. Reach' <= Reach + 2
    BY <2>1 DEF Reach, NodesLeft
  <2>6. QED
    BY <1>5, <2>2, <2>3, <2>4, <2>5 DEF Pays, PaysATask
<1>12. ASSUME NEW report, NEW signature, TalosFails(report, signature)
       PROVE  Pays
  <2>1. Calls(0, 1) /\ pc = "talos"
    BY <1>12 DEF TalosFails, ObserveFailure
  <2>2. iteration_count' >= iteration_count
    BY <1>1, <1>2, <2>1, CallsCount
  <2>3. reject_count' = reject_count /\ UNCHANGED <<task_count, task_cursor>>
    BY <1>12 DEF TalosFails, planVars, doneVars, reviewVars
  <2>4. CASE FailureHalts
    BY <2>1, <2>2, <2>3, <2>4, WalksOn DEF FailureHalts, ladderVars, Reach, NodesLeft
  <2>5. CASE FailureClimbs /\ ~IterationCapHit(iterations_this_task, iteration_count')
    <3>1. iteration_count' < MaxIterationsPerRun /\ iteration_count < MaxIterationsPerRun
      BY <2>2, <2>5, Counters, CountersThen DEF IterationCapHit
    <3>2. UncountedPlans = 0 /\ UncountedPlans' = 0
      <4>1. iteration_count' # MaxIterationsPerRun
        BY <3>1, CountersThen
      <4>2. QED
        BY <2>1, <4>1 DEF UncountedPlans
    <3>3. PlansLeft' <= PlansLeft
      BY <2>2, <2>3, <3>2, Counters, CountersThen DEF PlansLeft
    <3>4. TasksLeft' = TasksLeft
      BY <2>3 DEF TasksLeft
    <3>5. Reach = 6 /\ Reach' <= 6
      BY <1>5, <2>1, <3>1 DEF Reach
    <3>6. ladder_rung \in 0..4 /\ rung_attempts \in Nat /\ RungBudgets[0] \in Nat
      BY <1>1, BudgetAssumption DEF TypeOK, Rungs
    <3>7. CASE ladder_rung' = 0
      <4>1. ladder_rung = 0 /\ rung_attempts' = rung_attempts + 1
        BY <2>5, <3>6, <3>7 DEF FailureClimbs
      <4>2. RetriesLeft' < RetriesLeft
        BY <3>6, <3>7, <4>1 DEF RetriesLeft
      <4>3. QED
        BY <1>5, <3>3, <3>4, <3>5, <4>2 DEF Pays, PaysARetry
    <3>8. CASE ladder_rung' # 0
      <4>1. RetriesLeft' = 0
        BY <3>8 DEF RetriesLeft
      <4>2. ladder_rung' \in 1..4
        BY <1>1, <3>8 DEF TypeOK, Rungs
      <4>3. pc' \in {"chiron", "argus_research", "rollback", "odysseus"}
        BY <2>5, <4>2 DEF FailureClimbs, RouteByRung
      <4>4. Reach' < Reach
        <5>1. NodesLeft' \in 3..5 /\ pc' # "talos"
          BY <4>3 DEF NodesLeft
        <5>2. Reach' = NodesLeft'
          BY <5>1 DEF Reach
        <5>3. QED
          BY <3>5, <5>1, <5>2
      <4>5. QED
        BY <1>5, <3>3, <3>4, <4>1, <4>4 DEF Pays, PaysNodes
    <3>9. QED
      BY <3>7, <3>8
  <2>6. QED
    BY <1>1, <1>12, <2>4, <2>5, FailureSplits
<1>13. CASE Rollback
  BY <1>1, <1>13, WalksOn
     DEF Rollback, Continue, planVars, doneVars, ladderVars, reviewVars, Reach, NodesLeft,
         TypeOK
<1>14. CASE CerberusReportsHalt \/ CerberusUnreviewed \/ CerberusApproves \/ CerberusEscalates
  <2>1. iteration_count' >= iteration_count
    <3>1. CASE CerberusReportsHalt
      BY <1>1, <3>1 DEF CerberusReportsHalt, TypeOK
    <3>2. CASE CerberusUnreviewed
      <4>1. Calls(0, 1)
        BY <3>2 DEF CerberusUnreviewed
      <4>2. QED
        BY <1>1, <1>2, <4>1, CallsCount
    <3>3. CASE CerberusApproves \/ CerberusEscalates
      BY <1>3, <3>3 DEF CerberusApproves, CerberusEscalates
    <3>4. QED
      BY <1>14, <3>1, <3>2, <3>3
  <2>2. pc = "cerberus" /\ pc' = "END"
    BY <1>14 DEF CerberusReportsHalt, CerberusUnreviewed, CerberusApproves,
       CerberusEscalates, Escalate
  <2>3. /\ reject_count' = reject_count
        /\ UNCHANGED <<task_count, task_cursor, ladder_rung, rung_attempts>>
    BY <1>14 DEF CerberusReportsHalt, CerberusUnreviewed, CerberusApproves,
       CerberusEscalates, Escalate, Review, planVars, doneVars, ladderVars
  <2>4. QED
    BY <2>1, <2>2, <2>3, WalksOn DEF Reach, NodesLeft
<1>15. CASE CerberusReturnsToCoder \/ CerberusReturnsToPlanner
  <2>1. /\ pc = "cerberus" /\ ~Halted /\ Answered
        /\ reject_count' = reject_count + 1
        /\ UNCHANGED <<task_cursor, ladder_rung, rung_attempts>>
    BY <1>15
       DEF CerberusReturnsToCoder, CerberusReturnsToPlanner, Review, doneVars, ladderVars
  <2>2. iteration_count' >= iteration_count
    BY <1>3, <2>1
  <2>3. UncountedPlans = 0 /\ UncountedPlans' \in {0, 1}
    BY <2>1 DEF UncountedPlans
  <2>4. reject_count' <= MaxRejectionsPerRun
    BY DEF Safe, Control, TypeOK
  <2>5. PlansLeft' < PlansLeft
    BY <2>1, <2>2, <2>3, <2>4, Counters, CountersThen DEF PlansLeft
  <2>6. TasksLeft' <= TasksLeft \/ TasksLeft' <= MaxNewTasks
    <3>1. CASE CerberusReturnsToPlanner
      BY <1>5, <2>1, <3>1 DEF CerberusReturnsToPlanner, planVars, TasksLeft
    <3>2. CASE CerberusReturnsToCoder
      <4>1. task_count' = Len(plan) + 1
        BY <3>2 DEF CerberusReturnsToCoder
      <4>2. task_cursor = Len(plan)
        BY <2>1 DEF Safe, Control, NodePlan
      <4>3. QED
        BY <2>1, <4>1, <4>2, Counters DEF TasksLeft
    <3>3. QED
      BY <1>15, <3>1, <3>2
  <2>7. RetriesLeft' = RetriesLeft
    BY <2>1 DEF RetriesLeft
  <2>8. QED
    BY <1>5, <2>5, <2>6, <2>7 DEF Pays, PaysAPlan
<1>16. CASE UncaughtError
  <2>1. pc \in Nodes /\ pc' = "raised"
    BY <1>16 DEF UncaughtError
  <2>2. Reach' < Reach
    BY <2>1 DEF Reach, NodesLeft, Nodes
  <2>3. /\ reject_count' = reject_count
        /\ iteration_count' = iteration_count
        /\ UNCHANGED <<task_count, task_cursor, ladder_rung, rung_attempts>>
    BY <1>16 DEF UncaughtError, planVars, doneVars, ladderVars, reviewVars
  <2>4. QED
    BY <1>1, <2>1, <2>2, <2>3, WalksOn DEF TypeOK
<1>17. QED
  BY <1>6, <1>7, <1>8, <1>9, <1>10, <1>11, <1>12, <1>13, <1>14, <1>15, <1>16
     DEF Next, Talos, Cerberus, Terminated

\* The safety invariant survives every step of the graph.
LEMMA GraphSafeStep ==
  ASSUME Safe, [Next]_vars
  PROVE  Safe'
<1>1. Control /\ Worktree /\ Ladder
  BY DEF Safe
<1>2. Control'
  BY <1>1, TypeStep, PlanStep, HaltStep, StreakStep DEF Control
<1>3. Worktree'
  BY <1>1, <1>2, WorktreeStep
<1>4. Ladder'
  BY LadderStateStep, StreakCountsStep, WritesStep, ThrashStep, RejectionStep DEF Ladder
<1>5. QED
  BY <1>2, <1>3, <1>4 DEF Safe

\* The potential and its bound are naturals.
LEMMA StepsTotal ==
  ASSUME Safe
  PROVE  StepsLeft \in Nat
<1>1. PlansLeft \in Nat /\ TasksLeft \in Nat /\ RetriesLeft \in Nat /\ Reach \in Nat
  BY StepsNatural DEF StepsTyped
<1>2. RungBudgets[0] \in Nat /\ MaxNewTasks \in Nat
  BY BudgetAssumption, GraphAssumption DEF Rungs
<1>3. TaskSteps \in Nat
  BY <1>2 DEF TaskSteps
<1>4. PlanSteps \in Nat
  BY <1>2, <1>3 DEF PlanSteps
<1>5. QED
  BY <1>1, <1>3, <1>4 DEF StepsLeft

LEMMA MostStepsNatural == MostSteps \in Nat
<1>1. /\ RungBudgets[0] \in Nat /\ MaxNewTasks \in Nat
      /\ MaxIterationsPerRun \in Nat /\ MaxRejectionsPerRun \in Nat
  BY BudgetAssumption, GraphAssumption, CapAssumption DEF Rungs
<1>2. PlanSteps \in Nat
  BY <1>1 DEF PlanSteps, TaskSteps
<1>3. QED
  BY <1>1, <1>2 DEF MostSteps

\* The potential a run starts with.
LEMMA StepsAtFirst == Init => Safe /\ StepsLeft <= MostSteps
<1> SUFFICES ASSUME Init PROVE Safe /\ StepsLeft <= MostSteps
  OBVIOUS
<1>1. Safe
  BY ControlInit, WorktreeInit, LadderInit DEF Safe
<1>2. PlansLeft \in Nat /\ TasksLeft \in Nat /\ RetriesLeft \in Nat /\ Reach \in 0..6
  BY <1>1, StepsNatural DEF StepsTyped
<1>3. iteration_count \in 0..MaxIterationsPerRun
  BY <1>1 DEF Safe, Control, TypeOK
<1>4. PlansLeft <= MaxIterationsPerRun + 2 * MaxRejectionsPerRun
  BY <1>3, CapAssumption, GraphAssumption DEF Init, PlansLeft, UncountedPlans
<1>5. TasksLeft = 0
  BY DEF Init, TasksLeft
<1>6. RungBudgets[0] \in Nat /\ MaxNewTasks \in Nat
  BY BudgetAssumption, GraphAssumption DEF Rungs
<1>7. RetriesLeft = RungBudgets[0]
  BY <1>6 DEF Init, RetriesLeft
<1>8. TaskSteps \in Nat
  BY <1>6 DEF TaskSteps
<1>9. PlanSteps \in Nat
  BY <1>6, <1>8 DEF PlanSteps
<1>10. MaxIterationsPerRun + 2 * MaxRejectionsPerRun \in Nat
  BY CapAssumption, GraphAssumption
<1>11. PlanSteps * PlansLeft <= PlanSteps * (MaxIterationsPerRun + 2 * MaxRejectionsPerRun)
  BY <1>2, <1>4, <1>9, <1>10, NoMoreCostNoMore
<1>12. StepsLeft = PlanSteps * PlansLeft + RungBudgets[0] + Reach
  BY <1>2, <1>5, <1>6, <1>7, <1>8, <1>9 DEF StepsLeft
<1>13. /\ PlanSteps * PlansLeft \in Nat
       /\ PlanSteps * (MaxIterationsPerRun + 2 * MaxRejectionsPerRun) \in Nat
  BY <1>2, <1>9, <1>10
<1>14. StepsLeft <= MostSteps
  <2> DEFINE a == PlanSteps * PlansLeft
             b == PlanSteps * (MaxIterationsPerRun + 2 * MaxRejectionsPerRun)
  <2>1. a <= b /\ a \in Nat /\ b \in Nat
    BY <1>11, <1>13
  <2>2. StepsLeft = a + RungBudgets[0] + Reach /\ MostSteps = b + RungBudgets[0] + 6
    BY <1>12 DEF MostSteps
  <2> HIDE DEF a, b
  <2>3. QED
    BY <1>2, <1>6, <2>1, <2>2
<1>15. QED
  BY <1>1, <1>14

(* No run of the graph takes more than MostSteps steps, whatever models,   *)
(* gates and budgets do: with the code's limits a run ends, and LangGraph's*)
(* recursion_limit can be compared with the plans a model may write.       *)
THEOREM RunsAreBounded == CountedSpec => [](steps <= MostSteps)
<1> DEFINE Paid == Safe /\ steps \in Nat /\ steps + StepsLeft <= MostSteps
<1>1. Init /\ steps = 0 => Paid
  <2>1. ASSUME Safe PROVE StepsLeft \in Nat
    BY <2>1, StepsTotal
  <2>2. QED
    BY <2>1, StepsAtFirst
<1>2. Paid /\ [CountedNext]_<<vars, steps>> => Paid'
  <2> SUFFICES ASSUME Paid, [CountedNext]_<<vars, steps>> PROVE Paid'
    OBVIOUS
  <2>1. CASE UNCHANGED <<vars, steps>>
    <3>1. UNCHANGED vars /\ steps' = steps
      BY <2>1
    <3>2. Safe'
      BY <3>1, GraphSafeStep
    <3>3. StepsLeft' = StepsLeft
      BY <3>1 DEF vars, planVars, doneVars, ladderVars, reviewVars, StepsLeft, PlanSteps,
         TaskSteps, PlansLeft, TasksLeft, RetriesLeft, Reach, NodesLeft, UncountedPlans
    <3>4. QED
      BY <3>1, <3>2, <3>3
  <2>2. CASE CountedNext
    <3>1. Next /\ ~UNCHANGED vars /\ steps' = steps + 1
      BY <2>2 DEF CountedNext
    <3>2. Safe'
      BY <3>1, GraphSafeStep
    <3>3. Pays
      BY <3>1, <3>2, EveryStepPays
    <3>4. StepsLeft \in Nat /\ StepsLeft' \in Nat /\ StepsLeft' < StepsLeft
      BY <3>2, <3>3, PayingShortens
    <3>5. MostSteps' = MostSteps
      BY DEF MostSteps, PlanSteps, TaskSteps
    <3>6. MostSteps \in Nat
      BY MostStepsNatural
    <3>7. steps' + StepsLeft' <= MostSteps
      <4>1. steps \in Nat /\ steps + StepsLeft <= MostSteps
        OBVIOUS
      <4>2. steps' = steps + 1
        BY <3>1
      <4> DEFINE a == StepsLeft  b == StepsLeft'  most == MostSteps
      <4>3. steps + a <= most /\ a \in Nat /\ b \in Nat /\ b < a /\ most \in Nat
        BY <3>4, <3>6, <4>1
      <4> HIDE DEF Paid, a, b, most
      <4>4. steps + 1 + b <= most
        BY <4>1, <4>3
      <4>5. QED
        BY <4>2, <4>4 DEF b, most
    <3>8. QED
      BY <3>1, <3>2, <3>5, <3>7
  <2>3. QED
    BY <2>1, <2>2
<1>3. Paid => steps <= MostSteps
  <2>1. ASSUME Safe PROVE StepsLeft \in Nat
    BY <2>1, StepsTotal
  <2>2. QED
    BY <2>1, MostStepsNatural
<1>4. QED
  BY <1>1, <1>2, <1>3, PTL DEF CountedSpec
-----------------------------------------------------------------------------
(***************************************************************************)
(* Part 2: XenoGraph implements RunContract.                               *)
(***************************************************************************)

\* Cerberus reviews a run only once a task was completed since it last
\* returned it.
ReturnAnswered ==
  /\ returned_at \in Nat
  /\ returned_at <= task_cursor
  /\ pc = "cerberus" /\ ~Halted => task_cursor > returned_at

\* The graph's steps, by what they do to the contract's variables.
Completes == TalosPasses

Returns ==
  /\ pc = "cerberus"
  /\ ~Halted
  /\ pc' \in {"argus_research", "odysseus"}
  /\ RejectionAllowed
  /\ reject_count' = reject_count + 1
  /\ UNCHANGED doneVars

Ends ==
  /\ pc \in Nodes
  /\ pc' \in {"END", "raised"}
  /\ pc' = "END" /\ review_verdict' = "approve" => pc = "cerberus" /\ ~Halted
  /\ UNCHANGED <<doneVars, reject_count>>

Works ==
  /\ pc \in Nodes /\ pc' \in Nodes
  /\ pc' = "cerberus" => Halted'
  /\ UNCHANGED <<doneVars, reject_count>>

\* Every step of the graph completes a task, returns the run, ends it, or
\* works on without touching what the contract sees.
LEMMA ContractKinds ==
  ASSUME Control, [Next]_vars
  PROVE  Completes \/ Returns \/ Ends \/ Works \/ UNCHANGED vars
<1> USE NoneAssumption
<1>0. Halted => pc \in {"cerberus", "END"}
  BY DEF Control, HaltsReachCerberus
<1>1. CASE ArgusSkeleton \/ OdysseusPlans \/ OdysseusHalts \/ ArgusResearch
  BY <1>1 DEF ArgusSkeleton, OdysseusPlans, OdysseusHalts, ArgusResearch, ChainExhausted,
     Continue, Halt, Halted, Works, Nodes, reviewVars
<1>2. CASE Daedalus \/ ChironDeclines \/ ChironPatches
  BY <1>2 DEF Daedalus, ChironDeclines, ChironPatches, AfterWrite, Escape, ChainExhausted,
     Continue, Halt, Trip, Halted, Works, Nodes, reviewVars
<1>3. ASSUME NEW report, NEW signature, TalosFails(report, signature)
      PROVE  Works
  <2>1. pc = "talos" /\ UNCHANGED <<doneVars, reviewVars>>
    BY <1>3 DEF TalosFails
  <2>2. CASE FailureHalts
    BY <2>1, <2>2 DEF FailureHalts, Works, Nodes, Halted, reviewVars
  <2>3. CASE FailureClimbs
    <3>1. pc' = RouteByRung(ladder_rung') /\ ladder_rung' \in 0..4
      BY <2>3 DEF FailureClimbs, Control, TypeOK, Rungs
    <3>2. pc' \in Nodes \ {"cerberus"}
      BY <3>1 DEF RouteByRung, Nodes
    <3>3. QED
      BY <2>1, <3>2 DEF Works, Nodes, reviewVars
  <2>4. QED
    BY <1>3, <2>2, <2>3, FailureSplits DEF Control
<1>4. CASE Rollback
  BY <1>4 DEF Rollback, Continue, Works, Nodes, reviewVars
<1>5. CASE CerberusReportsHalt \/ CerberusUnreviewed \/ CerberusApproves \/ CerberusEscalates
  BY <1>5 DEF CerberusReportsHalt, CerberusUnreviewed, CerberusApproves, CerberusEscalates,
     Escalate, Review, Ends, Nodes
<1>6. CASE CerberusReturnsToCoder \/ CerberusReturnsToPlanner
  BY <1>6 DEF CerberusReturnsToCoder, CerberusReturnsToPlanner, Review, Continue, Returns
<1>7. CASE UncaughtError
  BY <1>7 DEF UncaughtError, Ends, Nodes, reviewVars
<1>8. QED
  BY <1>1, <1>2, <1>3, <1>4, <1>5, <1>6, <1>7
     DEF Next, Talos, Cerberus, Terminated, Completes

\* Every step keeps the floor below the completed tasks where a review may
\* approve or return the run.
LEMMA ReturnAnsweredStep ==
  ASSUME Control, ReturnAnswered, [HistoryNext]_historyVars
  PROVE  ReturnAnswered'
<1>1. /\ returned_at \in Nat
      /\ task_cursor \in Nat
      /\ reject_count \in Nat
      /\ returned_at <= task_cursor
  BY DEF Control, TypeOK, ReturnAnswered
<1>2. CASE UNCHANGED historyVars
  BY <1>2 DEF historyVars, vars, ReturnAnswered, Halted, doneVars, haltVars
<1>3. CASE Next /\ RememberReturn
  <2>1. CASE Completes
    <3>1. task_cursor' = task_cursor + 1 /\ reject_count' = reject_count
      BY <2>1 DEF Completes, TalosPasses, reviewVars
    <3>2. returned_at' = returned_at
      BY <1>1, <1>3, <3>1 DEF RememberReturn
    <3>3. QED
      BY <1>1, <3>1, <3>2 DEF ReturnAnswered
  <2>2. CASE Returns
    <3>1. returned_at' = task_cursor
      BY <1>1, <1>3, <2>2 DEF Returns, RememberReturn
    <3>2. QED
      BY <1>1, <2>2, <3>1 DEF Returns, ReturnAnswered, doneVars
  <2>3. CASE Ends \/ Works
    <3>1. returned_at' = returned_at
      BY <1>1, <1>3, <2>3 DEF Ends, Works, RememberReturn
    <3>2. pc' # "cerberus" \/ Halted'
      BY <2>3 DEF Ends, Works
    <3>3. QED
      BY <1>1, <2>3, <3>1, <3>2 DEF Ends, Works, ReturnAnswered, doneVars
  <2>4. CASE UNCHANGED vars
    <3>1. returned_at' = returned_at
      BY <1>1, <1>3, <2>4 DEF vars, RememberReturn, reviewVars
    <3>2. QED
      BY <2>4, <3>1 DEF vars, ReturnAnswered, Halted, doneVars, haltVars
  <2>5. QED
    BY <1>3, <2>1, <2>2, <2>3, <2>4, ContractKinds
<1>4. QED
  BY <1>2, <1>3 DEF HistoryNext

\* A checkpoint appends exactly its task to the completed tasks.
LEMMA CheckpointTask ==
  ASSUME NEW s \in Seq([task_index : Nat, task : Tasks]), NEW i \in 1..Len(s)
  PROVE  s[i].task \in Tasks
<1>1. s[i] \in [task_index : Nat, task : Tasks]
  BY ElementOfSeq
<1>2. QED
  BY <1>1

\* One more checkpoint is one more completed task.
LEMMA CompletedGrows ==
  ASSUME Control, TalosPasses
  PROVE  CurrentTask \in Tasks /\ CompletedTasks' = Append(CompletedTasks, CurrentTask)
<1> DEFINE entry == [task_index |-> task_cursor, task |-> CurrentTask]
<1>1. CurrentTask \in Tasks
  <2>1. task_cursor + 1 \in 1..Len(plan) /\ plan \in Seq(Tasks)
    BY DEF TalosPasses, Control, NodePlan, WorkHasATask, TypeOK
  <2>2. QED
    BY <2>1, ElementOfSeq DEF CurrentTask
<1>2. checkpoints \in Seq([task_index : Nat, task : Tasks]) /\ task_cursor \in Nat
  BY DEF Control, TypeOK
<1>3. entry \in [task_index : Nat, task : Tasks] /\ entry.task = CurrentTask
  BY <1>1, <1>2
<1>4. checkpoints' = Append(checkpoints, entry)
  BY DEF TalosPasses
<1> HIDE DEF entry
<1>5. /\ Len(checkpoints') = Len(checkpoints) + 1
      /\ \A i \in 1..Len(checkpoints) : checkpoints'[i] = checkpoints[i]
      /\ checkpoints'[Len(checkpoints) + 1] = entry
      /\ Len(checkpoints) \in Nat
  BY <1>2, <1>3, <1>4, AppendFacts
<1>6. CompletedTasks \in [1..Len(checkpoints) -> Tasks]
  <2>1. \A i \in 1..Len(checkpoints) : checkpoints[i].task \in Tasks
    BY <1>2, CheckpointTask
  <2>2. QED
    BY <2>1 DEF CompletedTasks
<1>7. CompletedTasks \in Seq(Tasks) /\ Len(CompletedTasks) = Len(checkpoints)
  BY <1>5, <1>6, SeqDef
<1>8. /\ Append(CompletedTasks, CurrentTask) \in Seq(Tasks)
      /\ Len(Append(CompletedTasks, CurrentTask)) = Len(checkpoints) + 1
      /\ \A i \in 1..Len(checkpoints) :
           Append(CompletedTasks, CurrentTask)[i] = CompletedTasks[i]
      /\ Append(CompletedTasks, CurrentTask)[Len(checkpoints) + 1] = CurrentTask
  BY <1>1, <1>7, AppendFacts
<1>9. /\ CompletedTasks' \in [1..Len(checkpoints) + 1 -> Tasks]
      /\ \A i \in 1..Len(checkpoints) : CompletedTasks'[i] = CompletedTasks[i]
      /\ CompletedTasks'[Len(checkpoints) + 1] = CurrentTask
  <2>1. CompletedTasks' = [i \in 1..Len(checkpoints) + 1 |-> checkpoints'[i].task]
    BY <1>5 DEF CompletedTasks
  <2>2. \A i \in 1..Len(checkpoints) + 1 : checkpoints'[i].task \in Tasks
    <3>1. \A i \in 1..Len(checkpoints) : checkpoints'[i].task \in Tasks
      BY <1>2, <1>5, CheckpointTask
    <3>2. checkpoints'[Len(checkpoints) + 1].task \in Tasks
      BY <1>1, <1>3, <1>5
    <3>3. QED
      BY <1>5, <3>1, <3>2
  <2>3. \A i \in 1..Len(checkpoints) : CompletedTasks[i] = checkpoints[i].task
    BY DEF CompletedTasks
  <2>4. QED
    BY <1>3, <1>5, <2>1, <2>2, <2>3
<1>10. CompletedTasks' \in Seq(Tasks) /\ Len(CompletedTasks') = Len(checkpoints) + 1
  BY <1>5, <1>9, SeqDef
<1>11. \A i \in 1..Len(CompletedTasks') :
         CompletedTasks'[i] = Append(CompletedTasks, CurrentTask)[i]
  BY <1>5, <1>8, <1>9, <1>10
<1>12. QED
  BY <1>1, <1>8, <1>10, <1>11, SeqEqual

\* Every step of the graph is a step of the contract or a stutter.
LEMMA ContractStep ==
  ASSUME Control, Worktree, ReturnAnswered, ReturnAnswered', [HistoryNext]_historyVars
  PROVE  [Contract!ContractNext]_(Contract!contractVars)
<1> USE NoneAssumption
<1>1. /\ Len(CompletedTasks) = task_cursor
      /\ Len(checkpoints) = task_cursor
      /\ task_cursor \in Nat
      /\ reject_count \in Nat
      /\ returned_at \in Nat
  <2>1. checkpoints \in Seq([task_index : Nat, task : Tasks])
        /\ Len(checkpoints) = task_cursor
    BY DEF Control, TypeOK, CheckpointsArePlanPrefix
  <2>2. Len(checkpoints) \in Nat
    BY <2>1
  <2>3. CompletedTasks \in [1..Len(checkpoints) -> Tasks]
    <3>1. \A i \in 1..Len(checkpoints) : checkpoints[i].task \in Tasks
      BY <2>1, CheckpointTask
    <3>2. QED
      BY <3>1 DEF CompletedTasks
  <2>4. Len(CompletedTasks) = Len(checkpoints)
    BY <2>2, <2>3, SeqDef
  <2>5. QED
    BY <2>1, <2>2, <2>4 DEF Control, TypeOK, ReturnAnswered
<1>2. pc \in Nodes => Outcome = "running"
  BY DEF Outcome, Nodes
<1>3. CASE UNCHANGED vars /\ UNCHANGED returned_at
  BY <1>3 DEF vars, Contract!contractVars, CompletedTasks, Outcome, doneVars, reviewVars
<1>4. CASE Next /\ RememberReturn
  <2>1. CASE Completes
    <3>1. CompletedTasks' = Append(CompletedTasks, CurrentTask) /\ CurrentTask \in Tasks
      BY <2>1, CompletedGrows DEF Completes
    <3>2. /\ pc \in Nodes
          /\ pc' \in Nodes
          /\ reject_count' = reject_count
      BY <2>1 DEF Completes, TalosPasses, Continue, Nodes, reviewVars
    <3>3. returned_at' = returned_at
      BY <1>1, <1>4, <3>2 DEF RememberReturn
    <3>4. Outcome = "running" /\ Outcome' = "running"
      BY <3>2 DEF Outcome, Nodes
    <3>5. QED
      BY <3>1, <3>2, <3>3, <3>4 DEF Contract!ContractNext, Contract!CompleteTask
  <2>2. CASE Returns
    <3>1. returned_at' = task_cursor
      BY <1>1, <1>4, <2>2 DEF Returns, RememberReturn
    <3>2. CompletedTasks' = CompletedTasks
      BY <2>2 DEF Returns, CompletedTasks, doneVars
    <3>3. Outcome = "running" /\ Outcome' = "running"
      BY <2>2 DEF Returns, Outcome
    <3>4. task_cursor > returned_at /\ reject_count < MaxRejectionsPerRun
      BY <2>2 DEF Returns, ReturnAnswered, RejectionAllowed
    <3>5. QED
      BY <1>1, <2>2, <3>1, <3>2, <3>3, <3>4 DEF Returns, Contract!ContractNext,
         Contract!ReturnRun
  <2>3. CASE Ends
    <3>1. returned_at' = returned_at /\ reject_count' = reject_count
      BY <1>1, <1>4, <2>3 DEF Ends, RememberReturn
    <3>2. CompletedTasks' = CompletedTasks
      BY <2>3 DEF Ends, CompletedTasks, doneVars
    <3>3. Outcome = "running"
      BY <1>2, <2>3 DEF Ends
    <3>4. CASE Outcome' = "approved"
      <4>1. task_cursor > returned_at
        BY <2>3, <3>4 DEF Ends, Outcome, ReturnAnswered
      <4>2. QED
        BY <1>1, <3>1, <3>2, <3>3, <3>4, <4>1 DEF Contract!ContractNext, Contract!Approve
    <3>5. CASE Outcome' # "approved"
      <4>1. Outcome' \in {"escalated", "raised"}
        BY <2>3, <3>5 DEF Ends, Outcome
      <4>2. QED
        BY <3>1, <3>2, <3>3, <4>1 DEF Contract!ContractNext, Contract!GiveUp
    <3>6. QED
      BY <3>4, <3>5
  <2>4. CASE Works
    <3>1. returned_at' = returned_at /\ reject_count' = reject_count
      BY <1>1, <1>4, <2>4 DEF Works, RememberReturn
    <3>2. CompletedTasks' = CompletedTasks
      BY <2>4 DEF Works, CompletedTasks, doneVars
    <3>3. Outcome = "running" /\ Outcome' = "running"
      BY <2>4 DEF Works, Outcome, Nodes
    <3>4. QED
      BY <3>1, <3>2, <3>3 DEF Contract!contractVars
  <2>5. CASE UNCHANGED vars
    <3>1. returned_at' = returned_at
      BY <1>1, <1>4, <2>5 DEF vars, RememberReturn, reviewVars
    <3>2. QED
      BY <1>3, <2>5, <3>1
  <2>6. QED
    BY <1>4, <2>1, <2>2, <2>3, <2>4, <2>5, ContractKinds
<1>5. QED
  BY <1>3, <1>4 DEF HistoryNext, historyVars

(* The graph takes no step the contract does not allow: completed tasks    *)
(* are never taken back, a return is within budget and answered by another *)
(* completed task before the next return or an approval.                   *)
THEOREM GraphKeepsContract == HistorySpec => Contract!ContractSteps
<1>1. HistorySpec => []Control /\ []Worktree
  <2>1. HistoryInit /\ [][HistoryNext]_historyVars => Init /\ [][Next]_vars
    <3>1. HistoryInit => Init
      BY DEF HistoryInit
    <3>2. [HistoryNext]_historyVars => [Next]_vars
      BY DEF HistoryNext, historyVars
    <3>3. QED
      BY <3>1, <3>2, PTL
  <2>2. Control /\ [Next]_vars => Control'
    BY TypeStep, PlanStep, HaltStep, StreakStep DEF Control
  <2>3. Control /\ Worktree /\ [Next]_vars => Worktree'
    BY WorktreeStep
  <2>4. QED
    BY <2>1, <2>2, <2>3, ControlInit, WorktreeInit, PTL DEF HistorySpec
<1>2. HistoryInit => ReturnAnswered
  BY DEF HistoryInit, Init, ReturnAnswered
<1>3. Control /\ ReturnAnswered /\ [HistoryNext]_historyVars => ReturnAnswered'
  BY ReturnAnsweredStep
<1>4. HistoryInit => Contract!ContractInit
  <2> SUFFICES ASSUME HistoryInit PROVE Contract!ContractInit
    OBVIOUS
  <2>1. checkpoints = <<>> /\ reject_count = 0 /\ returned_at = 0 /\ pc = "argus_skeleton"
    BY DEF HistoryInit, Init
  <2>2. CompletedTasks = <<>>
    <3>1. CompletedTasks \in [1..0 -> Tasks]
      BY <2>1 DEF CompletedTasks
    <3>2. CompletedTasks \in Seq(Tasks) /\ Len(CompletedTasks) = 0
      BY <3>1, SeqDef
    <3>3. QED
      BY <3>2, EmptySeq
  <2>3. QED
    BY <2>1, <2>2 DEF Contract!ContractInit, Outcome
<1>5. Control /\ Worktree /\ ReturnAnswered /\ ReturnAnswered' /\ [HistoryNext]_historyVars
        => [Contract!ContractNext]_(Contract!contractVars)
  BY ContractStep
<1>6. QED
  BY <1>1, <1>2, <1>3, <1>4, <1>5, PTL DEF HistorySpec, Contract!ContractSteps

-----------------------------------------------------------------------------
(***************************************************************************)
(* Part 3: XenoRun implements Worktree.                                    *)
(***************************************************************************)

-----------------------------------------------------------------------------
(* How the state looks to the worktree.                                    *)

Views ==
  /\ pc \in {"argus_skeleton", "odysseus", "daedalus"} => WorktreeNode = "daedalus"
  /\ pc = "argus_research" =>
       WorktreeNode = IF ladder_rung = 2 THEN "chiron" ELSE "daedalus"
  /\ pc \in {"chiron", "talos", "rollback", "cerberus"} => WorktreeNode = pc
  /\ pc \in Nodes => WorktreeOutcome = "running"
  /\ pc = "END" /\ review_verdict = "approve" /\ disposition = None =>
       WorktreeNode = "gate" /\ WorktreeOutcome = "running"
  /\ pc = "END" /\ review_verdict = "approve" /\ disposition # None =>
       WorktreeNode = "end" /\ WorktreeOutcome = disposition
  /\ pc = "END" /\ review_verdict # "approve" =>
       WorktreeNode = "end" /\ WorktreeOutcome = "escalated"
  /\ pc = "raised" /\ review_verdict # "approve" =>
       WorktreeNode = "end" /\ WorktreeOutcome = "raised"

\* Where the graph stands now, as the run hands it to the worktree.
LEMMA ViewsNow == Views
BY DEF Views, WorktreeNode, WorktreeOutcome, Nodes

\* The same of the next state.
LEMMA ViewsThen == Views'
BY DEF Views, WorktreeNode, WorktreeOutcome, Nodes

\* One commit per checkpoint: the next one's position is the branch's end.
LEMMA NextCommit ==
  ASSUME TypeOK, NEW checkpoint, checkpoint \in [task_index : Nat, task : Tasks],
         checkpoints' = Append(checkpoints, checkpoint),
         Len(history) = Len(checkpoints) + 1
  PROVE  CheckpointCommits' = Append(CheckpointCommits, Len(history) + 1)
<1>1. /\ checkpoints \in Seq([task_index : Nat, task : Tasks])
      /\ Len(checkpoints) \in Nat /\ Len(checkpoints') = Len(checkpoints) + 1
  BY DEF TypeOK
<1> PICK n \in Nat : n = Len(checkpoints)
  BY <1>1
<1>2. CheckpointCommits' = [i \in 1..n + 1 |-> i + 1]
  BY <1>1 DEF CheckpointCommits
<1>3. CheckpointCommits = [i \in 1..n |-> i + 1]
  BY DEF CheckpointCommits
<1>4. [i \in 1..n + 1 |-> i + 1] = Append([i \in 1..n |-> i + 1], n + 2)
  OBVIOUS
<1> QED BY <1>2, <1>3, <1>4, <1>1

-----------------------------------------------------------------------------
(* The inductive invariant, on top of the graph's Safe.                    *)

\* What git stores never holds an ignored file.
Committable ==
  {tree \in [Paths -> Contents \cup {Absent}] :
     \A p \in Paths \cap IgnoredPaths : tree[p] = Absent}

Stored ==
  /\ files \in [Paths -> Contents \cup {Absent}]
  /\ index \in Committable
  /\ history \in Seq(Committable) \ {<<>>}

\* The branch grows with the checkpoints until the human gate.
Branch ==
  /\ disposition \in {None, "approved", "declined", "raised"}
  /\ disposition # None => pc = "END" /\ review_verdict = "approve"
  /\ disposition = None => Len(history) = Len(checkpoints) + 1

\* Each rung past L0 was entered with an attempt; L4 re-planned.
Climbed ==
  /\ replanned \in BOOLEAN
  /\ ladder_rung > 0 => rung_attempts >= 1
  /\ ladder_rung = 4 => replanned

\* Nothing moves after the review's git add -A.
Staged == pc = "END" => index = W!AddAll

Run == Stored /\ Branch /\ Climbed /\ Staged /\ TreeWordIsTrue

-----------------------------------------------------------------------------
(* Every step of a run is a step of the graph.                             *)

LEMMA GraphStep == [RunNext]_runVars => [Next]_vars
BY DEF RunNext, RunPlanning, RunDaedalus, RunChiron, RunTalos, RunRollback,
       RunCerberus, RunGate, Next, runVars

\* So the graph's safety invariant, proved of the graph, survives it too.
LEMMA SafeStep == Safe /\ [RunNext]_runVars => Safe'
<1> SUFFICES ASSUME Safe, [RunNext]_runVars PROVE Safe'
  OBVIOUS
<1>1. Control /\ Worktree /\ Ladder /\ [Next]_vars
  BY GraphStep DEF Safe
<1>2. Control'
  BY <1>1, TypeStep, PlanStep, HaltStep, StreakStep DEF Control
<1>3. Worktree'
  BY <1>1, WorktreeStep
<1>4. Ladder'
  BY <1>1, LadderStateStep, StreakCountsStep, WritesStep, ThrashStep, RejectionStep
     DEF Ladder
<1> QED BY <1>2, <1>3, <1>4 DEF Safe

\* What the graph's invariants say of a run's position.
LEMMA Position ==
  ASSUME Safe
  PROVE  /\ TypeOK /\ NodeRung /\ ApproveEnds
         /\ pc \in Nodes => review_verdict # "approve"
         /\ pc = "raised" => review_verdict # "approve"
         /\ Halted => pc \in {"cerberus", "END"}
BY DEF Safe, Control, Worktree, HaltsReachCerberus, ApproveEnds, Nodes

-----------------------------------------------------------------------------
(* What a write leaves.                                                    *)

LEMMA StagedTree ==
  ASSUME files \in [Paths -> Contents \cup {Absent}]
  PROVE  W!AddAll \in Committable
BY DEF W!AddAll, Committable

\* Writing files over a tree leaves a tree.
LEMMA OverlayTyped ==
  ASSUME files \in [Paths -> Contents \cup {Absent}], NEW blocks \in W!Blocks
  PROVE  W!Overlay(blocks) \in [Paths -> Contents \cup {Absent}]
<1>1. \A p \in DOMAIN blocks : blocks[p] \in Contents
  BY DEF W!Blocks
<1> QED BY <1>1 DEF W!Overlay

\* A write node wrote, left the files, or wrote the blocks before an escape;
\* only with the files as they were does the graph's word for them stay.
LEMMA WriteKeepsTypes ==
  ASSUME Stored, RunDaedalus \/ RunChiron
  PROVE  /\ files' \in [Paths -> Contents \cup {Absent}]
         /\ worktree' = "written" \/ (worktree' = worktree /\ UNCHANGED files)
         /\ UNCHANGED <<index, history, disposition, replanned, checkpoints, ladder_rung,
                        rung_attempts>>
         /\ pc' # "END" /\ pc # "END"
<1>1. \A blocks \in W!Blocks : W!Overlay(blocks) \in [Paths -> Contents \cup {Absent}]
  BY OverlayTyped DEF Stored
<1>2. W!Patched \subseteq W!Blocks
  BY DEF W!Patched
<1>3. UNCHANGED <<index, history, disposition, replanned, checkpoints, ladder_rung,
                  rung_attempts>>
  BY DEF RunDaedalus, RunChiron, Daedalus, ChironPatches, repoVars, doneVars, ladderVars
<1>4. pc' # "END" /\ pc # "END"
  BY DEF RunDaedalus, RunChiron, Daedalus, ChironPatches, AfterWrite, Escape, Continue,
         Trip, Halt, ChainExhausted
<1>5. CASE Wrote
  <2>1. \E blocks \in W!Blocks : files' = W!Overlay(blocks)
    BY <1>2, <1>5 DEF RunDaedalus, RunChiron, WriteBlocks
  <2>2. worktree' = "written"
    BY <1>5 DEF RunDaedalus, RunChiron, Daedalus, ChironPatches, AfterWrite, Escape, Halt,
       ChainExhausted, Wrote
  <2> QED BY <1>1, <1>3, <1>4, <2>1, <2>2
<1>6. CASE ~Wrote
  <2>1. \/ worktree' = worktree /\ UNCHANGED files
        \/ worktree' = "written" /\ \E blocks \in W!Blocks : files' = W!Overlay(blocks)
    BY <1>2, <1>6 DEF RunDaedalus, RunChiron, LeaveBlocks
  <2> QED BY <1>1, <1>3, <1>4, <2>1 DEF Stored
<1> QED BY <1>5, <1>6

\* What a failing evaluation does to the ladder.
LEMMA FailureClimbsOnce ==
  ASSUME Safe, Climbed, NEW report, NEW signature, TalosFails(report, signature)
  PROVE  /\ ladder_rung' > 0 => rung_attempts' >= 1
         /\ FailureHalts => UNCHANGED ladder_rung
         /\ FailureHalts \/ (FailureClimbs /\ ladder_rung < 4)
<1>1. TypeOK
  BY DEF Safe, Control
<1>2. FailureHalts \/ FailureClimbs
  BY <1>1, FailureSplits
<1>3. ladder_rung \in 0..4 /\ rung_attempts \in Nat
  BY <1>1 DEF TypeOK, Rungs
<1>4. CASE FailureHalts
  BY <1>4 DEF FailureHalts, ladderVars, Climbed
<1>5. CASE FailureClimbs
  <2>1. ladder_rung < 4
    <3>1. SUFFICES ASSUME ladder_rung = 4 PROVE FALSE
      BY <1>3
    <3>2. rung_attempts < RungBudgets[4] /\ rung_attempts >= 1
      BY <1>3, <1>5, <3>1 DEF FailureClimbs, Climbed
    <3> QED BY <1>3, <3>2, RunAssumption
  <2>2. ladder_rung' > 0 => rung_attempts' >= 1
    <3>1. CASE rung_attempts' = rung_attempts + 1 /\ ladder_rung' = ladder_rung
      BY <1>3, <3>1
    <3>2. CASE rung_attempts' = 1
      BY <3>2
    <3> QED BY <1>5, <3>1, <3>2 DEF FailureClimbs
  <2>3. pc' # "cerberus"
    BY <1>3, <1>5, <2>1 DEF FailureClimbs, RouteByRung
  <2> QED BY <1>5, <2>1, <2>2, <2>3 DEF FailureHalts
<1> QED BY <1>2, <1>4, <1>5

-----------------------------------------------------------------------------
(* The invariant of a run.                                                 *)

\* The branch's last commit, and what a rollback brings back.
LEMMA LastIsStored ==
  ASSUME NEW trees \in Seq(Committable) \ {<<>>}
  PROVE  W!Last(trees) \in Committable /\ trees[1] \in Committable /\ Len(trees) \in Nat \ {0}
BY DEF W!Last

\* What appending a commit does to the branch.
LEMMA Commits ==
  ASSUME NEW trees \in Seq(Committable), NEW tree \in Committable
  PROVE  /\ Append(trees, tree) \in Seq(Committable) \ {<<>>}
         /\ Len(Append(trees, tree)) = Len(trees) + 1
         /\ W!Last(Append(trees, tree)) = tree
BY DEF W!Last

\* A passing evaluation and its checkpoint keep branch, ladder and tree in step.
LEMMA PassKeepsRun ==
  ASSUME Safe, Run, RunTalos, TalosPasses
  PROVE  Run'
<1>1. Stored /\ Branch /\ Climbed /\ TypeOK
  BY DEF Run, Safe, Control
<1>2. /\ index' = W!AddAll /\ history' = Append(history, W!AddAll)
      /\ UNCHANGED <<files, disposition>>
      /\ pc = "talos" /\ pc' # "END" /\ ladder_rung' = 0
      /\ \E checkpoint : checkpoints' = Append(checkpoints, checkpoint)
  BY DEF RunTalos, TalosPasses, W!Commit, Continue, ResetForNewTask
<1>3. W!AddAll \in Committable
  BY <1>1, StagedTree DEF Stored
<1>4. Stored'
  BY <1>1, <1>2, <1>3, Commits DEF Stored
<1>5. Len(checkpoints') = Len(checkpoints) + 1
  BY <1>1, <1>2 DEF TypeOK
<1>6. Len(history') = Len(history) + 1
  BY <1>1, <1>2, <1>3, Commits DEF Stored
<1>7. disposition = None
  BY <1>1, <1>2 DEF Branch
<1>8. Branch'
  BY <1>1, <1>2, <1>5, <1>6, <1>7 DEF Branch
<1>9. W!AddAll' = W!AddAll
  BY <1>2 DEF W!AddAll
<1>10. W!HeadTree' = W!AddAll
  BY <1>1, <1>2, <1>3, Commits DEF W!HeadTree, Stored
<1>11. Climbed'
  <2>1. replanned' \in BOOLEAN
    BY DEF RunTalos
  <2> QED BY <1>2, <2>1 DEF Climbed
<1> QED BY <1>2, <1>4, <1>8, <1>9, <1>10, <1>11 DEF Run, Staged, TreeWordIsTrue

\* A rollback keeps them too: it goes back to the last checkpoint.
LEMMA RollbackKeepsRun ==
  ASSUME Safe, Run, RunRollback
  PROVE  Run'
<1>1. Stored /\ Branch /\ Climbed /\ TypeOK
  BY DEF Run, Safe, Control
<1>2. /\ UNCHANGED <<disposition, checkpoints, ladder_rung, rung_attempts, replanned>>
      /\ pc = "rollback" /\ pc' # "END" /\ disposition = None
  BY <1>1 DEF RunRollback, Rollback, Continue, doneVars, ladderVars, Branch
<1>3. PICK n \in Nat : n = Len(checkpoints)
  BY <1>1 DEF TypeOK
<1>4. Len(history) = n + 1
  BY <1>1, <1>2, <1>3 DEF Branch
<1>5. W!RollbackTarget = n + 1
  <2>1. CheckpointCommits = [i \in 1..n |-> i + 1]
    BY <1>3 DEF CheckpointCommits
  <2>2. n > 0 => W!Last(CheckpointCommits) = n + 1 /\ CheckpointCommits # <<>>
    BY <2>1 DEF W!Last
  <2>3. n = 0 => CheckpointCommits = <<>>
    BY <2>1
  <2> QED BY <2>2, <2>3 DEF W!RollbackTarget
<1>6. SubSeq(history, 1, n + 1) = history /\ history[n + 1] \in Committable
      /\ history[n + 1] = W!Last(history)
  BY <1>1, <1>4 DEF Stored, W!Last
<1>7. PICK head \in Committable : head = W!Last(history)
  BY <1>6
<1>8. /\ history' = history /\ index' = head
      /\ files' = [p \in Paths |-> IF p \in IgnoredPaths THEN files[p] ELSE head[p]]
  BY <1>5, <1>6, <1>7 DEF RunRollback, W!ResetHard
<1>9. Stored'
  BY <1>1, <1>7, <1>8 DEF Stored, Committable
<1>10. W!AddAll' = head
  BY <1>7, <1>8 DEF W!AddAll, Committable
<1>11. W!HeadTree' = head
  BY <1>7, <1>8 DEF W!HeadTree
<1> QED BY <1>1, <1>2, <1>8, <1>9, <1>10, <1>11
        DEF Run, Branch, Climbed, Staged, TreeWordIsTrue

\* The human gate's commit or reset keeps them as well.
LEMMA GateKeepsRun ==
  ASSUME Safe, Run, RunGate
  PROVE  Run'
<1>1. Stored /\ Branch /\ Climbed /\ Staged /\ TreeWordIsTrue /\ index \in Committable
      /\ history[1] \in Committable
  BY LastIsStored DEF Run, Stored
<1>2. /\ UNCHANGED <<pc, checkpoints, ladder_rung, rung_attempts, review_verdict, worktree,
                      files, index, replanned>>
      /\ pc = "END" /\ review_verdict = "approve"
  BY DEF RunGate, vars, doneVars, ladderVars, reviewVars, writeVars
<1>3. disposition' \in {"approved", "declined", "raised"} /\ disposition' # None
  BY RunAssumption DEF RunGate
<1>4. W!AddAll' = W!AddAll /\ index = W!AddAll
  BY <1>1, <1>2 DEF W!AddAll, Staged
<1>5. CASE history' = <<history[1], index>>
  BY <1>1, <1>2, <1>3, <1>4, <1>5
  DEF Run, Stored, Branch, Climbed, Staged, TreeWordIsTrue, W!HeadTree, W!Last
<1>6. CASE history' = <<history[1]>> /\ index = history[1]
  BY <1>1, <1>2, <1>3, <1>4, <1>6
  DEF Run, Stored, Branch, Climbed, Staged, TreeWordIsTrue, W!HeadTree, W!Last
<1>7. CASE UNCHANGED history
  BY <1>1, <1>2, <1>3, <1>4, <1>7
  DEF Run, Stored, Branch, Climbed, Staged, TreeWordIsTrue, W!HeadTree
<1> QED BY <1>5, <1>6, <1>7 DEF RunGate, W!RootTree

\* Steps that leave files and branch alone, short of the end.
LEMMA QuietKeepsRun ==
  ASSUME Run, UNCHANGED <<files, index, history, disposition, checkpoints, worktree>>,
         pc # "END", pc' # "END",
         Climbed'
  PROVE  Run'
<1>1. W!AddAll' = W!AddAll /\ W!HeadTree' = W!HeadTree
  BY DEF W!AddAll, W!HeadTree
<1> QED BY <1>1 DEF Run, Stored, Branch, Staged, TreeWordIsTrue

\* A failing evaluation, with its effect on L4's flag.
LEMMA FailingTalos ==
  ASSUME Safe, Run, RunTalos, ~TalosPasses
  PROVE  /\ pc = "talos"
         /\ UNCHANGED <<files, index, history, disposition, checkpoints, touched_files,
                        touched_test_files, evaluated, reviewed, reject_count,
                        review_verdict>>
         /\ replanned' = (replanned \/ ladder_rung' = 4)
         /\ worktree' \in {worktree, "evaluated"}
         /\ ladder_rung' > 0 => rung_attempts' >= 1
         /\ \/ FailureHalts /\ UNCHANGED ladder_rung
            \/ FailureClimbs /\ ladder_rung < 4
<1>1. PICK report \in {"failed", "infrastructure"},
           signature \in Signatures \cup InfraSignatures : TalosFails(report, signature)
  BY DEF RunTalos, Talos
<1>2. eval_report' # "passed" /\ pc = "talos" /\ UNCHANGED <<doneVars, reviewVars>>
      /\ worktree' \in {worktree, "evaluated"}
  BY <1>1 DEF TalosFails, ObserveFailure
<1>3. Climbed
  BY DEF Run
<1>4. /\ ladder_rung' > 0 => rung_attempts' >= 1
      /\ FailureHalts => UNCHANGED ladder_rung
      /\ FailureHalts \/ (FailureClimbs /\ ladder_rung < 4)
  BY <1>1, <1>3, FailureClimbsOnce
<1> QED BY <1>2, <1>4 DEF RunTalos, repoVars, doneVars, reviewVars

\* The run's invariant survives every step of the run,
LEMMA RunStep == Safe /\ Run /\ [RunNext]_runVars => Run'
<1> SUFFICES ASSUME Safe, Run, [RunNext]_runVars PROVE Run'
  OBVIOUS
<1>1. Stored /\ Branch /\ Climbed /\ Staged /\ TreeWordIsTrue
  BY DEF Run
<1>2. CASE RunPlanning
  <2>1. /\ UNCHANGED <<files, index, history, disposition, replanned, checkpoints, worktree>>
        /\ UNCHANGED <<ladder_rung, rung_attempts>>
        /\ pc # "END" /\ pc' # "END"
    BY <1>2
    DEF RunPlanning, fileVars, repoVars, doneVars, ladderVars, writeVars, ArgusSkeleton,
        OdysseusPlans, OdysseusHalts, ArgusResearch, ChironDeclines, UncaughtError,
        ChainExhausted, Continue, Halt, Nodes
  <2>2. Climbed'
    BY <1>1, <2>1 DEF Climbed
  <2> QED BY <2>1, <2>2, QuietKeepsRun
<1>3. CASE RunDaedalus \/ RunChiron
  <2>1. /\ files' \in [Paths -> Contents \cup {Absent}]
        /\ worktree' = "written" \/ (worktree' = worktree /\ UNCHANGED files)
        /\ UNCHANGED <<index, history, disposition, replanned, checkpoints, ladder_rung,
                       rung_attempts>>
        /\ pc' # "END" /\ pc # "END"
    BY <1>1, <1>3, WriteKeepsTypes
  <2>2. TreeWordIsTrue'
    <3>1. CASE worktree' = "written"
      BY <3>1 DEF TreeWordIsTrue
    <3>2. CASE worktree' = worktree /\ UNCHANGED files
      BY <1>1, <2>1, <3>2 DEF TreeWordIsTrue, W!AddAll, W!HeadTree
    <3> QED BY <2>1, <3>1, <3>2
  <2> QED BY <1>1, <2>1, <2>2 DEF Run, Stored, Branch, Climbed, Staged
<1>4. CASE RunTalos
  <2>1. CASE TalosPasses
    BY <1>4, <2>1, PassKeepsRun
  <2>2. CASE ~TalosPasses
    <3>1. /\ pc = "talos"
          /\ UNCHANGED <<files, index, history, disposition, checkpoints>>
          /\ replanned' = (replanned \/ ladder_rung' = 4)
          /\ worktree' \in {worktree, "evaluated"}
          /\ ladder_rung' > 0 => rung_attempts' >= 1
          /\ FailureHalts \/ FailureClimbs
      BY <1>4, <2>2, FailingTalos
    <3>2. ladder_rung' \in 0..4
      <4>1. TypeOK'
        BY SafeStep DEF Safe, Control
      <4> QED BY <4>1 DEF TypeOK, Rungs
    <3>3. pc' # "END"
      BY <3>1, <3>2 DEF FailureHalts, FailureClimbs, RouteByRung
    <3>4. Climbed'
      BY <3>1 DEF Climbed
    <3>5. TreeWordIsTrue'
      BY <1>1, <3>1 DEF TreeWordIsTrue, W!AddAll, W!HeadTree
    <3> QED BY <1>1, <3>1, <3>3, <3>4, <3>5 DEF Run, Stored, Branch, Staged
  <2> QED BY <2>1, <2>2
<1>5. CASE RunRollback
  BY <1>5, RollbackKeepsRun
<1>6. CASE RunCerberus
  <2>1. /\ UNCHANGED <<files, history, disposition, replanned, checkpoints, ladder_rung,
                       rung_attempts, worktree>>
        /\ pc = "cerberus"
    BY <1>6
    DEF RunCerberus, Cerberus, CerberusReportsHalt, CerberusUnreviewed, CerberusApproves,
        CerberusReturnsToCoder, CerberusReturnsToPlanner, CerberusEscalates, Escalate,
        Review, doneVars, ladderVars, writeVars
  <2>2. index' = W!AddAll /\ W!AddAll' = W!AddAll /\ W!HeadTree' = W!HeadTree
        /\ W!AddAll \in Committable
    BY <1>1, <1>6, <2>1, StagedTree DEF RunCerberus, W!AddAll, W!HeadTree, Stored
  <2> QED BY <1>1, <2>1, <2>2 DEF Run, Stored, Branch, Climbed, Staged, TreeWordIsTrue
<1>7. CASE RunGate
  BY <1>7, GateKeepsRun
<1>8. CASE UNCHANGED runVars
  <2>1. UNCHANGED <<files, index, history, disposition, replanned, checkpoints, worktree,
                    pc, ladder_rung, rung_attempts, review_verdict>>
    BY <1>8 DEF runVars, vars, fileVars, repoVars, doneVars, ladderVars, writeVars,
       reviewVars
  <2>2. W!AddAll' = W!AddAll /\ W!HeadTree' = W!HeadTree
    BY <2>1 DEF W!AddAll, W!HeadTree
  <2> QED BY <1>1, <2>1, <2>2 DEF Run, Stored, Branch, Climbed, Staged, TreeWordIsTrue
<1> QED BY <1>2, <1>3, <1>4, <1>5, <1>6, <1>7, <1>8 DEF RunNext

\* and holds at its start,
LEMMA RunStart == RunInit => Safe /\ Run
<1> SUFFICES ASSUME RunInit PROVE Safe /\ Run
  OBVIOUS
<1>1. Safe
  BY ControlInit, WorktreeInit, LadderInit DEF RunInit, Safe
<1>2. files \in [Paths -> Contents \cup {Absent}] /\ W!AddAll \in Committable
  BY StagedTree DEF RunInit, W!Trees
<1>3. Climbed
  <2>1. replanned \in BOOLEAN
    BY Zenon DEF RunInit
  <2>2. ladder_rung = 0
    BY DEF RunInit, Init
  <2> QED BY <2>1, <2>2 DEF Climbed
<1>4. Stored /\ Branch /\ Staged /\ TreeWordIsTrue
  BY <1>2 DEF RunInit, Init, Stored, Branch, Staged, TreeWordIsTrue, W!HeadTree, W!Last
<1> QED BY <1>1, <1>3, <1>4 DEF Run

\* so it holds, with the graph's, in every state of every run of the
\* composed graph and worktree.
THEOREM RunInvariant == RunSpec => [](Safe /\ Run)
BY RunStart, SafeStep, RunStep, PTL DEF RunSpec

(* Whatever the run does, a tree the graph calls committed is the last     *)
(* commit: a rewrite after L3 and a task's first write start from it.      *)
THEOREM TreeWordsAreTrue == RunSpec => []TreeWordIsTrue
<1>1. Run => TreeWordIsTrue
  BY DEF Run
<1> QED BY <1>1, RunInvariant, PTL

-----------------------------------------------------------------------------
(* Each step of a run, as the worktree sees it.                            *)

\* A halted run goes to Cerberus: Worktree's Halt.
LEMMA HaltIsSeen ==
  ASSUME pc \in Nodes, pc' = "cerberus", Halted', UNCHANGED <<ladder_rung, reject_count>>
  PROVE  W!Halt
BY ViewsNow, ViewsThen DEF Views, W!Halt, Nodes

\* A run that goes on to the gates: Worktree's Goto.
LEMMA GatesAreSeen ==
  ASSUME pc \in Nodes, pc' = "talos",
         UNCHANGED <<haltVars, ladder_rung, reject_count>>
  PROVE  W!Goto("talos")
BY ViewsNow, ViewsThen DEF Views, W!Goto, Nodes, Halted, haltVars

\* An error: Worktree's Raise.
LEMMA RaiseIsSeen ==
  ASSUME Safe, Safe', UncaughtError, UNCHANGED fileVars
  PROVE  W!Raise
<1>1. /\ pc \in Nodes \ {"rollback"} /\ pc' = "raised"
      /\ UNCHANGED <<checkpoints, ladder_rung, reject_count, halt_reason, review_verdict>>
  BY DEF UncaughtError, doneVars, ladderVars, reviewVars, haltVars
<1>2. review_verdict' # "approve"
  BY <1>1, Position
<1>3. WorktreeNode \in {"daedalus", "chiron", "talos", "rollback", "cerberus"}
  BY <1>1, ViewsNow DEF Views, Nodes
<1>4. W!End("raised")
  BY <1>1, <1>2, ViewsThen DEF Views, W!End, Halted
<1>5. UNCHANGED CheckpointCommits
  BY <1>1 DEF CheckpointCommits
<1> QED BY <1>3, <1>4, <1>5
        DEF W!Raise, fileVars, repoVars, W!repoVars, W!reportVars, W!ghostVars

\* Planning and research write nothing: they stutter, stop or decline.
LEMMA PlanningIsSeen ==
  ASSUME Safe, Safe', RunPlanning
  PROVE  [W!Next]_(W!vars)
<1>1. NodeRung /\ (Halted => pc \in {"cerberus", "END"})
  BY Position
<1>2. UNCHANGED fileVars
  BY DEF RunPlanning
<1>3. CASE UncaughtError
  BY <1>2, <1>3, RaiseIsSeen DEF W!Next
<1>4. ASSUME ~UncaughtError
      PROVE  /\ pc \in {"argus_skeleton", "odysseus", "argus_research", "chiron"}
             /\ UNCHANGED <<checkpoints, ladder_rung, reject_count>>
             /\ \/ pc' = "cerberus" /\ Halted'
                \/ /\ UNCHANGED haltVars
                   /\ \/ pc = "argus_skeleton" /\ pc' = "odysseus"
                      \/ pc = "odysseus" /\ pc' = "argus_research"
                      \/ /\ pc = "argus_research"
                         /\ pc' = IF ladder_rung = 2 THEN "chiron" ELSE "daedalus"
                      \/ pc = "chiron" /\ pc' = "talos"
  BY <1>4, NoneAssumption
  DEF RunPlanning, ArgusSkeleton, OdysseusPlans, OdysseusHalts, ArgusResearch,
      ChironDeclines, ChainExhausted, Continue, Halt, Halted, doneVars, ladderVars, reviewVars
<1>5. ASSUME ~UncaughtError PROVE UNCHANGED CheckpointCommits
  BY <1>4, <1>5 DEF CheckpointCommits
<1>6. CASE ~UncaughtError /\ pc' = "cerberus" /\ Halted'
  <2>1. W!Halt
    BY <1>4, <1>6, HaltIsSeen DEF Nodes
  <2>2. WorktreeNode \in {"daedalus", "chiron", "talos"}
    BY <1>4, <1>6, ViewsNow DEF Views
  <2>3. W!Stop
    BY <1>2, <1>5, <1>6, <2>1, <2>2
    DEF W!Stop, fileVars, repoVars, W!repoVars, W!reportVars, W!ghostVars
  <2> QED BY <2>3 DEF W!Next
<1>7. CASE ~UncaughtError /\ pc = "chiron" /\ pc' = "talos" /\ UNCHANGED haltVars
  <2>1. W!Goto("talos") /\ WorktreeNode = "chiron"
    BY <1>4, <1>7, GatesAreSeen, ViewsNow DEF Views, Nodes
  <2>2. W!Chiron
    BY <1>2, <1>5, <1>7, <2>1
    DEF W!Chiron, fileVars, repoVars, W!repoVars, W!reportVars, W!ghostVars
  <2> QED BY <2>2 DEF W!Next
<1>8. CASE /\ ~UncaughtError /\ UNCHANGED haltVars
           /\ \/ pc = "argus_skeleton" /\ pc' = "odysseus"
              \/ pc = "odysseus" /\ pc' = "argus_research"
              \/ /\ pc = "argus_research"
                 /\ pc' = IF ladder_rung = 2 THEN "chiron" ELSE "daedalus"
  <2>1. UNCHANGED <<ladder_rung, reject_count, halt_reason>>
    BY <1>4, <1>8 DEF haltVars
  <2>2. UNCHANGED <<WorktreeNode, WorktreeOutcome>>
    BY <1>1, <1>8, <2>1, ViewsNow, ViewsThen DEF Views, Nodes, NodeRung
  <2>3. UNCHANGED W!vars
    BY <1>2, <1>5, <1>8, <2>1, <2>2
    DEF W!vars, W!repoVars, W!reportVars, W!controlVars, W!ghostVars, fileVars, repoVars,
        Halted
  <2> QED BY <2>3
<1> QED BY <1>3, <1>4, <1>6, <1>7, <1>8

\* A write, what came before an escape, or no write at all.
LEMMA WritingIsSeen ==
  ASSUME Safe, RunDaedalus \/ RunChiron
  PROVE  W!Next
<1>1. TypeOK
  BY Position
<1>2. /\ pc = IF RunDaedalus THEN "daedalus" ELSE "chiron"
      /\ RunDaedalus => pc = "daedalus"
      /\ UNCHANGED <<checkpoints, ladder_rung, reject_count>>
      /\ UNCHANGED <<repoVars, touched_test_files, evaluated, reviewed, replanned>>
  BY DEF RunDaedalus, RunChiron, Daedalus, ChironPatches, doneVars, ladderVars, reviewVars
<1>3. UNCHANGED CheckpointCommits /\ WorktreeNode = pc
  BY <1>2, ViewsNow DEF CheckpointCommits, Views
<1>4. /\ Wrote => (pc' = "talos" /\ UNCHANGED haltVars) \/ (pc' = "cerberus" /\ Halted')
      /\ ~Wrote => pc' = "cerberus" /\ Halted'
  BY NoneAssumption
  DEF RunDaedalus, RunChiron, Daedalus, ChironPatches, AfterWrite, Escape, ChainExhausted,
      Continue, Trip, Halt, Halted, Wrote, haltVars
<1>5. Wrote => W!Goto("talos") \/ W!Halt
  BY <1>2, <1>4, GatesAreSeen, HaltIsSeen DEF Nodes
<1>6. ~Wrote => W!Halt
  BY <1>2, <1>4, HaltIsSeen DEF Nodes
<1>7. CASE Wrote /\ RunDaedalus
  <2>1. W!Daedalus
    BY <1>2, <1>3, <1>5, <1>7
    DEF RunDaedalus, WriteBlocks, W!Daedalus, repoVars, W!repoVars, W!reportVars, W!ghostVars
  <2> QED BY <2>1 DEF W!Next
<1>8. CASE Wrote /\ ~RunDaedalus
  <2>1. W!Chiron
    BY <1>2, <1>3, <1>5, <1>8
    DEF RunChiron, WriteBlocks, W!Chiron, repoVars, W!repoVars, W!reportVars, W!ghostVars
  <2> QED BY <2>1 DEF W!Next
<1>9. CASE ~Wrote
  <2> DEFINE answers == IF WorktreeNode = "daedalus" THEN W!Blocks ELSE W!Patched
  <2>1. /\ UNCHANGED touched_files
        /\ UNCHANGED files \/ \E blocks \in answers : files' = W!Overlay(blocks)
    BY <1>2, <1>3, <1>9 DEF RunDaedalus, RunChiron, LeaveBlocks
  <2>2. CASE UNCHANGED files
    BY <1>2, <1>3, <1>6, <1>9, <2>1, <2>2
    DEF W!Stop, W!Next, repoVars, W!repoVars, W!reportVars, W!ghostVars
  <2>3. CASE \E blocks \in answers : files' = W!Overlay(blocks)
    BY <1>2, <1>3, <1>6, <1>9, <2>1, <2>3
    DEF W!Escape, W!Next, repoVars, W!repoVars, W!reportVars, W!ghostVars
  <2> QED BY <2>1, <2>2, <2>3
<1> QED BY <1>7, <1>8, <1>9

\* The instance's room for the run's commits: Worktree bounds them.
CommitsFit == Len(checkpoints) + 1 < MaxTasks

\* A pass is committed, a failure halts or climbs.
LEMMA PassIsSeen ==
  ASSUME Safe, Run, CommitsFit, MaxTasks \in Nat, RunTalos, TalosPasses
  PROVE  W!Pass
<1>1. TypeOK /\ CheckpointsArePlanPrefix /\ NodePlan /\ ~Halted
  BY Position DEF Safe, Control, TalosPasses
<1>2. PICK checkpoint \in [task_index : Nat, task : Tasks] :
        checkpoints' = Append(checkpoints, checkpoint)
  <2>1. task_cursor \in Nat /\ task_cursor < Len(plan) /\ plan \in Seq(Tasks)
    BY <1>1 DEF NodePlan, WorkHasATask, TypeOK, TalosPasses
  <2>2. CurrentTask \in Tasks
    BY <2>1 DEF CurrentTask
  <2> QED BY <2>1, <2>2 DEF TalosPasses
<1>3. /\ pc = "talos" /\ pc' \in {"argus_research", "cerberus"}
      /\ ladder_rung' = 0 /\ UNCHANGED <<reject_count, halt_reason>>
      /\ UNCHANGED <<files, touched_files, reviewed>>
      /\ replanned' = replanned
      /\ evaluated' = W!Gated /\ W!Commit /\ W!Report
  <2>1. replanned \in BOOLEAN
    BY DEF Run, Climbed
  <2> QED BY <2>1 DEF TalosPasses, RunTalos, Continue, ResetForNewTask, reviewVars, haltVars
<1>4. disposition = None
  BY <1>3 DEF Run, Branch
<1>5. CheckpointCommits' = Append(CheckpointCommits, Len(history) + 1)
  BY <1>1, <1>2, <1>4, NextCommit DEF Run, Branch
<1>6. Len(CheckpointCommits) = Len(checkpoints) /\ Len(checkpoints) \in Nat
  BY <1>1 DEF CheckpointCommits, TypeOK
<1>7. Len(CheckpointCommits) < MaxTasks /\ Len(CheckpointCommits) + 1 < MaxTasks
  BY <1>6 DEF CommitsFit
<1>8. /\ WorktreeNode = "talos" /\ WorktreeNode' \in {"daedalus", "cerberus"}
      /\ UNCHANGED <<WorktreeOutcome, Halted>>
  BY <1>3, ViewsNow, ViewsThen DEF Views, Nodes, Halted
<1> QED BY <1>3, <1>5, <1>7, <1>8 DEF W!Pass

\* A failing evaluation is one the worktree's specification allows.
LEMMA FailureIsSeen ==
  ASSUME Safe, Safe', Run, RunTalos, ~TalosPasses
  PROVE  W!Next
<1>1. /\ pc = "talos" /\ TypeOK /\ TypeOK'
      /\ UNCHANGED <<files, index, history, disposition, checkpoints, touched_files,
                     touched_test_files, evaluated, reviewed, reject_count,
                     review_verdict>>
      /\ replanned' = (replanned \/ ladder_rung' = 4)
      /\ \/ FailureHalts /\ UNCHANGED ladder_rung
         \/ FailureClimbs /\ ladder_rung < 4
  BY FailingTalos DEF Safe, Control
<1>2. WorktreeNode = "talos" /\ UNCHANGED CheckpointCommits /\ WorktreeOutcome = "running"
  BY <1>1, ViewsNow DEF Views, CheckpointCommits, Nodes
<1>3. CASE FailureHalts /\ UNCHANGED ladder_rung
  <2>1. pc' = "cerberus" /\ Halted'
    BY <1>3, NoneAssumption DEF FailureHalts, Halted
  <2>2. W!Halt
    BY <1>1, <1>3, <2>1, HaltIsSeen DEF Nodes
  <2>3. replanned' = replanned
    <3>1. /\ replanned \in BOOLEAN
          /\ ladder_rung = 4 => replanned
          /\ replanned' = (replanned \/ ladder_rung = 4)
      BY <1>1, <1>3 DEF Run, Climbed
    <3>2. CASE ladder_rung = 4
      BY <3>1, <3>2
    <3>3. CASE ladder_rung # 4
      BY <3>1, <3>3
    <3> QED BY <3>2, <3>3
  <2>4. W!Stop
    BY <1>1, <1>2, <2>2, <2>3 DEF W!Stop, W!repoVars, W!reportVars, W!ghostVars
  <2> QED BY <2>4 DEF W!Next
<1>4. CASE FailureClimbs /\ ladder_rung < 4
  <2>1. ladder_rung \in 0..4 /\ ladder_rung' \in {ladder_rung, ladder_rung + 1}
    BY <1>1, <1>4 DEF FailureClimbs, TypeOK, Rungs
  <2>2. pc' = RouteByRung(ladder_rung') /\ UNCHANGED halt_reason
    BY <1>4 DEF FailureClimbs, haltVars
  <2>3. WorktreeNode' = IF ladder_rung' = 0 THEN "talos" ELSE W!Serving[ladder_rung']
    <3>1. CASE ladder_rung' = 0
      BY <2>2, <3>1, ViewsThen DEF Views, RouteByRung
    <3>2. CASE ladder_rung' = 1
      BY <2>2, <3>2, ViewsThen DEF Views, RouteByRung, W!Serving
    <3>3. CASE ladder_rung' = 2
      BY <2>2, <3>3, ViewsThen DEF Views, RouteByRung, W!Serving
    <3>4. CASE ladder_rung' = 3
      BY <2>2, <3>4, ViewsThen DEF Views, RouteByRung, W!Serving
    <3>5. CASE ladder_rung' = 4
      BY <2>2, <3>5, ViewsThen DEF Views, RouteByRung, W!Serving
    <3> QED BY <1>4, <2>1, <3>1, <3>2, <3>3, <3>4, <3>5
  <2>4. pc' \in Nodes
    BY <1>4, <2>1, <2>2 DEF RouteByRung, Nodes
  <2>5. UNCHANGED <<WorktreeOutcome, Halted>>
    BY <1>2, <2>2, <2>4, ViewsThen DEF Views, Halted
  <2>6. W!Fail
    BY <1>1, <1>2, <1>4, <2>1, <2>3, <2>5
    DEF W!Fail, W!repoVars, W!reportVars
  <2> QED BY <2>6 DEF W!Next
<1> QED BY <1>1, <1>3, <1>4

\* A rollback of the run is the worktree's.
LEMMA RollbackIsSeen ==
  ASSUME RunRollback
  PROVE  W!RollbackStep
<1>1. /\ pc = "rollback" /\ pc' = "daedalus"
      /\ UNCHANGED <<checkpoints, ladder_rung, halt_reason, reject_count>>
  BY DEF RunRollback, Rollback, Continue, doneVars, ladderVars, haltVars, reviewVars
<1>2. W!Goto("daedalus") /\ WorktreeNode = "rollback" /\ UNCHANGED CheckpointCommits
  BY <1>1, ViewsNow, ViewsThen DEF Views, W!Goto, Nodes, Halted, CheckpointCommits
<1> QED BY <1>2 DEF RunRollback, W!RollbackStep, W!reportVars, W!ghostVars

\* The review: a report or an escalation, an approval, a way back.
LEMMA ReviewIsSeen ==
  ASSUME Safe, Run, CommitsFit, MaxTasks \in Nat, RunCerberus
  PROVE  W!Review
<1>1. /\ TypeOK /\ NodeRung /\ pc = "cerberus"
      /\ UNCHANGED <<checkpoints, ladder_rung>>
      /\ UNCHANGED <<files, history, touched_files, touched_test_files, evaluated, replanned,
                     disposition>>
      /\ index' = W!AddAll
      /\ reviewed' = IF review_verdict' = "escalate" THEN reviewed ELSE W!AddAll
  BY Position
  DEF RunCerberus, Cerberus, CerberusReportsHalt, CerberusUnreviewed, CerberusApproves,
      CerberusReturnsToCoder, CerberusReturnsToPlanner, CerberusEscalates, Escalate,
      Review, doneVars, ladderVars
<1>2. WorktreeNode = "cerberus" /\ WorktreeOutcome = "running" /\ UNCHANGED CheckpointCommits
      /\ disposition = None
  BY <1>1, ViewsNow DEF Views, Nodes, CheckpointCommits, Run, Branch
<1>3. Len(CheckpointCommits) = Len(checkpoints) /\ Len(checkpoints) \in Nat
  BY <1>1 DEF CheckpointCommits, TypeOK
<1>4. Len(CheckpointCommits) < MaxTasks
  BY <1>3 DEF CommitsFit
<1>5. CASE /\ pc' = "END" /\ Halted' /\ review_verdict' = "escalate"
           /\ UNCHANGED reject_count
  BY <1>1, <1>2, <1>5, ViewsThen DEF Views, W!Review, W!reportVars
<1>6. CASE /\ ~Halted /\ pc' = "END" /\ review_verdict' = "approve"
           /\ UNCHANGED <<reject_count, halt_reason>>
  <2>1. W!Goto("gate")
    BY <1>1, <1>2, <1>6, ViewsThen DEF Views, W!Goto, Halted
  <2> QED BY <1>1, <1>2, <1>6, <2>1 DEF W!Review, W!reportVars
<1>7. CASE /\ ~Halted /\ pc' \in {"argus_research", "odysseus"}
           /\ review_verdict' = "reject_and_return"
           /\ RejectionAllowed /\ reject_count' = reject_count + 1
           /\ UNCHANGED halt_reason
  <2>1. ladder_rung' = 0
    BY <1>1, <1>7 DEF NodeRung
  <2>2. WorktreeNode' = "daedalus" /\ UNCHANGED <<WorktreeOutcome, Halted>>
    BY <1>2, <1>7, <2>1, ViewsThen DEF Views, Nodes, Halted
  <2> QED BY <1>1, <1>2, <1>4, <1>7, <2>2 DEF W!Review, W!reportVars, RejectionAllowed
<1>8. CASE CerberusReportsHalt \/ CerberusUnreviewed \/ CerberusEscalates
  <2>1. pc' = "END" /\ Halted' /\ review_verdict' = "escalate" /\ UNCHANGED reject_count
    BY <1>8, NoneAssumption
    DEF CerberusReportsHalt, CerberusUnreviewed, CerberusEscalates, Escalate, Review,
        Halted, haltVars
  <2> QED BY <1>5, <2>1
<1>9. CASE CerberusApproves
  BY <1>6, <1>9 DEF CerberusApproves, Review, haltVars
<1>10. CASE CerberusReturnsToCoder \/ CerberusReturnsToPlanner
  BY <1>7, <1>10 DEF CerberusReturnsToCoder, CerberusReturnsToPlanner, Continue, Review,
     haltVars
<1> QED BY <1>8, <1>9, <1>10 DEF RunCerberus, Cerberus

\* The human gate of the run is the worktree's.
LEMMA GateIsSeen ==
  ASSUME RunGate
  PROVE  W!HumanGate
<1>1. /\ pc = "END" /\ review_verdict = "approve" /\ disposition = None
      /\ UNCHANGED <<pc, review_verdict, checkpoints, ladder_rung, halt_reason, reject_count>>
      /\ UNCHANGED <<files, index, touched_files, touched_test_files, evaluated, reviewed,
                     replanned>>
  BY DEF RunGate, vars, doneVars, ladderVars, reviewVars, haltVars
<1>2. disposition' # None
  BY RunAssumption DEF RunGate
<1>3. WorktreeNode = "gate" /\ W!End(disposition') /\ UNCHANGED CheckpointCommits
  BY <1>1, <1>2, ViewsNow, ViewsThen DEF Views, W!End, Halted, CheckpointCommits
<1>4. W!Squash \/ (W!End("declined") /\ UNCHANGED history)
  BY <1>3 DEF RunGate, W!Squash
<1> QED BY <1>1, <1>3, <1>4 DEF W!HumanGate, W!reportVars, W!ghostVars

-----------------------------------------------------------------------------
\* Every step of the run is a worktree step, or a stutter of it.
LEMMA StepIsSeen ==
  ASSUME Safe, Safe', Run, CommitsFit, MaxTasks \in Nat, [RunNext]_runVars
  PROVE  [W!Next]_(W!vars)
<1>1. CASE RunPlanning
  BY <1>1, PlanningIsSeen
<1>2. CASE RunDaedalus \/ RunChiron
  BY <1>2, WritingIsSeen
<1>3. CASE RunTalos
  BY <1>3, PassIsSeen, FailureIsSeen DEF W!Next
<1>4. CASE RunRollback
  BY <1>4, RollbackIsSeen DEF W!Next
<1>5. CASE RunCerberus
  BY <1>5, ReviewIsSeen DEF W!Next
<1>6. CASE RunGate
  BY <1>6, GateIsSeen DEF W!Next
<1>7. CASE UNCHANGED runVars
  <2>1. UNCHANGED <<pc, review_verdict, checkpoints, ladder_rung, halt_reason, reject_count,
                    fileVars>>
    BY <1>7 DEF runVars, vars, doneVars, ladderVars, reviewVars, haltVars
  <2>2. UNCHANGED <<WorktreeNode, WorktreeOutcome, Halted, CheckpointCommits>>
    BY <2>1 DEF WorktreeNode, WorktreeOutcome, Halted, CheckpointCommits, fileVars
  <2>3. UNCHANGED W!vars
    BY <2>1, <2>2 DEF W!vars, W!repoVars, W!reportVars, W!controlVars, W!ghostVars,
       fileVars, repoVars
  <2> QED BY <2>3
<1> QED BY <1>1, <1>2, <1>3, <1>4, <1>5, <1>6, <1>7 DEF RunNext

\* A run starts where the worktree does.
LEMMA StartIsSeen == RunInit => W!Init
<1> SUFFICES ASSUME RunInit PROVE W!Init
  OBVIOUS
<1>1. /\ pc = "argus_skeleton" /\ checkpoints = <<>> /\ halt_reason = None
      /\ ladder_rung = 0 /\ reject_count = 0
  BY DEF RunInit, Init
<1>2. /\ WorktreeNode = "daedalus" /\ WorktreeOutcome = "running" /\ Halted = FALSE
      /\ CheckpointCommits = <<>>
  BY <1>1, ViewsNow DEF Views, Nodes, Halted, CheckpointCommits
<1> QED BY <1>1, <1>2 DEF RunInit, W!Init

(* For any files, tasks, diffs and budgets, as long as the commits fit the *)
(* worktree's bound, a run moves files, index, commits and touched files   *)
(* only as Worktree's specification allows, one commit per checkpoint: so  *)
(* what is proved of Worktree holds of the run.                            *)
THEOREM RunsFollowWorktree == RunSpec /\ []CommitsFit => FollowsWorktree
<1>1. MaxTasks \in Nat
  BY RunAssumption
<1>2. Safe /\ Safe' /\ Run /\ CommitsFit /\ [RunNext]_runVars => [W!Next]_(W!vars)
  BY <1>1, StepIsSeen
<1> QED BY <1>2, StartIsSeen, RunInvariant, PTL DEF RunSpec, FollowsWorktree

-----------------------------------------------------------------------------
(***************************************************************************)
(* Part 4: what is proved of Worktree holds of the run.                    *)
(*                                                                         *)
(* Worktree's theorems are about Worktree_proofs' own copy of the          *)
(* specification.  The copy that XenoRun instantiates is shown, definition *)
(* by definition, to be the same.                                          *)
(***************************************************************************)
Proved == INSTANCE Worktree_proofs WITH
  checkpoints <- CheckpointCommits,
  node <- WorktreeNode,
  halted <- Halted,
  rejections <- reject_count,
  outcome <- WorktreeOutcome,
  MaxRejections <- MaxRejectionsPerRun

\* The two copies name the same variables,
LEMMA SameVariables ==
  /\ W!vars = Proved!vars
  /\ UNCHANGED W!vars => UNCHANGED Proved!vars
BY DEF W!vars, W!repoVars, W!reportVars, W!controlVars, W!ghostVars,
   Proved!vars, Proved!repoVars, Proved!reportVars, Proved!controlVars, Proved!ghostVars

\* compute the same trees and positions,
LEMMA SameParts ==
  /\ W!Blocks = Proved!Blocks
  /\ W!Patched = Proved!Patched
  /\ W!AddAll = Proved!AddAll
  /\ W!Gated = Proved!Gated
  /\ W!RootTree = Proved!RootTree
  /\ W!HeadTree = Proved!HeadTree
  /\ W!RollbackTarget = Proved!RollbackTarget
  /\ W!Serving = Proved!Serving
  /\ \A blocks : W!Overlay(blocks) = Proved!Overlay(blocks)
<1>1. W!Blocks = Proved!Blocks
  BY DEF W!Blocks, Proved!Blocks
<1>2. W!Patched = Proved!Patched
  BY <1>1 DEF W!Patched, Proved!Patched
<1>3. W!AddAll = Proved!AddAll
  BY DEF W!AddAll, Proved!AddAll
<1>4. W!Gated = Proved!Gated
  BY DEF W!Gated, Proved!Gated
<1>5. W!RootTree = Proved!RootTree /\ W!HeadTree = Proved!HeadTree
  BY DEF W!RootTree, Proved!RootTree, W!HeadTree, Proved!HeadTree, W!Last, Proved!Last
<1>6. W!RollbackTarget = Proved!RollbackTarget
  BY DEF W!RollbackTarget, Proved!RollbackTarget, W!Last, Proved!Last
<1>7. W!Serving = Proved!Serving
  BY DEF W!Serving, Proved!Serving
<1>8. \A blocks : W!Overlay(blocks) = Proved!Overlay(blocks)
  BY DEF W!Overlay, Proved!Overlay
<1> QED BY <1>1, <1>2, <1>3, <1>4, <1>5, <1>6, <1>7, <1>8

\* take the same steps when they write,
LEMMA SameWrites ==
  /\ W!Daedalus => Proved!Daedalus
  /\ W!Chiron => Proved!Chiron
  /\ W!Escape => Proved!Escape
  /\ W!Stop => Proved!Stop
<1> USE SameParts DEF W!repoVars, W!reportVars, W!ghostVars,
        Proved!repoVars, Proved!reportVars, Proved!ghostVars
<1>1. W!Halt => Proved!Halt
  BY DEF W!Halt, Proved!Halt
<1>2. W!Goto("talos") => Proved!Goto("talos")
  BY DEF W!Goto, Proved!Goto
<1>3. W!Daedalus => Proved!Daedalus
  BY <1>1, <1>2 DEF W!Daedalus, Proved!Daedalus
<1>4. W!Chiron => Proved!Chiron
  BY <1>1, <1>2 DEF W!Chiron, Proved!Chiron
<1>5. W!Escape => Proved!Escape
  BY <1>1 DEF W!Escape, Proved!Escape
<1>6. W!Stop => Proved!Stop
  BY <1>1 DEF W!Stop, Proved!Stop
<1> QED BY <1>3, <1>4, <1>5, <1>6

\* and after the write,
LEMMA SameVerdicts ==
  /\ W!Pass => Proved!Pass
  /\ W!Fail => Proved!Fail
  /\ W!RollbackStep => Proved!RollbackStep
  /\ W!Review => Proved!Review
  /\ W!HumanGate => Proved!HumanGate
  /\ W!Raise => Proved!Raise
<1> USE SameParts DEF W!repoVars, W!reportVars, W!ghostVars,
        Proved!repoVars, Proved!reportVars, Proved!ghostVars
<1>1. W!Pass => Proved!Pass
  BY DEF W!Pass, Proved!Pass, W!Commit, Proved!Commit, W!Report, Proved!Report
<1>2. W!Fail => Proved!Fail
  BY DEF W!Fail, Proved!Fail
<1>3. W!RollbackStep => Proved!RollbackStep
  BY DEF W!RollbackStep, Proved!RollbackStep, W!ResetHard, Proved!ResetHard, W!Goto, Proved!Goto
<1>4. W!Review => Proved!Review
  BY DEF W!Review, Proved!Review, W!Goto, Proved!Goto
<1>5. W!HumanGate => Proved!HumanGate
  BY DEF W!HumanGate, Proved!HumanGate, W!Squash, Proved!Squash, W!End, Proved!End
<1>6. W!Raise => Proved!Raise
  BY DEF W!Raise, Proved!Raise, W!End, Proved!End
<1> QED BY <1>1, <1>2, <1>3, <1>4, <1>5, <1>6

\* so a run is a behaviour of the specification the theorems are about.
LEMMA RunsAreProved == FollowsWorktree => Proved!Spec
<1>1. W!Next => Proved!Next
  BY SameWrites, SameVerdicts DEF W!Next, Proved!Next
<1>2. [W!Next]_(W!vars) => [Proved!Next]_(Proved!vars)
  BY <1>1, SameVariables
<1>3. W!Init => Proved!Init
  BY SameParts DEF W!Init, Proved!Init, W!Trees, Proved!Trees
<1> QED BY <1>2, <1>3, PTL DEF FollowsWorktree, Proved!Spec

\* Worktree's assumption is the run's.
LEMMA PathsAreAssumed == Proved!WorktreeAssumption
BY RunAssumption, GraphAssumption DEF Proved!WorktreeAssumption

(* What an approved run leaves on the branch is one commit of the tree     *)
(* Cerberus read, and the last passing gates saw that tree, for any files, *)
(* tasks, budgets and answers, whatever re-plans, returns and rollbacks    *)
(* came before.                                                            *)
THEOREM RunsShipWhatWasReviewed == RunSpec /\ []CommitsFit => []ShipsWhatWasReviewed
<1>1. Proved!Spec => []Proved!ApprovedIsReviewed
  BY PathsAreAssumed, Proved!ShippedIsReviewed
<1>2. Proved!ApprovedIsReviewed => ShipsWhatWasReviewed
  <2> SUFFICES ASSUME Proved!ApprovedIsReviewed, pc = "END", review_verdict = "approve",
                      disposition = "approved"
               PROVE  /\ history = <<W!RootTree, reviewed>>
                      /\ \A p \in Paths \ (IgnoredPaths \cup UngatedPaths) :
                           W!HeadTree[p] = evaluated[p]
    BY DEF ShipsWhatWasReviewed
  <2>1. WorktreeOutcome = "approved"
    BY RunAssumption DEF WorktreeOutcome
  <2> QED BY <2>1, SameParts DEF Proved!ApprovedIsReviewed
<1> QED BY <1>1, <1>2, RunsFollowWorktree, RunsAreProved, PTL

(* A run's branch is its root and one commit per checkpoint until it is    *)
(* squashed, a task's first write and each rewrite of L3 starts from the   *)
(* last commit, and until the run re-plans Cerberus is told of every test  *)
(* file the branch changes.                                                *)
THEOREM RunsKeepCheckpoints ==
  RunSpec /\ []CommitsFit => [](/\ Proved!CheckpointsStayReachable
                                /\ Proved!RewritesStartClean
                                /\ Proved!TestEditsReportedUnlessReplanned)
BY PathsAreAssumed, Proved!CheckpointsAreReachable, Proved!RewritesAreClean,
   Proved!TestEditsAreReported, RunsFollowWorktree, RunsAreProved, PTL
=============================================================================
