-------------------------- MODULE AnswersProperties --------------------------
(***************************************************************************)
(* What holds of model answers on their way into the run's state.          *)
(***************************************************************************)
EXTENDS Answers

(* A model is corrected exactly once, exactly when its first answer had no *)
(* usable tags: a deliberate objection or decline is never argued with,    *)
(* and an unusable answer is never acted on before the correction is       *)
(* spent (MAX_FORMAT_ATTEMPTS).                                            *)
CorrectionsFollowMistakes ==
  LET exchanges == call.exchanges
      refused(i) == exchanges[i].tags \cap {"objection", "decline"} # {}
  IN  /\ Len(exchanges) <= MAX_FORMAT_ATTEMPTS
      /\ \A i \in DOMAIN exchanges :
           exchanges[i].asked = "correction" <=> i = 2
      /\ Len(exchanges) = 2 => ~exchanges[1].usable /\ ~refused(1)
      /\ written # {} => exchanges[Len(exchanges)].usable

(* Files are written only for an answer that carries file blocks and no    *)
(* refusal anywhere, however the tags are ordered or repeated; a patch of  *)
(* Chiron's with a test file in it is refused whole; and Talos evaluates   *)
(* all of an answer's blocks or none, never the ones before an escape.     *)
RefusalsWriteNothing ==
  /\ written # {} =>
       LET tags == call.exchanges[Len(call.exchanges)].tags
       IN  /\ "file" \in tags /\ tags \cap {"objection", "decline"} = {}
           /\ call.node = "chiron" => call.files \cap TestFiles = {}
  /\ pc = "talos" => written \in {{}, call.files}

\* A handle, a checkpoint and a quoted failure at their longest, in plain text.
LONGEST_HANDLE     == HANDLE_BYTES + DirBytes + 1 + RelBytes + MAX_SUMMARY_CHARS
LONGEST_CHECKPOINT == COMMIT_BYTES + MAX_MESSAGE_CHARS
LONGEST_FAILURE    == Text(MAX_FIRST_FAILURE, FALSE)

\* Whether n such elements may be too many for a list.
TooMany(n, longest) == ~Fits(1 + n * (1 + longest))

(* A run whose every answer was short plain text, and so every failure it  *)
(* quoted, raises only by the length of a list: no objection, reason,      *)
(* report or message is refused, and no list that fits with every element  *)
(* at its longest.  There is room for thirteen checkpoints; how many       *)
(* context files and test files there is room for depends on the length of *)
(* their paths.                                                            *)
ShortAnswersRaiseOnlyByNumber ==
  plain /\ raised_by # None =>
    \/ /\ raised_by = "context_handles"
       /\ TooMany(Cardinality(DOMAIN context_handles \cup (call.files \cap RepoFiles)),
                  LONGEST_HANDLE)
    \/ /\ raised_by = "checkpoints"
       /\ TooMany(Len(checkpoints) + 1, LONGEST_CHECKPOINT)
    \/ /\ raised_by = "touched_test_files"
       /\ TooMany(Cardinality(touched_test_files \cup Range(touched)), 2 + RelBytes)
    \/ /\ raised_by = "eval_report"
       /\ ~Fits(EvalBytes(LONGEST_FAILURE, Len(touched)))

(* Everything in the plan file can be read back by the nodes that come     *)
(* after: tasks within PlanTask's limit, the current one among them.       *)
PlanIsReadable ==
  /\ \A i \in DOMAIN plan : plan[i].len <= MAX_TASK_DESCRIPTION
  /\ pc \in {"argus_research", "daedalus", "chiron", "talos"} =>
       task_cursor < Len(plan)

(* graph/prompts.py on a task's description: "truncating here rather than  *)
(* letting a too-long model response raise a validation error".            *)
LongTasksAreTruncated == raised_by # "plan_task"
=============================================================================
