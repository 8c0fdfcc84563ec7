------------------------------- MODULE Answers -------------------------------
(***************************************************************************)
(* How model answers become state: the parsers of graph/prompts.py, the    *)
(* corrective retry of graph/nodeops.py, what each node does with the      *)
(* parsed answer, and AgentState's limit of 4 KB a field, which raises out *)
(* of whatever node makes the assignment.                                  *)
(*                                                                         *)
(* An answer is the sequence of well-formed tags found in it; prose        *)
(* between them is left out.  A text is its length and whether it is wide, *)
(* not only characters JSON writes as they are: the limits of the parsers  *)
(* count characters, the limit of a field counts bytes of JSON, where any  *)
(* other character takes up to six.  Paths are plain, and every path of    *)
(* the repository counts as the longest.                                   *)
(*                                                                         *)
(* The order in which the graph runs the nodes is kept coarse here;        *)
(* XenoGraph.tla has the ladder's exact budgets.                           *)
(***************************************************************************)
EXTENDS Integers, FiniteSets, Sequences, Functions

CONSTANTS
  Replies,              \* the answers a node's model may give, by node
  RepoFiles,            \* files of the worktree, as Argus may name them
  TestFiles,            \* file names is_test_file recognises
  Outside,              \* a path that resolves outside the worktree
  Failures,             \* what may be quoted of failing gates, cut by Talos
  DirBytes,             \* the length of the run's worktree's absolute path
  RelBytes,             \* of the longest path in it, from its root
  CommandBytes,         \* of the longest name of a toolchain command
  MaxRejectionsPerRun,  \* limits.max_rejections_per_run
  MaxCheckpoints,       \* bound on the tasks committed
  None

Asking == {"odysseus", "argus_research", "daedalus", "chiron", "cerberus"}

\* The tags each node's parser looks for: any other is prose to it.
TagsOf ==
  [odysseus |-> {"objection", "task"}, argus_research |-> {"file", "no_files"},
   daedalus |-> {"objection", "file"}, chiron |-> {"decline", "file"},
   cerberus |-> {"verdict", "destination", "message", "objections", "report"}]

WordTags == {"verdict", "destination"}

Verdicts == {"approve", "reject_and_return", "escalate"}

Texts == [len : Nat, wide : BOOLEAN]

Tags(tags) ==
  [tag : tags \cap WordTags, word : STRING]
    \cup [tag : tags \cap {"file"}, path : STRING, text : Texts]
    \cup [tag : tags \ (WordTags \cup {"file"}), text : Texts]

ASSUME AnswersAssumption ==
  /\ DOMAIN Replies = Asking
  /\ \A node \in Asking : Replies[node] \subseteq Seq(Tags(TagsOf[node]))
  /\ None \notin Texts \cup Verdicts
  /\ Outside \notin RepoFiles
  /\ Failures \subseteq Texts
  /\ {DirBytes, RelBytes, CommandBytes} \subseteq Nat
  /\ MaxRejectionsPerRun \in Nat
  /\ MaxCheckpoints \in Nat \ {0}

MAX_FIELD_BYTES      == 4096
MAX_SUMMARY_CHARS    == 200
MAX_TASK_DESCRIPTION == 2000
MAX_COMMIT_MESSAGE   == 2000
MAX_MESSAGE_CHARS    == 200
MAX_FORMAT_ATTEMPTS  == 2
MAX_FIRST_FAILURE    == 500

VARIABLES
  pc,              \* the node about to ask or act, "talos", "END" or "raised"
  attempt,         \* of the current call, from 1
  plan,            \* the descriptions of the plan file's tasks
  task_cursor,
  context_handles, \* AgentState's, as path |-> summary
  touched,         \* the test files in touched_files, block by block
  touched_test_files, \* AgentState's: those of the completed tasks
  checkpoints,     \* the task descriptions in the CommitRefs' messages
  commit_message,
  halt_reason,
  review_verdict,
  reject_count,
  purpose,         \* of the next research or plan: "task", "L2" or "L4"
  call,            \* history variable: the current or last call's exchanges,
                   \* its node, and the paths in the last answer's file tags
  written,         \* history variable: the paths that call put on disk
  plain,           \* history variable: no answer so far was long or wide
  raised_by        \* history variable: the value that did not fit, or None

testVars == <<touched, touched_test_files>>
stateVars == <<plan, task_cursor, context_handles, checkpoints, testVars,
               commit_message, halt_reason, review_verdict, reject_count>>
vars == <<pc, attempt, stateVars, purpose, call, written, plain, raised_by>>

-----------------------------------------------------------------------------
(* Texts, and their size as stable_json writes them.                       *)

Text(len, wide) == [len |-> len, wide |-> wide]

Blank(text) == text.len = 0

Truncated(text, limit) == [text EXCEPT !.len = IF @ > limit THEN limit ELSE @]

\* {"bytes":..,"path":..,"sha256":..,"summary":..} without path and summary
\* but for the ellipsis of a cut one; bytes of seven digits at most.
HANDLE_BYTES == 45 + 7 + 64 + 5
\* An EvalReport without its texts, its log's handle and its test files; the
\* log's path in the run's workspace, beyond DirBytes, and its summary.
EVAL_BYTES == 129
LOG_BYTES  == 23 + 40
\* {"created_at":..,"message":..,"sha":..,"task_index":..} without message,
\* and the message's "xeno: task 0 - ".
COMMIT_BYTES   == 111
MESSAGE_PREFIX == 15
\* The longest prefix of a halt reason and its quotes.
HALT_PREFIX == 22

Bytes(text) == IF text.wide THEN 6 * text.len ELSE text.len

Fits(bytes) == bytes <= MAX_FIELD_BYTES

HaltFits(reason) == Fits(HALT_PREFIX + Bytes(reason))

CommitMessageFits(message) == Fits(2 + Bytes(message))

\* A JSON list: brackets, and a comma before every element but the first.
\* The path of a handle is absolute.
HandlesFit(handles) ==
  Fits(1 + SumFunction([path \in DOMAIN handles |->
             1 + HANDLE_BYTES + DirBytes + 1 + RelBytes + Bytes(handles[path])]))

\* A list of n test files, each in quotes.
TestsBytes(n) == 1 + n * (3 + RelBytes)

TestsFit(tests) == Fits(TestsBytes(Cardinality(tests)))

\* An evaluation names a failing command, quotes a failure, and lists the test
\* files as often as they were written.
EvalBytes(failure, n) ==
  EVAL_BYTES + CommandBytes + Bytes(failure) + HANDLE_BYTES + DirBytes + LOG_BYTES
    + TestsBytes(n)

EvalFits(failure, tests) == Fits(EvalBytes(failure, Len(tests)))

CheckpointsFit(messages) ==
  Fits(1 + SumFunction([i \in DOMAIN messages |->
             1 + COMMIT_BYTES + MESSAGE_PREFIX + Bytes(messages[i])]))

-----------------------------------------------------------------------------
(* The parsers.  A tag counts wherever it stands, in a file's content too. *)

Where(answer, tag) == {i \in DOMAIN answer : answer[i].tag = tag}

\* The tags at some positions, in order.
Picked(answer, positions) ==
  LET picked[n \in 0..Len(answer)] ==
        IF n = 0 THEN <<>>
        ELSE IF n \in positions THEN Append(picked[n - 1], answer[n])
        ELSE picked[n - 1]
  IN  picked[Len(answer)]

Tagged(answer, tag) == Picked(answer, Where(answer, tag))

Has(answer, tag) == Where(answer, tag) # {}

First(answer, tag) == Head(Tagged(answer, tag))

\* The harness's own sentence for an answer without usable tags.
NoTags == Text(170, FALSE)

\* Files before the objection: an answer with both is acted on.
Mutant_ParseDaedalus(answer) ==
  IF Has(answer, "file")
  THEN [files |-> Tagged(answer, "file"), objection |-> None, malformed |-> FALSE]
  ELSE IF Has(answer, "objection")
  THEN [files |-> <<>>, objection |-> First(answer, "objection").text,
        malformed |-> FALSE]
  ELSE [files |-> <<>>, objection |-> NoTags, malformed |-> TRUE]

ParseDaedalus(answer) ==
  IF Has(answer, "objection")
  THEN [files |-> <<>>, objection |-> First(answer, "objection").text,
        malformed |-> FALSE]
  ELSE IF ~Has(answer, "file")
  THEN [files |-> <<>>, objection |-> NoTags, malformed |-> TRUE]
  ELSE [files |-> Tagged(answer, "file"), objection |-> None, malformed |-> FALSE]

ParseChiron(answer) ==
  IF Has(answer, "decline")
  THEN [files |-> <<>>, declined |-> TRUE, malformed |-> FALSE]
  ELSE IF ~Has(answer, "file")
  THEN [files |-> <<>>, declined |-> TRUE, malformed |-> TRUE]
  ELSE [files |-> Tagged(answer, "file"), declined |-> FALSE, malformed |-> FALSE]

\* Task blocks without a description are dropped, long ones truncated.
UsableTasks(answer) ==
  LET blocks ==
        Picked(answer, {i \in Where(answer, "task") : ~Blank(answer[i].text)})
  IN  [i \in DOMAIN blocks |-> Truncated(blocks[i].text, MAX_TASK_DESCRIPTION)]

ParseOdysseus(answer) ==
  IF Has(answer, "objection")
  THEN [tasks |-> <<>>, objection |-> First(answer, "objection").text,
        malformed |-> FALSE]
  ELSE IF UsableTasks(answer) = <<>>
  THEN [tasks |-> <<>>, objection |-> NoTags, malformed |-> TRUE]
  ELSE [tasks |-> UsableTasks(answer), objection |-> None, malformed |-> FALSE]

ParseArgus(answer) ==
  [files |-> Tagged(answer, "file"),
   malformed |-> ~Has(answer, "file") /\ ~Has(answer, "no_files")]

Verdict(answer) ==
  IF Has(answer, "verdict") THEN First(answer, "verdict").word ELSE None

\* A verdict counts only with the fields it needs.
ParseCerberus(answer) ==
  LET verdict == Verdict(answer)
      destination == IF Has(answer, "destination")
                     THEN First(answer, "destination").word ELSE None
  IN  IF verdict = "approve" /\ Has(answer, "message")
      THEN [verdict |-> verdict, malformed |-> FALSE,
            message |-> Truncated(First(answer, "message").text, MAX_COMMIT_MESSAGE)]
      ELSE IF /\ verdict = "reject_and_return"
              /\ destination \in {"daedalus", "odysseus"}
              /\ Has(answer, "objections")
      THEN [verdict |-> verdict, malformed |-> FALSE, destination |-> destination,
            objections |-> First(answer, "objections").text]
      ELSE IF verdict = "escalate" /\ Has(answer, "report")
      THEN [verdict |-> verdict, malformed |-> FALSE]
      ELSE [verdict |-> None, malformed |-> TRUE]

Parse(node, answer) ==
  CASE node = "odysseus"       -> ParseOdysseus(answer)
    [] node = "argus_research" -> ParseArgus(answer)
    [] node = "daedalus"       -> ParseDaedalus(answer)
    [] node = "chiron"         -> ParseChiron(answer)
    [] node = "cerberus"       -> ParseCerberus(answer)

-----------------------------------------------------------------------------
(* What a step does to the control state.                                  *)

Goto(node) == pc' = node /\ raised_by' = None

\* The validator raises: the state of the raising step is lost.
Raise(value) ==
  /\ pc' = "raised"
  /\ raised_by' = value
  /\ UNCHANGED <<stateVars, purpose>>

\* A halt reason quotes the model's objection in full.
Halt(reason) ==
  IF HaltFits(reason)
  THEN /\ Goto("cerberus")
       /\ halt_reason' = reason
       /\ UNCHANGED <<plan, task_cursor, context_handles, checkpoints,
                      testVars, commit_message, review_verdict, reject_count,
                      purpose>>
  ELSE Raise("halt_reason")

Short == Text(60, FALSE)

-----------------------------------------------------------------------------
(* The nodes, given the answer that ends their call.                       *)

\* Only the ladder's re-plan keeps the completed tasks.
Mutant_Replanning == purpose = "L4"

Replanning == purpose = "L4" \/ review_verdict = "reject_and_return"

OdysseusActs(output) ==
  IF output.objection # None THEN Halt(output.objection)
  ELSE /\ plan' = (IF Replanning THEN SubSeq(plan, 1, task_cursor) ELSE <<>>)
                    \o output.tasks
       /\ Goto("argus_research")
       /\ UNCHANGED <<task_cursor, context_handles, checkpoints, testVars,
                      commit_message, halt_reason, review_verdict, reject_count,
                      purpose>>

\* Paths outside the worktree and files that do not exist are skipped.
Found(files) == {i \in DOMAIN files : files[i].path \in RepoFiles}

ArgusActs(output) ==
  LET named == {output.files[i].path : i \in Found(output.files)}
      last(path) == CHOOSE i \in Found(output.files) :
                      /\ output.files[i].path = path
                      /\ \A j \in Found(output.files) :
                           output.files[j].path = path => j <= i
      handles == [path \in DOMAIN context_handles \cup named |->
                    IF path \in named
                    THEN Truncated(output.files[last(path)].text, MAX_SUMMARY_CHARS)
                    ELSE context_handles[path]]
  IN  IF HandlesFit(handles)
      THEN /\ context_handles' = handles
           /\ Goto(IF purpose = "L2" THEN "chiron" ELSE "daedalus")
           /\ UNCHANGED <<plan, task_cursor, checkpoints, testVars,
                          commit_message, halt_reason, review_verdict,
                          reject_count, purpose>>
      ELSE Raise("context_handles")

\* The blocks that escape the worktree.
Escape(files) == {i \in DOMAIN files : files[i].path = Outside}

\* Writing stops at the first of them, and what is before it stays on disk.
WriteFileBlocks(files) ==
  written' = {files[i].path : i \in {i \in DOMAIN files :
                                       \A j \in Escape(files) : i < j}}

WriteNothing == written' = {}

TestBlocks(files) == {i \in DOMAIN files : files[i].path \in TestFiles}

\* What a call of Daedalus touched replaces what the task touched before.
DaedalusActs(output) ==
  IF output.objection # None THEN Halt(output.objection) /\ WriteNothing
  ELSE /\ WriteFileBlocks(output.files)
       /\ IF Escape(output.files) # {} THEN Halt(Short)
          ELSE LET tests == Picked(output.files, TestBlocks(output.files))
               IN  /\ Goto("talos")
                   /\ touched' = [i \in DOMAIN tests |-> tests[i].path]
                   /\ UNCHANGED <<plan, task_cursor, context_handles, checkpoints,
                                  touched_test_files, commit_message, halt_reason,
                                  review_verdict, reject_count, purpose>>

\* Talos evaluates whether or not a patch was applied; one that was has no
\* test file to touch.
ChironActs(output) ==
  IF output.declined \/ TestBlocks(output.files) # {}
  THEN Goto("talos") /\ WriteNothing /\ UNCHANGED <<stateVars, purpose>>
  ELSE /\ WriteFileBlocks(output.files)
       /\ IF Escape(output.files) # {} THEN Halt(Short)
          ELSE Goto("talos") /\ UNCHANGED <<stateVars, purpose>>

EndReview(verdict, message) ==
  /\ Goto("END")
  /\ review_verdict' = verdict
  /\ commit_message' = message
  /\ UNCHANGED <<plan, task_cursor, context_handles, checkpoints, testVars,
                 reject_count, purpose>>

Approve(message) ==
  IF CommitMessageFits(message)
  THEN EndReview("approve", message) /\ UNCHANGED halt_reason
  ELSE Raise("commit_message")

EscalateReview ==
  EndReview("escalate", commit_message) /\ halt_reason' = Short

\* A rejection for the coder becomes a task, described by the objections.
Reject(output) ==
  IF reject_count >= MaxRejectionsPerRun THEN EscalateReview
  ELSE IF output.destination = "daedalus" /\ output.objections.len > MAX_TASK_DESCRIPTION
  THEN Raise("plan_task")
  ELSE /\ reject_count' = reject_count + 1
       /\ review_verdict' = "reject_and_return"
       /\ IF output.destination = "daedalus"
          THEN plan' = Append(plan, output.objections) /\ Goto("argus_research")
          ELSE UNCHANGED plan /\ Goto("odysseus")
       /\ UNCHANGED <<task_cursor, context_handles, checkpoints, testVars,
                      commit_message, halt_reason, purpose>>

CerberusActs(output) ==
  CASE output.verdict = "approve"           -> Approve(output.message)
    [] output.verdict = "reject_and_return" -> Reject(output)
    [] OTHER                                -> EscalateReview

Act(node, output) ==
  CASE node = "odysseus"       -> OdysseusActs(output) /\ WriteNothing
    [] node = "argus_research" -> ArgusActs(output) /\ WriteNothing
    [] node = "daedalus"       -> DaedalusActs(output)
    [] node = "chiron"         -> ChironActs(output)
    [] node = "cerberus"       -> CerberusActs(output) /\ WriteNothing

-----------------------------------------------------------------------------
(* One exchange with the model.  Question and answer enter the prompt's    *)
(* history whether or not the answer parsed.                               *)

PLAIN_CHARS == 500

PlainAnswer(answer) ==
  \A i \in DOMAIN answer :
    answer[i].tag \notin WordTags =>
      ~answer[i].text.wide /\ answer[i].text.len <= PLAIN_CHARS

Exchange(answer) ==
  [asked  |-> IF attempt = 1 THEN "turn" ELSE "correction",
   usable |-> ~Parse(pc, answer).malformed,
   tags   |-> {answer[i].tag : i \in DOMAIN answer}]

Remember(answer) ==
  /\ plain' = (plain /\ PlainAnswer(answer))
  /\ call' = [exchanges |-> Append(IF attempt = 1 THEN <<>> ELSE call.exchanges,
                                   Exchange(answer)),
              node |-> pc,
              files |-> {answer[i].path : i \in Where(answer, "file")}]

\* An objection or a decline is argued with like an unparsable answer.
Mutant_Retries(answer) ==
  /\ attempt < MAX_FORMAT_ATTEMPTS
  /\ \/ Parse(pc, answer).malformed
     \/ Has(answer, "decline")

Retries(answer) ==
  /\ attempt < MAX_FORMAT_ATTEMPTS
  /\ Parse(pc, answer).malformed

Ask ==
  /\ pc \in Asking
  /\ pc = "cerberus" => halt_reason = None
  /\ \E answer \in Replies[pc] :
       /\ Remember(answer)
       /\ IF Retries(answer)
          THEN /\ attempt' = attempt + 1
               /\ WriteNothing
               /\ UNCHANGED <<pc, stateVars, purpose, raised_by>>
          ELSE /\ attempt' = 1
               /\ Act(pc, Parse(pc, answer))

\* Every entry of the node's chain failed, on the first call or the second.
ChainExhausted ==
  /\ pc \in Asking
  /\ pc = "cerberus" => halt_reason = None
  /\ attempt' = 1
  /\ IF pc = "cerberus" THEN EscalateReview ELSE Halt(Short)
  /\ UNCHANGED <<call, written, plain>>

-----------------------------------------------------------------------------
\* Checkpoint messages are kept whole.
Mutant_CheckpointMessage(task) == task

\* "xeno: task N - description", cut to 200 characters.
CheckpointMessage(task) == Truncated(task, MAX_MESSAGE_CHARS - MESSAGE_PREFIX)

\* Talos's report, the CommitRef and the run's test files are assigned in this
\* order, each of them checked.
TalosPasses ==
  /\ pc = "talos"
  /\ Len(checkpoints) < MaxCheckpoints
  /\ LET messages == Append(checkpoints, CheckpointMessage(plan[task_cursor + 1]))
         tests    == touched_test_files \cup Range(touched)
     IN  IF ~EvalFits(Text(0, FALSE), touched) THEN Raise("eval_report")
         ELSE IF ~CheckpointsFit(messages) THEN Raise("checkpoints")
         ELSE IF ~TestsFit(tests) THEN Raise("touched_test_files")
         ELSE /\ checkpoints' = messages
              /\ touched_test_files' = tests
              /\ task_cursor' = task_cursor + 1
              /\ purpose' = "task"
              /\ Goto(IF task_cursor' < Len(plan) THEN "argus_research"
                                                  ELSE "cerberus")
              /\ UNCHANGED <<plan, context_handles, touched, commit_message,
                             halt_reason, review_verdict, reject_count>>
  /\ UNCHANGED <<attempt, call, written, plain>>

\* The model's triage, or the end of the log when it cannot be had, is cut.
TalosFails ==
  /\ pc = "talos"
  /\ \E text \in Failures :
       LET failure == Truncated(text, MAX_FIRST_FAILURE)
       IN  /\ plain' = (plain /\ ~failure.wide)
           /\ \/ ~EvalFits(failure, touched) /\ Raise("eval_report")
              \/ EvalFits(failure, touched) /\ Halt(Short)
              \/ /\ EvalFits(failure, touched)
                 /\ \/ Goto("talos") /\ UNCHANGED purpose
                    \/ Goto("chiron") /\ purpose' = "task"
                    \/ Goto("argus_research") /\ purpose' = "L2"
                    \/ Goto("daedalus") /\ purpose' = "task"
                    \/ Goto("odysseus") /\ purpose' = "L4"
                 /\ UNCHANGED stateVars
  /\ UNCHANGED <<attempt, call, written>>

\* A halted run is reported without a call.
CerberusReportsHalt ==
  /\ pc = "cerberus"
  /\ halt_reason # None
  /\ EndReview("escalate", commit_message)
  /\ UNCHANGED <<halt_reason, attempt, call, written, plain>>

\* Argus's skeleton, the answer no parser reads, has been taken.
Init ==
  /\ pc = "odysseus"
  /\ attempt = 1
  /\ plan = <<>>
  /\ task_cursor = 0
  /\ context_handles = <<>>
  /\ checkpoints = <<>>
  /\ touched = <<>>
  /\ touched_test_files = {}
  /\ commit_message = None
  /\ halt_reason = None
  /\ review_verdict = None
  /\ reject_count = 0
  /\ purpose = "task"
  /\ call = [exchanges |-> <<>>, node |-> None, files |-> {}]
  /\ written = {}
  /\ plain = TRUE
  /\ raised_by = None

Next ==
  \/ Ask
  \/ ChainExhausted
  \/ TalosPasses
  \/ TalosFails
  \/ CerberusReportsHalt

Spec == Init /\ [][Next]_vars
=============================================================================
