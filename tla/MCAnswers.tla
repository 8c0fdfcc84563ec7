------------------------------ MODULE MCAnswers ------------------------------
(***************************************************************************)
(* Instances of Answers for TLC.                                           *)
(***************************************************************************)
EXTENDS AnswersProperties, TLC

Tag(tag, text) == [tag |-> tag, text |-> text]
Word(tag, word) == [tag |-> tag, word |-> word]
File(path, text) == [tag |-> "file", path |-> path, text |-> text]

Empty == Text(0, FALSE)
Brief == Text(80, FALSE)
\* Longer than a task, and longer than a field.
Essay == Text(2500, FALSE)
Novel == Text(5000, FALSE)
\* As long as a commit message may be, in characters of six bytes.
Foreign == Text(2000, TRUE)

\* A task whose message fills a checkpoint's 200 characters.
Task == Tag("task", Text(300, FALSE))

PlanReplies ==
  {<<>>, <<Tag("task", Empty)>>, <<Tag("task", Empty), Task>>,
   [i \in 1..5 |-> Task], <<Task, Tag("objection", Brief)>>,
   <<Tag("objection", Novel)>>}

SrcFiles == {"f1", "f2", "f3", "f4", "f5", "f6"}

\* Reasons are cut to 200 characters.
Reasons(paths) == [i \in 1..Len(paths) |-> File(paths[i], Text(300, FALSE))]

\* Of context files five fit, with paths of DirBytes and RelBytes.
FileReplies ==
  {<<>>, <<Tag("no_files", Brief)>>,
   Reasons(<<"f1", "f2", "f3", "f4">>), Reasons(<<"f4", "f5", "f6", "gone">>),
   <<File("f4", Text(300, FALSE)), File("f4", Foreign)>>}

\* Of test files ten fit in a run's list, and nine in an evaluation's.
Test(i) == "test_" \o ToString(i)
Tests == {Test(i) : i \in 1..12}
Writes(first, last) == [i \in 1..last - first + 1 |-> File(Test(first + i - 1), Brief)]

WriteReplies(refusal) ==
  {<<>>, <<File("f1", Brief)>>, <<File("f1", Brief), File("out", Brief)>>,
   <<File("f1", Brief), Tag(refusal, Brief)>>, <<Tag(refusal, Novel)>>}

PatchReplies ==
  WriteReplies("decline") \cup {<<File("f1", Brief), File(Test(1), Brief)>>}

\* The first list is too long for a report with a long failure, the third for
\* any report, the first and the second together for the run's.
TestReplies == {Writes(1, 8), Writes(7, 12), Writes(1, 10)}

\* A failure as plain as it is long, and one that is cut and wide.
SmallFailures == {Text(500, FALSE), Text(2000, TRUE)}

ReviewReplies ==
  LET approve == Word("verdict", "approve")
      reject == Word("verdict", "reject_and_return")
      to(node) == Word("destination", node)
  IN  {<<approve>>, <<approve, Tag("message", Brief)>>,
       <<Tag("message", Foreign), approve, reject>>,
       <<reject, to("daedalus"), Tag("objections", Brief)>>,
       <<reject, to("odysseus"), Tag("objections", Essay)>>,
       <<reject, to("daedalus"), Tag("objections", Essay)>>,
       <<reject, to("talos"), Tag("objections", Brief)>>,
       <<Word("verdict", "escalate"), Tag("report", Novel)>>}

SmallReplies ==
  [odysseus |-> PlanReplies, argus_research |-> FileReplies,
   daedalus |-> WriteReplies("objection") \cup TestReplies, chiron |-> PatchReplies,
   cerberus |-> ReviewReplies]
=============================================================================
