---------------------------- MODULE Answers_proofs ----------------------------
(***************************************************************************)
(* Proofs about Answers: for every set of answers, every worktree and any  *)
(* number of rejections and checkpoints, only unusable answers are         *)
(* corrected, a refusal writes nothing, short plain answers overflow a     *)
(* field only by their number, and the plan stays readable.                *)
(***************************************************************************)
EXTENDS AnswersProperties, SumTheorems

Steps == Asking \cup {"talos", "END", "raised"}

AllTags == UNION {TagsOf[node] : node \in Asking}

Exchanges == [asked : {"turn", "correction"}, usable : BOOLEAN, tags : SUBSET AllTags]

(* What a text in the state is at most, and whether it may be wide.        *)
Within(text, limit, narrow) ==
  text \in Texts /\ text.len <= limit /\ (narrow => text.wide = FALSE)

\* The texts in the plan file, in the handles and in the checkpoints.
Held ==
  /\ plan \in Seq(Texts)
  /\ \A i \in 1..Len(plan) : Within(plan[i], MAX_TASK_DESCRIPTION, plain)
  /\ IsFiniteSet(DOMAIN context_handles)
  /\ \A path \in DOMAIN context_handles :
       Within(context_handles[path], MAX_SUMMARY_CHARS, plain)
  /\ Len(touched) \in Nat
  /\ checkpoints \in Seq(Texts)
  /\ \A i \in 1..Len(checkpoints) :
       Within(checkpoints[i], MAX_MESSAGE_CHARS - MESSAGE_PREFIX, plain)

\* A node that works on a task has one, and a plan starts over only with
\* nothing completed.
Flow ==
  /\ pc \in Steps
  /\ task_cursor \in 0..Len(plan)
  /\ pc \in {"argus_research", "daedalus", "chiron", "talos"} => task_cursor < Len(plan)
  /\ pc = "odysseus" => Replanning \/ task_cursor = 0

\* The exchanges of the current or last call.
Exchanged ==
  /\ attempt \in 1..MAX_FORMAT_ATTEMPTS
  /\ call.exchanges \in Seq(Exchanges)
  /\ CorrectionsFollowMistakes
  /\ RefusalsWriteNothing
  /\ attempt = 2 =>
       /\ Len(call.exchanges) = 1
       /\ ~call.exchanges[1].usable
       /\ call.exchanges[1].tags \cap {"objection", "decline"} = {}

Raised ==
  /\ raised_by # None => pc = "raised"
  /\ ShortAnswersRaiseOnlyByNumber

Inv == Held /\ Flow /\ Exchanged /\ Raised

-----------------------------------------------------------------------------
(* The tags a parser picks out of an answer.                               *)

\* The recursion that Picked follows, up to the first n tags.
Picks(answer, positions, picked, n) ==
  picked = [k \in 0..n |->
              IF k = 0 THEN <<>>
              ELSE IF k \in positions THEN Append(picked[k - 1], answer[k])
              ELSE picked[k - 1]]

\* It has a solution, however long the answer.
LEMMA PicksExists ==
  ASSUME NEW answer, NEW positions, NEW n \in Nat
  PROVE  \E picked : Picks(answer, positions, picked, n)
<1> DEFINE good == {k \in 0..n : \E picked : Picks(answer, positions, picked, k)}
<1>1. 0 \in good
  <2> DEFINE picked == [k \in 0..0 |-> <<>>]
  <2>1. Picks(answer, positions, picked, 0)
    BY DEF Picks
  <2> HIDE DEF picked
  <2> QED BY <2>1
<1>2. ASSUME NEW k \in 0..n - 1, k \in good
      PROVE  k + 1 \in good
  <2>1. PICK picked : Picks(answer, positions, picked, k)
    BY <1>2
  <2> DEFINE last == IF k + 1 \in positions THEN Append(picked[k], answer[k + 1])
                                            ELSE picked[k]
             longer == [j \in 0..k + 1 |-> IF j = k + 1 THEN last ELSE picked[j]]
  <2>2. \A j \in 0..k : picked[j] = IF j = 0 THEN <<>>
          ELSE IF j \in positions THEN Append(picked[j - 1], answer[j])
          ELSE picked[j - 1]
    BY <2>1 DEF Picks
  <2>3. /\ longer = [j \in 0..k + 1 |-> longer[j]]
        /\ longer[k + 1] = last
        /\ \A j \in 0..k : longer[j] = picked[j]
    OBVIOUS
  <2> HIDE DEF longer
  <2>4. \A j \in 0..k + 1 : longer[j] = IF j = 0 THEN <<>>
          ELSE IF j \in positions THEN Append(longer[j - 1], answer[j])
          ELSE longer[j - 1]
    <3>1. ASSUME NEW j \in 0..k
          PROVE  longer[j] = IF j = 0 THEN <<>>
                   ELSE IF j \in positions THEN Append(longer[j - 1], answer[j])
                   ELSE longer[j - 1]
      <4>1. longer[j] = picked[j] /\ (j # 0 => longer[j - 1] = picked[j - 1])
        <5>1. j # 0 => j - 1 \in 0..k
          OBVIOUS
        <5> QED BY <2>3, <5>1
      <4> QED BY <2>2, <4>1
    <3>2. longer[k + 1] = IF k + 1 \in positions THEN Append(longer[k], answer[k + 1])
                                                 ELSE longer[k]
      BY <2>3
    <3> QED BY <3>1, <3>2
  <2>5. Picks(answer, positions, longer, k + 1)
    BY <2>3, <2>4 DEF Picks
  <2> QED BY <2>5
<1>3. n \in good
  <2> HIDE DEF good
  <2> QED BY <1>1, <1>2, Counting
<1> QED BY <1>3

(* Picked returns the tags at the given positions, and nothing else.       *)
LEMMA PickedAreThere ==
  ASSUME NEW S, NEW answer \in Seq(S), NEW positions \in SUBSET (1..Len(answer))
  PROVE  /\ Picked(answer, positions) \in Seq(S)
         /\ \A j \in 1..Len(Picked(answer, positions)) :
              \E i \in positions : Picked(answer, positions)[j] = answer[i]
         /\ \A i \in positions : \E j \in 1..Len(Picked(answer, positions)) :
              Picked(answer, positions)[j] = answer[i]
<1> DEFINE n == Len(answer)
           picked == CHOOSE picked : Picks(answer, positions, picked, n)
<1>1. n \in Nat /\ \A i \in 1..n : answer[i] \in S
  OBVIOUS
<1>2. Picked(answer, positions) = picked[n]
  BY DEF Picked, Picks
<1>3. Picks(answer, positions, picked, n)
  BY <1>1, PicksExists
<1> HIDE DEF picked
<1>4. \A k \in 0..n : picked[k] = IF k = 0 THEN <<>>
        ELSE IF k \in positions THEN Append(picked[k - 1], answer[k])
        ELSE picked[k - 1]
  BY <1>3 DEF Picks
<1> DEFINE Is(k) ==
             /\ picked[k] \in Seq(S)
             /\ \A j \in 1..Len(picked[k]) : \E i \in positions : picked[k][j] = answer[i]
             /\ \A i \in positions : i <= k =>
                  \E j \in 1..Len(picked[k]) : picked[k][j] = answer[i]
           good == {k \in 0..n : Is(k)}
<1>5. 0 \in good
  <2>1. picked[0] = <<>>
    BY <1>1, <1>4
  <2>2. \A i \in positions : ~(i <= 0)
    OBVIOUS
  <2>3. picked[0] \in Seq(S) /\ Len(picked[0]) = 0
    BY <2>1
  <2>4. 0 \in 0..n /\ \A j \in 1..0 : FALSE
    BY <1>1
  <2> QED BY <2>2, <2>3, <2>4
<1>6. ASSUME NEW k \in 0..n - 1, k \in good
      PROVE  k + 1 \in good
  <2>1. k + 1 \in 1..n /\ k + 1 \in 0..n /\ answer[k + 1] \in S
    BY <1>1
  <2>2. Is(k)
    BY <1>6
  <2>3. CASE k + 1 \in positions
    <3>1. picked[k + 1] = Append(picked[k], answer[k + 1])
      <4>1. (k + 1) - 1 = k /\ k + 1 # 0
        OBVIOUS
      <4> QED BY <1>4, <2>1, <2>3, <4>1
    <3> DEFINE old == picked[k]
               new == picked[k + 1]
    <3>2. old \in Seq(S)
      BY <2>2
    <3> HIDE DEF old
    <3>3. /\ new \in Seq(S) /\ Len(new) = Len(old) + 1 /\ Len(old) \in Nat
          /\ new[Len(old) + 1] = answer[k + 1]
          /\ \A j \in 1..Len(old) : new[j] = old[j]
      BY <2>1, <3>1, <3>2 DEF old
    <3> HIDE DEF new
    <3>4. \A j \in 1..Len(old) : \E i \in positions : old[j] = answer[i]
      BY <2>2 DEF old
    <3>5. \A i \in positions : i <= k => \E j \in 1..Len(old) : old[j] = answer[i]
      BY <2>2 DEF old
    <3>6. \A j \in 1..Len(new) : \E i \in positions : new[j] = answer[i]
      BY <2>3, <3>3, <3>4
    <3>7. \A i \in positions : i <= k + 1 => \E j \in 1..Len(new) : new[j] = answer[i]
      <4> TAKE i \in positions
      <4>1. CASE i = k + 1
        BY <3>3, <4>1
      <4>2. CASE i <= k
        BY <3>3, <3>5, <4>2
      <4>3. i \in Int /\ k \in Int
        OBVIOUS
      <4> QED BY <4>1, <4>2, <4>3
    <3>8. Is(k + 1)
      BY <3>3, <3>6, <3>7 DEF new
    <3> QED BY <2>1, <3>8
  <2>4. CASE k + 1 \notin positions
    <3>1. picked[k + 1] = picked[k]
      BY <1>4, <2>1, <2>4
    <3>2. \A i \in positions : i <= k + 1 => i <= k
      BY <2>4
    <3>3. Is(k + 1)
      BY <2>2, <3>1, <3>2
    <3> QED BY <2>1, <3>3
  <2> QED BY <2>3, <2>4
<1>7. n \in good
  <2> HIDE DEF good
  <2> QED BY <1>1, <1>5, <1>6, Counting
<1>8. Is(n) /\ \A i \in positions : i <= n
  BY <1>7
<1> QED BY <1>2, <1>8

\* A tag of an answer is one its parser looks for, and all but words carry text.
LEMMA TagTyped ==
  ASSUME NEW tags, NEW t \in Tags(tags)
  PROVE  t.tag \in tags /\ (t.tag \notin WordTags => t.text \in Texts)
BY DEF Tags

\* A cut text is no longer than its limit, and no wider than it was.
LEMMA TruncatedIs ==
  ASSUME NEW text \in Texts, NEW limit \in Nat
  PROVE  /\ Truncated(text, limit) \in Texts
         /\ Truncated(text, limit).len <= limit
         /\ Truncated(text, limit).len <= text.len
         /\ Truncated(text, limit).wide = text.wide
BY DEF Texts, Truncated

\* What the answers of a node are made of.
LEMMA AnswerTyped ==
  ASSUME NEW node \in Asking, NEW answer \in Replies[node]
  PROVE  /\ answer \in Seq(Tags(TagsOf[node]))
         /\ \A i \in 1..Len(answer) : answer[i].tag \in TagsOf[node]
         /\ \A tag : Where(answer, tag) \subseteq 1..Len(answer)
<1>1. answer \in Seq(Tags(TagsOf[node]))
  BY AnswersAssumption
<1>2. DOMAIN answer = 1..Len(answer) /\ \A i \in 1..Len(answer) : answer[i] \in Tags(TagsOf[node])
  BY <1>1
<1> QED BY <1>1, <1>2, TagTyped DEF Where

\* Every text in an answer is one, and short and plain where the answer is.
LEMMA TextsOfAnswer ==
  ASSUME NEW tags, NEW answer \in Seq(Tags(tags)),
         NEW tag, tag \notin WordTags, NEW i \in Where(answer, tag)
  PROVE  /\ answer[i].text \in Texts
         /\ PlainAnswer(answer) =>
              answer[i].text.wide = FALSE /\ answer[i].text.len <= PLAIN_CHARS
<1>1. i \in DOMAIN answer /\ answer[i].tag = tag
  BY DEF Where
<1>2. answer[i] \in Tags(tags)
  BY <1>1
<1>3. answer[i].text \in Texts
  BY <1>1, <1>2, TagTyped
<1>4. ASSUME PlainAnswer(answer)
      PROVE  answer[i].text.wide = FALSE /\ answer[i].text.len <= PLAIN_CHARS
  <2>1. ~answer[i].text.wide /\ answer[i].text.len <= PLAIN_CHARS
    BY <1>1, <1>4 DEF PlainAnswer
  <2>2. answer[i].text.wide \in BOOLEAN
    BY <1>3 DEF Texts
  <2> QED BY <2>1, <2>2
<1> QED BY <1>3, <1>4

\* The tags of one kind, in order, are tags of the answer.
LEMMA TaggedAre ==
  ASSUME NEW tags, NEW answer \in Seq(Tags(tags)), NEW tag
  PROVE  /\ Tagged(answer, tag) \in Seq(Tags(tags))
         /\ \A j \in 1..Len(Tagged(answer, tag)) :
              \E i \in Where(answer, tag) : Tagged(answer, tag)[j] = answer[i]
         /\ \A i \in Where(answer, tag) :
              \E j \in 1..Len(Tagged(answer, tag)) : Tagged(answer, tag)[j] = answer[i]
<1>1. Where(answer, tag) \in SUBSET (1..Len(answer))
  BY DEF Where
<1> QED BY <1>1, PickedAreThere DEF Tagged

\* The first tag of a kind is one of them.
LEMMA FirstIs ==
  ASSUME NEW tags, NEW answer \in Seq(Tags(tags)),
         NEW tag, tag \notin WordTags, Has(answer, tag)
  PROVE  /\ First(answer, tag).text \in Texts
         /\ PlainAnswer(answer) =>
              /\ First(answer, tag).text.wide = FALSE
              /\ First(answer, tag).text.len <= PLAIN_CHARS
<1> DEFINE found == Tagged(answer, tag)
<1>1. PICK i \in Where(answer, tag) : TRUE
  BY DEF Has
<1>2. found \in Seq(Tags(tags)) /\ \E j \in 1..Len(found) : found[j] = answer[i]
  BY TaggedAre
<1>3. \A j \in 1..Len(found) : \E k \in Where(answer, tag) : found[j] = answer[k]
  BY TaggedAre
<1> HIDE DEF found
<1>4. 1 \in 1..Len(found) /\ Head(found) = found[1]
  BY <1>2
<1>5. PICK k \in Where(answer, tag) : Head(found) = answer[k]
  BY <1>3, <1>4
<1>6. First(answer, tag) = answer[k]
  BY <1>5 DEF First, found
<1> QED BY <1>6, TextsOfAnswer

(* parse_odysseus_output: a task's description is within PlanTask's limit. *)
LEMMA UsableTasksAre ==
  ASSUME NEW tags, NEW answer \in Seq(Tags(tags))
  PROVE  /\ UsableTasks(answer) \in Seq(Texts)
         /\ \A i \in 1..Len(UsableTasks(answer)) :
              /\ UsableTasks(answer)[i].len <= MAX_TASK_DESCRIPTION
              /\ PlainAnswer(answer) => UsableTasks(answer)[i].wide = FALSE
<1> DEFINE where == {i \in Where(answer, "task") : ~Blank(answer[i].text)}
           blocks == Picked(answer, where)
           tasks == [i \in DOMAIN blocks |-> Truncated(blocks[i].text, MAX_TASK_DESCRIPTION)]
<1>1. where \in SUBSET (1..Len(answer)) /\ where \subseteq Where(answer, "task")
  BY DEF Where
<1> HIDE DEF where
<1>2. /\ blocks \in Seq(Tags(tags))
      /\ \A j \in 1..Len(blocks) : \E i \in where : blocks[j] = answer[i]
  BY <1>1, PickedAreThere
<1>3. UsableTasks(answer) = tasks
  BY DEF UsableTasks, where
<1> HIDE DEF blocks
<1>4. "task" \notin WordTags /\ MAX_TASK_DESCRIPTION \in Nat
  BY DEF WordTags, MAX_TASK_DESCRIPTION
<1>5. ASSUME NEW j \in 1..Len(blocks)
      PROVE  /\ tasks[j] \in Texts /\ tasks[j].len <= MAX_TASK_DESCRIPTION
             /\ PlainAnswer(answer) => tasks[j].wide = FALSE
  <2>1. PICK i \in where : blocks[j] = answer[i]
    BY <1>2
  <2>2. /\ blocks[j].text \in Texts
        /\ PlainAnswer(answer) => blocks[j].text.wide = FALSE
    BY <1>1, <1>4, <2>1, TextsOfAnswer
  <2>3. tasks[j] = Truncated(blocks[j].text, MAX_TASK_DESCRIPTION)
    BY <1>2
  <2> HIDE DEF tasks
  <2> QED BY <1>4, <2>2, <2>3, TruncatedIs
<1>6. DOMAIN tasks = 1..Len(blocks) /\ Len(blocks) \in Nat
  BY <1>2
<1>7. tasks \in Seq(Texts) /\ Len(tasks) = Len(blocks)
  <2>1. tasks = [j \in 1..Len(blocks) |-> tasks[j]]
    BY <1>6
  <2> HIDE DEF tasks
  <2> DEFINE n == Len(blocks)
  <2>2. n \in Nat /\ tasks \in [1..n -> Texts]
    BY <1>5, <1>6, <2>1
  <2> HIDE DEF n
  <2>3. tasks \in Seq(Texts) /\ Len(tasks) = n
    BY <2>2
  <2> QED BY <2>3 DEF n
<1> QED BY <1>3, <1>5, <1>7

-----------------------------------------------------------------------------
(* What fits in a field.                                                   *)

(* _enforce_field_size: handles that do not fit are too many with summaries *)
(* and paths as long as the longest.                                       *)
LEMMA HandlesThatFit ==
  ASSUME NEW handles, IsFiniteSet(DOMAIN handles),
         \A path \in DOMAIN handles : /\ handles[path] \in Texts
                                      /\ handles[path].len <= MAX_SUMMARY_CHARS
                                      /\ handles[path].wide = FALSE,
         ~HandlesFit(handles)
  PROVE  TooMany(Cardinality(DOMAIN handles), LONGEST_HANDLE)
<1> DEFINE paths == DOMAIN handles
           size == [path \in paths |->
                      1 + HANDLE_BYTES + DirBytes + 1 + RelBytes + Bytes(handles[path])]
           most == 1 + LONGEST_HANDLE
<1>1. most \in Nat /\ \A path \in paths : size[path] \in Nat /\ size[path] <= most
  <2>1. DirBytes \in Nat /\ RelBytes \in Nat
    BY AnswersAssumption
  <2>2. most = 323 + DirBytes + RelBytes
    BY <2>1 DEF LONGEST_HANDLE, HANDLE_BYTES, MAX_SUMMARY_CHARS
  <2>3. ASSUME NEW path \in paths
        PROVE  size[path] \in Nat /\ size[path] <= most
    <3>1. handles[path].len \in Nat /\ handles[path].len <= 200 /\ handles[path].wide = FALSE
      BY DEF Texts, MAX_SUMMARY_CHARS
    <3>2. Bytes(handles[path]) = handles[path].len
      BY <3>1 DEF Bytes
    <3>3. size[path] = 123 + DirBytes + RelBytes + handles[path].len
      BY <2>1, <3>1, <3>2 DEF HANDLE_BYTES
    <3> QED BY <2>1, <2>2, <3>1, <3>3
  <2> QED BY <2>1, <2>2, <2>3
<1>2. HandlesFit(handles) <=> Fits(1 + SumFunctionOnSet(size, paths))
  BY DEF HandlesFit, SumFunction
<1>3. Cardinality(paths) \in Nat
  BY FS_CardinalityType
<1> HIDE DEF size
<1>4. SumFunctionOnSet(size, paths) <= Cardinality(paths) * most
  <2> HIDE DEF most
  <2> QED BY <1>1, SumIsWithin
<1>5. SumFunctionOnSet(size, paths) \in Nat
  BY <1>1, SumIsNat
<1> DEFINE all == Cardinality(paths) * most
<1>6. all \in Nat
  <2> HIDE DEF most
  <2> QED BY <1>1, <1>3
<1>7. TooMany(Cardinality(paths), LONGEST_HANDLE) <=> ~Fits(1 + all)
  BY DEF TooMany
<1> HIDE DEF paths, all, most
<1>8. SumFunctionOnSet(size, paths) <= all
  BY <1>4 DEF all
<1>9. ~Fits(1 + all)
  BY <1>2, <1>5, <1>6, <1>8 DEF Fits, MAX_FIELD_BYTES
<1> QED BY <1>7, <1>9 DEF paths

(* So are checkpoints, with messages as long as the longest.               *)
LEMMA CheckpointsThatFit ==
  ASSUME NEW messages \in Seq(Texts),
         \A i \in 1..Len(messages) :
           /\ messages[i].len <= MAX_MESSAGE_CHARS - MESSAGE_PREFIX
           /\ messages[i].wide = FALSE,
         ~CheckpointsFit(messages)
  PROVE  TooMany(Len(messages), LONGEST_CHECKPOINT)
<1> DEFINE n == Len(messages)
           size == [i \in 1..n |-> 1 + COMMIT_BYTES + MESSAGE_PREFIX + Bytes(messages[i])]
<1>1. n \in Nat /\ DOMAIN messages = 1..n
  OBVIOUS
<1>2. \A i \in 1..n : size[i] \in Nat /\ size[i] <= 312
  <2> TAKE i \in 1..n
  <2>1. messages[i] \in Texts
    OBVIOUS
  <2>2. messages[i].len \in Nat /\ messages[i].len <= 185 /\ messages[i].wide = FALSE
    BY <2>1 DEF Texts, MAX_MESSAGE_CHARS, MESSAGE_PREFIX
  <2>3. Bytes(messages[i]) = messages[i].len
    BY <2>2 DEF Bytes
  <2> QED BY <2>2, <2>3 DEF COMMIT_BYTES, MESSAGE_PREFIX
<1>3. CheckpointsFit(messages) <=> Fits(1 + SumFunctionOnSet(size, 1..n))
  BY <1>1 DEF CheckpointsFit, SumFunction
<1> HIDE DEF size, n
<1>4. IsFiniteSet(1..n) /\ Cardinality(1..n) = n
  <2>1. 1 \in Int /\ n \in Int
    BY <1>1
  <2>2. IsFiniteSet(1..n) /\ Cardinality(1..n) = IF 1 > n THEN 0 ELSE n - 1 + 1
    BY <2>1, FS_Interval
  <2> QED BY <1>1, <2>2
<1>5. SumFunctionOnSet(size, 1..n) <= Cardinality(1..n) * 312
  <2> DEFINE all == 1..n
  <2>1. IsFiniteSet(all) /\ 312 \in Nat
    BY <1>4
  <2>2. \A i \in all : size[i] \in Nat /\ size[i] <= 312
    BY <1>2
  <2> HIDE DEF all
  <2>3. SumFunctionOnSet(size, all) <= Cardinality(all) * 312
    BY <2>1, <2>2, SumIsWithin
  <2> QED BY <2>3 DEF all
<1>6. SumFunctionOnSet(size, 1..n) \in Nat
  BY <1>2, <1>4, SumIsNat
<1>7. ~Fits(1 + n * 312)
  BY <1>1, <1>3, <1>4, <1>5, <1>6 DEF Fits, MAX_FIELD_BYTES
<1>8. 1 + LONGEST_CHECKPOINT = 312
  BY DEF LONGEST_CHECKPOINT, COMMIT_BYTES, MAX_MESSAGE_CHARS
<1> QED BY <1>7, <1>8 DEF TooMany, n

(* So are test files, however short their names.                           *)
LEMMA TestsThatFit ==
  ASSUME NEW tests, ~TestsFit(tests)
  PROVE  TooMany(Cardinality(tests), 2 + RelBytes)
<1>1. 1 + (2 + RelBytes) = 3 + RelBytes
  BY AnswersAssumption
<1> QED BY <1>1 DEF TestsFit, TestsBytes, TooMany

(* And a report is no longer than with a failure as long as the longest.   *)
LEMMA ReportsThatFit ==
  ASSUME NEW failure \in Texts, failure.len <= MAX_FIRST_FAILURE, failure.wide = FALSE,
         NEW tests, Len(tests) \in Nat, ~EvalFits(failure, tests)
  PROVE  ~Fits(EvalBytes(LONGEST_FAILURE, Len(tests)))
<1> DEFINE listed == TestsBytes(Len(tests))
<1>1. listed \in Nat /\ DirBytes \in Nat /\ CommandBytes \in Nat
  BY AnswersAssumption DEF TestsBytes
<1>2. /\ Bytes(failure) = failure.len /\ failure.len \in Nat
      /\ Bytes(LONGEST_FAILURE) = 500 /\ failure.len <= 500
  BY DEF Bytes, Texts, LONGEST_FAILURE, MAX_FIRST_FAILURE, Text
<1>3. \A text : EvalBytes(text, Len(tests)) =
        EVAL_BYTES + CommandBytes + Bytes(text) + HANDLE_BYTES + DirBytes + LOG_BYTES + listed
  BY DEF EvalBytes
<1> HIDE DEF listed
<1> DEFINE frame == 313 + CommandBytes + DirBytes + listed
<1>4. EvalBytes(failure, Len(tests)) = frame + failure.len
  BY <1>1, <1>2, <1>3 DEF EVAL_BYTES, HANDLE_BYTES, LOG_BYTES
<1>5. EvalBytes(LONGEST_FAILURE, Len(tests)) = frame + 500
  BY <1>1, <1>2, <1>3 DEF EVAL_BYTES, HANDLE_BYTES, LOG_BYTES
<1>6. frame \in Nat
  BY <1>1
<1> HIDE DEF frame
<1> QED BY <1>2, <1>4, <1>5, <1>6 DEF EvalFits, Fits, MAX_FIELD_BYTES

\* A set of positions has a last one.
LEMMA LastExists ==
  ASSUME NEW n \in Nat, NEW S \in SUBSET (1..n), S # {}
  PROVE  \E i \in S : \A j \in S : j <= i
<1> DEFINE HasLast(T) == T # {} => \E i \in T : \A j \in T : j <= i
           good == {k \in 0..n : \A T \in SUBSET (1..k) : HasLast(T)}
<1>1. 0 \in good
  <2>1. \A T \in SUBSET (1..0) : T = {}
    OBVIOUS
  <2>2. 0 \in 0..n
    OBVIOUS
  <2> QED BY <2>1, <2>2
<1>2. ASSUME NEW k \in 0..n - 1, k \in good
      PROVE  k + 1 \in good
  <2>1. ASSUME NEW T \in SUBSET (1..k + 1)
        PROVE  HasLast(T)
    <3>1. CASE k + 1 \in T
      <4>1. \A j \in T : j <= k + 1
        OBVIOUS
      <4> QED BY <3>1, <4>1
    <3>2. CASE k + 1 \notin T
      <4>1. T \in SUBSET (1..k)
        BY <3>2
      <4> QED BY <1>2, <4>1
    <3> QED BY <3>1, <3>2
  <2> HIDE DEF HasLast
  <2> QED BY <2>1
<1>3. n \in good
  <2> HIDE DEF good
  <2> QED BY <1>1, <1>2, Counting
<1> QED BY <1>3

-----------------------------------------------------------------------------
(* What the nodes make of an answer.                                       *)

\* What every step out of a node must keep.
Kept == Held /\ Flow /\ Raised

\* Texts that stay stay within their limits, whatever the answer was.
LEMMA HeldStays ==
  ASSUME Held, UNCHANGED <<plan, context_handles, touched, checkpoints>>, plain' => plain
  PROVE  Held'
BY DEF Held, Within

\* A step that only moves on keeps all, where the task it moves to is there.
LEMMA MovesOn ==
  ASSUME Held, Flow, UNCHANGED <<plan, task_cursor, context_handles, touched, checkpoints>>,
         plain' => plain, raised_by' = None, pc' \in Steps,
         pc' \in {"argus_research", "daedalus", "chiron", "talos"} => task_cursor < Len(plan),
         pc' = "odysseus" => Replanning'
  PROVE  Kept'
<1>1. Held'
  BY HeldStays
<1>2. Flow'
  BY DEF Flow
<1>3. Raised'
  BY DEF Raised, ShortAnswersRaiseOnlyByNumber
<1> QED BY <1>1, <1>2, <1>3 DEF Kept

\* A step that raises keeps all, where the value it raises for may not fit.
LEMMA Raises ==
  ASSUME Held, Flow, NEW value, Raise(value), plain' => plain,
         ShortAnswersRaiseOnlyByNumber'
  PROVE  Kept'
<1>1. /\ pc' = "raised"
      /\ UNCHANGED <<plan, task_cursor, context_handles, touched, checkpoints>>
  BY DEF Raise, stateVars, testVars
<1>2. Held'
  BY <1>1, HeldStays
<1>3. Flow'
  BY <1>1 DEF Flow, Steps
<1>4. Raised'
  BY <1>1 DEF Raised
<1> QED BY <1>2, <1>3, <1>4 DEF Kept

\* A short plain reason fits.
LEMMA HaltKeeps ==
  ASSUME Held, Flow, NEW reason, Halt(reason), reason \in Texts, plain' => plain,
         plain' => reason.wide = FALSE /\ reason.len <= PLAIN_CHARS
  PROVE  Kept'
<1>1. CASE HaltFits(reason)
  <2>1. /\ pc' = "cerberus" /\ raised_by' = None
        /\ UNCHANGED <<plan, task_cursor, context_handles, touched, checkpoints>>
    BY <1>1 DEF Halt, Goto, testVars
  <2> QED BY <2>1, MovesOn DEF Steps, Asking
<1>2. CASE ~HaltFits(reason)
  <2>1. Raise("halt_reason")
    BY <1>2 DEF Halt
  <2>2. ~plain'
    <3>1. reason.len \in Nat
      BY DEF Texts
    <3> QED BY <1>2, <3>1 DEF HaltFits, Fits, Bytes, MAX_FIELD_BYTES, HALT_PREFIX, PLAIN_CHARS
  <2>3. ShortAnswersRaiseOnlyByNumber'
    BY <2>2 DEF ShortAnswersRaiseOnlyByNumber
  <2> QED BY <2>1, <2>3, Raises
<1> QED BY <1>1, <1>2

\* The harness's own reasons are short.
LEMMA ShortIs ==
  /\ Short \in Texts /\ Short.wide = FALSE /\ Short.len <= PLAIN_CHARS
  /\ NoTags \in Texts /\ NoTags.wide = FALSE /\ NoTags.len <= PLAIN_CHARS
BY DEF Short, NoTags, Text, Texts, PLAIN_CHARS

\* The paths in the file tags of an answer.
Paths(answer) == {answer[i].path : i \in Where(answer, "file")}

\* What the history variables make of an answer.
Heard(answer) ==
  /\ plain' => plain /\ PlainAnswer(answer)
  /\ call'.files = Paths(answer)

\* An objection is quoted, files are written.
LEMMA DaedalusKeeps ==
  ASSUME Held, Flow, pc = "daedalus", NEW answer \in Replies["daedalus"], Heard(answer),
         DaedalusActs(ParseDaedalus(answer))
  PROVE  Kept'
<1> DEFINE output == ParseDaedalus(answer)
<1>1. answer \in Seq(Tags(TagsOf["daedalus"]))
  BY AnswerTyped DEF Asking
<1>2. CASE output.objection # None
  <2>1. Halt(output.objection)
    BY <1>2 DEF DaedalusActs
  <2>2. output.objection \in Texts /\ (plain' => /\ output.objection.wide = FALSE
                                                 /\ output.objection.len <= PLAIN_CHARS)
    <3>1. CASE Has(answer, "objection")
      <4>1. output.objection = First(answer, "objection").text
        BY <3>1 DEF ParseDaedalus
      <4>2. "objection" \notin WordTags
        BY DEF WordTags
      <4> HIDE DEF output
      <4> QED BY <1>1, <3>1, <4>1, <4>2, FirstIs DEF Heard
    <3>2. CASE ~Has(answer, "objection")
      <4>1. output.objection = NoTags
        BY <1>2, <3>2 DEF ParseDaedalus
      <4> HIDE DEF output
      <4> QED BY <4>1, ShortIs
    <3> QED BY <3>1, <3>2
  <2> HIDE DEF output
  <2> QED BY <2>1, <2>2, HaltKeeps DEF Heard
<1>3. CASE output.objection = None
  <2> DEFINE files == output.files
             tests == Picked(files, TestBlocks(files))
  <2>0. \/ Halt(Short)
        \/ /\ pc' = "talos" /\ raised_by' = None
           /\ touched' = [i \in DOMAIN tests |-> tests[i].path]
           /\ UNCHANGED <<plan, task_cursor, context_handles, checkpoints>>
    BY <1>3 DEF DaedalusActs, Goto
  <2>1. CASE Halt(Short)
    BY <2>1, ShortIs, HaltKeeps DEF Heard
  <2>2. CASE /\ pc' = "talos" /\ raised_by' = None
             /\ touched' = [i \in DOMAIN tests |-> tests[i].path]
             /\ UNCHANGED <<plan, task_cursor, context_handles, checkpoints>>
    <3>1. files \in Seq(Tags(TagsOf["daedalus"]))
      <4>1. files = <<>> \/ files = Tagged(answer, "file")
        BY DEF ParseDaedalus
      <4>2. <<>> \in Seq(Tags(TagsOf["daedalus"]))
        OBVIOUS
      <4>3. Tagged(answer, "file") \in Seq(Tags(TagsOf["daedalus"]))
        BY <1>1, TaggedAre
      <4> HIDE DEF files
      <4> QED BY <4>1, <4>2, <4>3
    <3> HIDE DEF files
    <3>2. tests \in Seq(Tags(TagsOf["daedalus"]))
      BY <3>1, PickedAreThere DEF TestBlocks
    <3> HIDE DEF tests
    <3>3. Len(touched') \in Nat
      <4> DEFINE n == Len(tests)
                 names == {tests[i].path : i \in 1..n}
                 list == [i \in 1..n |-> tests[i].path]
      <4>1. n \in Nat /\ DOMAIN tests = 1..n
        BY <3>2
      <4>2. touched' = list
        BY <2>2, <4>1
      <4>3. list \in [1..n -> names]
        OBVIOUS
      <4> HIDE DEF n, names, list
      <4>4. list \in Seq(names)
        BY <4>1, <4>3
      <4> QED BY <4>2, <4>4
    <3>4. Held'
      BY <2>2, <3>3 DEF Held, Within, Heard
    <3>5. Flow'
      BY <2>2 DEF Flow, Steps
    <3>6. Raised'
      BY <2>2 DEF Raised, ShortAnswersRaiseOnlyByNumber
    <3> QED BY <3>4, <3>5, <3>6 DEF Kept
  <2> QED BY <2>0, <2>1, <2>2
<1> QED BY <1>2, <1>3

\* A patch is written or not, and Talos evaluates in either case.
LEMMA ChironKeeps ==
  ASSUME Held, Flow, pc = "chiron", NEW answer, Heard(answer),
         NEW output, ChironActs(output)
  PROVE  Kept'
<1>1. task_cursor < Len(plan)
  BY DEF Flow
<1>2. CASE Halt(Short)
  BY <1>2, ShortIs, HaltKeeps DEF Heard
<1>3. CASE Goto("talos") /\ UNCHANGED <<stateVars, purpose>>
  <2>1. /\ pc' = "talos" /\ raised_by' = None
        /\ UNCHANGED <<plan, task_cursor, context_handles, touched, checkpoints>>
    BY <1>3 DEF Goto, stateVars, testVars
  <2> QED BY <1>1, <2>1, MovesOn DEF Steps, Heard
<1> QED BY <1>2, <1>3 DEF ChironActs

\* A plan keeps what is completed and has at least one task more.
LEMMA OdysseusKeeps ==
  ASSUME Held, Flow, pc = "odysseus", NEW answer \in Replies["odysseus"], Heard(answer),
         OdysseusActs(ParseOdysseus(answer))
  PROVE  Kept'
<1> DEFINE output == ParseOdysseus(answer)
           tasks == UsableTasks(answer)
<1>1. answer \in Seq(Tags(TagsOf["odysseus"]))
  BY AnswerTyped DEF Asking
<1>2. CASE output.objection # None
  <2>1. Halt(output.objection)
    BY <1>2 DEF OdysseusActs
  <2>2. output.objection \in Texts /\ (plain' => /\ output.objection.wide = FALSE
                                                 /\ output.objection.len <= PLAIN_CHARS)
    <3>1. CASE Has(answer, "objection")
      <4>1. output.objection = First(answer, "objection").text
        BY <3>1 DEF ParseOdysseus
      <4>2. "objection" \notin WordTags
        BY DEF WordTags
      <4> HIDE DEF output
      <4> QED BY <1>1, <3>1, <4>1, <4>2, FirstIs DEF Heard
    <3>2. CASE ~Has(answer, "objection")
      <4>1. output.objection = NoTags
        BY <1>2, <3>2 DEF ParseOdysseus
      <4> HIDE DEF output
      <4> QED BY <4>1, ShortIs
    <3> QED BY <3>1, <3>2
  <2> HIDE DEF output
  <2> QED BY <2>1, <2>2, HaltKeeps DEF Heard
<1>3. CASE output.objection = None
  <2>1. output.tasks = tasks /\ tasks # <<>>
    <3>1. CASE Has(answer, "objection")
      <4>1. output.objection = First(answer, "objection").text
        BY <3>1 DEF ParseOdysseus
      <4>2. "objection" \notin WordTags
        BY DEF WordTags
      <4>3. First(answer, "objection").text \in Texts
        BY <1>1, <3>1, <4>2, FirstIs
      <4> HIDE DEF output
      <4> QED BY <1>3, <4>1, <4>3, AnswersAssumption
    <3>2. CASE ~Has(answer, "objection") /\ tasks = <<>>
      <4>1. output.objection = NoTags
        BY <3>2 DEF ParseOdysseus
      <4> HIDE DEF output
      <4> QED BY <1>3, <4>1, ShortIs, AnswersAssumption
    <3>3. CASE ~Has(answer, "objection") /\ tasks # <<>>
      BY <3>3 DEF ParseOdysseus
    <3> QED BY <3>1, <3>2, <3>3
  <2>2. /\ tasks \in Seq(Texts)
        /\ \A i \in 1..Len(tasks) : /\ tasks[i].len <= MAX_TASK_DESCRIPTION
                                    /\ PlainAnswer(answer) => tasks[i].wide = FALSE
    BY <1>1, UsableTasksAre
  <2> DEFINE kept == IF Replanning THEN SubSeq(plan, 1, task_cursor) ELSE <<>>
  <2>3. /\ plan' = kept \o tasks
        /\ pc' = "argus_research" /\ raised_by' = None
        /\ UNCHANGED <<task_cursor, context_handles, touched, checkpoints>>
    BY <1>3, <2>1 DEF OdysseusActs, Goto, testVars
  <2> HIDE DEF output, tasks
  <2>4. /\ kept \in Seq(Texts) /\ Len(kept) = task_cursor
        /\ \A i \in 1..Len(kept) : kept[i] = plan[i] /\ i \in 1..Len(plan)
    <3>1. plan \in Seq(Texts) /\ task_cursor \in 0..Len(plan)
      BY DEF Held, Flow
    <3>2. CASE Replanning
      <4>1. kept = SubSeq(plan, 1, task_cursor)
        BY <3>2
      <4> QED BY <3>1, <4>1
    <3>3. CASE ~Replanning
      <4>1. kept = <<>> /\ task_cursor = 0
        BY <3>3 DEF Flow
      <4>2. \A i \in 1..0 : FALSE
        OBVIOUS
      <4> HIDE DEF kept
      <4> QED BY <4>1, <4>2
    <3> QED BY <3>2, <3>3
  <2> HIDE DEF kept
  <2>5. Len(tasks) \in Nat /\ Len(tasks) > 0 /\ Len(kept) \in Nat
    BY <2>1, <2>2, <2>4
  <2>6. /\ plan' \in Seq(Texts) /\ Len(plan') = Len(kept) + Len(tasks)
        /\ \A i \in 1..Len(kept) : plan'[i] = kept[i]
        /\ \A i \in Len(kept) + 1..Len(plan') :
             plan'[i] = tasks[i - Len(kept)] /\ i - Len(kept) \in 1..Len(tasks)
    <3> DEFINE joined == kept \o tasks
    <3>0. kept \in Seq(Texts) /\ tasks \in Seq(Texts)
      BY <2>2, <2>4
    <3>1. plan' \in Seq(Texts) /\ Len(plan') = Len(kept) + Len(tasks)
      <4>1. joined \in Seq(Texts) /\ Len(joined) = Len(kept) + Len(tasks)
        BY <3>0
      <4> HIDE DEF joined
      <4>2. plan' = joined
        BY <2>3 DEF joined
      <4> QED BY <4>1, <4>2
    <3>2. \A i \in 1..Len(kept) : plan'[i] = kept[i]
      BY <2>2, <2>3, <2>4, <2>5
    <3>3. ASSUME NEW i \in Len(kept) + 1..Len(plan')
          PROVE  plan'[i] = tasks[i - Len(kept)] /\ i - Len(kept) \in 1..Len(tasks)
      <4>1. i \in 1..Len(kept) + Len(tasks) /\ ~(i <= Len(kept))
        BY <2>5, <3>1
      <4> QED BY <2>2, <2>3, <2>4, <2>5, <4>1
    <3> QED BY <3>1, <3>2, <3>3
  <2>7. \A i \in 1..Len(plan') : Within(plan'[i], MAX_TASK_DESCRIPTION, plain')
    <3>1. ASSUME NEW i \in 1..Len(kept)
          PROVE  Within(plan'[i], MAX_TASK_DESCRIPTION, plain')
      BY <2>4, <2>6 DEF Held, Within, Heard
    <3>2. ASSUME NEW i \in Len(kept) + 1..Len(plan')
          PROVE  Within(plan'[i], MAX_TASK_DESCRIPTION, plain')
      BY <2>2, <2>6 DEF Within, Heard
    <3>3. \A i \in 1..Len(plan') : i \in 1..Len(kept) \/ i \in Len(kept) + 1..Len(plan')
      BY <2>5, <2>6
    <3> QED BY <3>1, <3>2, <3>3
  <2>8. Held'
    BY <2>3, <2>6, <2>7 DEF Held, Within, Heard
  <2>9. Flow'
    BY <2>3, <2>4, <2>5, <2>6 DEF Flow, Steps, Asking
  <2>10. Raised'
    BY <2>3 DEF Raised, ShortAnswersRaiseOnlyByNumber
  <2> QED BY <2>8, <2>9, <2>10 DEF Kept
<1> QED BY <1>2, <1>3

\* The handles of the files an answer names, with their reasons cut.
LEMMA ArgusKeeps ==
  ASSUME Held, Flow, pc = "argus_research", NEW answer \in Replies["argus_research"],
         Heard(answer), ArgusActs(ParseArgus(answer))
  PROVE  Kept'
<1> DEFINE files == ParseArgus(answer).files
           found == Found(files)
           named == {files[i].path : i \in found}
           last(path) == CHOOSE i \in found :
                           /\ files[i].path = path
                           /\ \A j \in found : files[j].path = path => j <= i
           handles == [path \in DOMAIN context_handles \cup named |->
                         IF path \in named
                         THEN Truncated(files[last(path)].text, MAX_SUMMARY_CHARS)
                         ELSE context_handles[path]]
<1>1. answer \in Seq(Tags(TagsOf["argus_research"]))
  BY AnswerTyped DEF Asking
<1>2. task_cursor < Len(plan)
  BY DEF Flow
<1>3. \/ /\ HandlesFit(handles)
         /\ context_handles' = handles
         /\ pc' \in {"chiron", "daedalus"} /\ raised_by' = None
         /\ UNCHANGED <<plan, task_cursor, touched, checkpoints>>
      \/ /\ ~HandlesFit(handles)
         /\ Raise("context_handles")
  BY DEF ArgusActs, Goto, testVars
<1>4. /\ files \in Seq(Tags(TagsOf["argus_research"]))
      /\ \A j \in 1..Len(files) : \E i \in Where(answer, "file") : files[j] = answer[i]
      /\ \A i \in Where(answer, "file") : \E j \in 1..Len(files) : files[j] = answer[i]
  <2>1. files = Tagged(answer, "file")
    BY DEF ParseArgus
  <2> DEFINE kinds == TagsOf["argus_research"]
             picked == Tagged(answer, "file")
  <2>2. answer \in Seq(Tags(kinds))
    BY <1>1
  <2> HIDE DEF files, kinds
  <2>3. picked \in Seq(Tags(kinds))
    BY <2>2, TaggedAre
  <2>4. \A j \in 1..Len(picked) : \E i \in Where(answer, "file") : picked[j] = answer[i]
    BY <2>2, TaggedAre
  <2>5. \A i \in Where(answer, "file") : \E j \in 1..Len(picked) : picked[j] = answer[i]
    BY <2>2, TaggedAre
  <2> HIDE DEF picked
  <2>6. files = picked
    BY <2>1 DEF picked
  <2> QED BY <2>3, <2>4, <2>5, <2>6 DEF kinds
<1>5. found \in SUBSET (1..Len(files)) /\ Len(files) \in Nat
  BY <1>4 DEF Found
<1>6. named = Paths(answer) \cap RepoFiles
  <2>1. \A j \in 1..Len(files) : j \in found <=> files[j].path \in RepoFiles
    BY <1>4 DEF Found
  <2>2. named = {files[j].path : j \in found}
    OBVIOUS
  <2> HIDE DEF files, found, named
  <2>3. ASSUME NEW path \in named
        PROVE  path \in {answer[i].path : i \in Where(answer, "file")} \cap RepoFiles
    <3>1. PICK j \in found : path = files[j].path
      BY <2>2, <2>3
    <3>2. PICK i \in Where(answer, "file") : files[j] = answer[i]
      BY <1>4, <1>5, <3>1
    <3> QED BY <1>5, <2>1, <3>1, <3>2
  <2>4. ASSUME NEW i \in Where(answer, "file"), answer[i].path \in RepoFiles
        PROVE  answer[i].path \in named
    <3>1. PICK j \in 1..Len(files) : files[j] = answer[i]
      BY <1>4
    <3> QED BY <2>1, <2>2, <2>4, <3>1
  <2> QED BY <2>3, <2>4 DEF Paths
<1>7. IsFiniteSet(named)
  <2>1. IsFiniteSet(found)
    <3>1. IsFiniteSet(1..Len(files))
      BY <1>5, FS_Interval
    <3> HIDE DEF found, files
    <3> QED BY <1>5, <3>1, FS_Subset
  <2> DEFINE path == [i \in found |-> files[i].path]
  <2>2. path \in Surjection(found, named)
    BY DEF Surjection
  <2> HIDE DEF found, files, path, named
  <2> QED BY <2>1, <2>2, FS_Surjection
<1>8. \A path \in named :
        /\ Truncated(files[last(path)].text, MAX_SUMMARY_CHARS) \in Texts
        /\ Truncated(files[last(path)].text, MAX_SUMMARY_CHARS).len <= MAX_SUMMARY_CHARS
        /\ plain' => Truncated(files[last(path)].text, MAX_SUMMARY_CHARS).wide = FALSE
  <2> TAKE path \in named
  <2> DEFINE same == {i \in found : files[i].path = path}
  <2>1. \E i \in same : \A j \in same : j <= i
    <3>1. same \in SUBSET (1..Len(files)) /\ same # {}
      BY <1>5
    <3> HIDE DEF same
    <3> QED BY <1>5, <3>1, LastExists
  <2>2. last(path) \in found
    <3>1. \E i \in found : /\ files[i].path = path
                           /\ \A j \in found : files[j].path = path => j <= i
      BY <2>1
    <3> HIDE DEF found, files
    <3> QED BY <3>1
  <2>3. PICK i \in Where(answer, "file") : files[last(path)] = answer[i]
    <3> HIDE DEF files, last, found
    <3> QED BY <1>4, <1>5, <2>2
  <2>4. "file" \notin WordTags /\ MAX_SUMMARY_CHARS \in Nat
    BY DEF WordTags, MAX_SUMMARY_CHARS
  <2> HIDE DEF files, last, found
  <2>5. /\ answer[i].text \in Texts
        /\ PlainAnswer(answer) => answer[i].text.wide = FALSE
    BY <1>1, <2>4, TextsOfAnswer
  <2> QED BY <2>3, <2>4, <2>5, TruncatedIs DEF Heard
<1> HIDE DEF files, found, named, last
<1>9. /\ DOMAIN handles = DOMAIN context_handles \cup named
      /\ IsFiniteSet(DOMAIN handles)
  <2>1. IsFiniteSet(DOMAIN context_handles \cup named)
    BY <1>7, FS_Union DEF Held
  <2> QED BY <2>1
<1>10. \A path \in DOMAIN handles : /\ handles[path] \in Texts
                                    /\ handles[path].len <= MAX_SUMMARY_CHARS
                                    /\ plain' => handles[path].wide = FALSE
  <2>1. \A path \in DOMAIN context_handles :
          /\ context_handles[path] \in Texts
          /\ context_handles[path].len <= MAX_SUMMARY_CHARS
          /\ plain' => context_handles[path].wide = FALSE
    BY DEF Held, Within, Heard
  <2> QED BY <1>8, <1>9, <2>1
<1> HIDE DEF handles
<1>11. CASE /\ HandlesFit(handles)
            /\ context_handles' = handles
            /\ pc' \in {"chiron", "daedalus"} /\ raised_by' = None
            /\ UNCHANGED <<plan, task_cursor, touched, checkpoints>>
  <2>1. Held'
    BY <1>9, <1>10, <1>11 DEF Held, Within, Heard
  <2>2. Flow'
    BY <1>2, <1>11 DEF Flow, Steps, Asking
  <2>3. Raised'
    BY <1>11 DEF Raised, ShortAnswersRaiseOnlyByNumber
  <2> QED BY <2>1, <2>2, <2>3 DEF Kept
<1>12. CASE ~HandlesFit(handles) /\ Raise("context_handles")
  <2>1. plain' => TooMany(Cardinality(DOMAIN handles), LONGEST_HANDLE)
    <3>1. SUFFICES ASSUME plain' PROVE TooMany(Cardinality(DOMAIN handles), LONGEST_HANDLE)
      OBVIOUS
    <3>2. \A path \in DOMAIN handles : /\ handles[path] \in Texts
                                       /\ handles[path].len <= MAX_SUMMARY_CHARS
                                       /\ handles[path].wide = FALSE
      BY <1>10, <3>1
    <3>3. IsFiniteSet(DOMAIN handles)
      BY <1>9
    <3> QED BY <1>12, <3>2, <3>3, HandlesThatFit
  <2>2. DOMAIN handles = DOMAIN context_handles' \cup (call'.files \cap RepoFiles)
    BY <1>6, <1>9, <1>12 DEF Raise, stateVars, Heard
  <2>3. raised_by' = "context_handles"
    BY <1>12 DEF Raise
  <2>4. ShortAnswersRaiseOnlyByNumber'
    BY <2>1, <2>2, <2>3 DEF ShortAnswersRaiseOnlyByNumber
  <2> QED BY <1>12, <2>4, Raises DEF Heard
<1> QED BY <1>3, <1>11, <1>12

\* A review that ends keeps the plan, and the texts of the state.
LEMMA EndReviewKeeps ==
  ASSUME Held, Flow, plain' => plain, NEW verdict, NEW message, EndReview(verdict, message)
  PROVE  Kept'
<1>1. /\ pc' = "END" /\ raised_by' = None
      /\ UNCHANGED <<plan, task_cursor, context_handles, touched, checkpoints>>
  BY DEF EndReview, Goto, testVars
<1> QED BY <1>1, MovesOn DEF Steps

\* What parse_cerberus_output calls a verdict has the fields it needs.
LEMMA VerdictsAreComplete ==
  ASSUME NEW answer \in Replies["cerberus"]
  PROVE  LET output == ParseCerberus(answer)
         IN  /\ output.verdict = "approve" =>
                  /\ Has(answer, "message")
                  /\ output.message =
                       Truncated(First(answer, "message").text, MAX_COMMIT_MESSAGE)
             /\ output.verdict = "reject_and_return" =>
                  /\ Has(answer, "objections")
                  /\ output.destination \in {"daedalus", "odysseus"}
                  /\ output.objections = First(answer, "objections").text
<1>1. None # "approve" /\ None # "reject_and_return"
  BY AnswersAssumption DEF Verdicts
<1> QED BY <1>1 DEF ParseCerberus

\* A rejection adds a task or asks for a new plan.
LEMMA CerberusKeeps ==
  ASSUME Held, Flow, pc = "cerberus", NEW answer \in Replies["cerberus"], Heard(answer),
         CerberusActs(ParseCerberus(answer))
  PROVE  Kept'
<1> DEFINE output == ParseCerberus(answer)
<1>1. answer \in Seq(Tags(TagsOf["cerberus"]))
  BY AnswerTyped DEF Asking
<1>2. "message" \notin WordTags /\ "objections" \notin WordTags /\ MAX_COMMIT_MESSAGE \in Nat
  BY DEF WordTags, MAX_COMMIT_MESSAGE
<1>3. /\ output.verdict = "approve" =>
           /\ Has(answer, "message")
           /\ output.message = Truncated(First(answer, "message").text, MAX_COMMIT_MESSAGE)
      /\ output.verdict = "reject_and_return" =>
           /\ Has(answer, "objections")
           /\ output.destination \in {"daedalus", "odysseus"}
           /\ output.objections = First(answer, "objections").text
  BY VerdictsAreComplete
<1>4. \/ output.verdict = "approve" /\ Approve(output.message)
      \/ output.verdict = "reject_and_return" /\ Reject(output)
      \/ EscalateReview
  BY DEF CerberusActs
<1> HIDE DEF output
<1>5. CASE EscalateReview
  BY <1>5, EndReviewKeeps DEF EscalateReview, Heard
<1>6. CASE output.verdict = "approve" /\ Approve(output.message)
  <2> DEFINE text == First(answer, "message").text
  <2>1. /\ text \in Texts
        /\ PlainAnswer(answer) => text.wide = FALSE /\ text.len <= PLAIN_CHARS
    BY <1>1, <1>2, <1>3, <1>6, FirstIs
  <2> HIDE DEF text
  <2>2. output.message = Truncated(text, MAX_COMMIT_MESSAGE)
    BY <1>3, <1>6 DEF text
  <2>3. /\ output.message.len <= text.len
        /\ output.message.wide = text.wide
        /\ output.message.len \in Nat /\ text.len \in Nat
    BY <1>2, <2>1, <2>2, TruncatedIs DEF Texts
  <2>4. CASE EndReview("approve", output.message)
    BY <2>4, EndReviewKeeps DEF Heard
  <2>5. CASE ~CommitMessageFits(output.message) /\ Raise("commit_message")
    <3>1. ~plain'
      <4>1. plain' => PlainAnswer(answer)
        BY DEF Heard
      <4> QED BY <2>1, <2>3, <2>5, <4>1
            DEF CommitMessageFits, Fits, Bytes, MAX_FIELD_BYTES, PLAIN_CHARS
    <3>2. ShortAnswersRaiseOnlyByNumber'
      BY <3>1 DEF ShortAnswersRaiseOnlyByNumber
    <3> QED BY <2>5, <3>2, Raises DEF Heard
  <2> QED BY <1>6, <2>4, <2>5 DEF Approve
<1>7. CASE output.verdict = "reject_and_return" /\ Reject(output)
  <2> DEFINE text == output.objections
  <2>1. /\ text \in Texts
        /\ PlainAnswer(answer) => text.wide = FALSE /\ text.len <= PLAIN_CHARS
    BY <1>1, <1>2, <1>3, <1>7, FirstIs
  <2>2. text.len \in Nat /\ task_cursor \in Nat /\ Len(plan) \in Nat
        /\ task_cursor <= Len(plan) /\ plan \in Seq(Texts)
    BY <2>1 DEF Texts, Flow, Held
  <2> HIDE DEF text
  <2>3. CASE text.len > MAX_TASK_DESCRIPTION /\ Raise("plan_task")
    <3>1. ~plain'
      <4>1. plain' => PlainAnswer(answer)
        BY DEF Heard
      <4> QED BY <2>1, <2>2, <2>3, <4>1 DEF MAX_TASK_DESCRIPTION, PLAIN_CHARS
    <3>2. ShortAnswersRaiseOnlyByNumber'
      BY <3>1 DEF ShortAnswersRaiseOnlyByNumber
    <3> QED BY <2>3, <3>2, Raises DEF Heard
  <2>4. CASE EscalateReview
    BY <1>5, <2>4
  <2>5. CASE /\ text.len <= MAX_TASK_DESCRIPTION
             /\ plan' = Append(plan, text) /\ Goto("argus_research")
             /\ UNCHANGED <<task_cursor, context_handles, touched, checkpoints>>
    <3>1. /\ plan' \in Seq(Texts) /\ Len(plan') = Len(plan) + 1
          /\ plan'[Len(plan) + 1] = text
          /\ \A i \in 1..Len(plan) : plan'[i] = plan[i]
      BY <2>1, <2>2, <2>5
    <3>2. \A i \in 1..Len(plan') : Within(plan'[i], MAX_TASK_DESCRIPTION, plain')
      <4>1. \A i \in 1..Len(plan) : Within(plan'[i], MAX_TASK_DESCRIPTION, plain')
        BY <3>1 DEF Held, Within, Heard
      <4>2. Within(plan'[Len(plan) + 1], MAX_TASK_DESCRIPTION, plain')
        BY <2>1, <2>5, <3>1 DEF Within, Heard
      <4> QED BY <2>2, <3>1, <4>1, <4>2
    <3>3. Held'
      BY <2>5, <3>1, <3>2 DEF Held, Within, Heard
    <3>4. Flow'
      BY <2>2, <2>5, <3>1 DEF Flow, Steps, Asking, Goto
    <3>5. Raised'
      BY <2>5 DEF Raised, ShortAnswersRaiseOnlyByNumber, Goto
    <3> QED BY <3>3, <3>4, <3>5 DEF Kept
  <2>6. CASE /\ pc' = "odysseus" /\ raised_by' = None
             /\ review_verdict' = "reject_and_return"
             /\ UNCHANGED <<plan, task_cursor, context_handles, touched, checkpoints>>
    BY <2>6, MovesOn DEF Steps, Asking, Replanning, Heard
  <2>7. MAX_TASK_DESCRIPTION \in Nat
    BY DEF MAX_TASK_DESCRIPTION
  <2> QED BY <1>3, <1>7, <2>2, <2>3, <2>4, <2>5, <2>6, <2>7 DEF Reject, Goto, text, testVars
<1> QED BY <1>4, <1>5, <1>6, <1>7

\* The report of a pass quotes nothing.
LEMMA PlainIs ==
  /\ Text(0, FALSE) \in Texts /\ Text(0, FALSE).len <= MAX_FIRST_FAILURE
  /\ Text(0, FALSE).wide \in BOOLEAN /\ ~Text(0, FALSE).wide
BY DEF Text, Texts, MAX_FIRST_FAILURE

\* A report that does not fit has more test files than fit beside a failure.
LEMMA ReportRaises ==
  ASSUME Held, Flow, plain' => plain, Raise("eval_report"),
         NEW failure \in Texts, failure.len <= MAX_FIRST_FAILURE,
         failure.wide \in BOOLEAN, plain' => ~failure.wide,
         ~EvalFits(failure, touched)
  PROVE  Kept'
<1>1. raised_by' = "eval_report" /\ touched' = touched
  BY DEF Raise, stateVars, testVars
<1>2. plain' => ~Fits(EvalBytes(LONGEST_FAILURE, Len(touched')))
  <2>1. Len(touched) \in Nat
    BY DEF Held
  <2> QED BY <1>1, <2>1, ReportsThatFit
<1>3. ShortAnswersRaiseOnlyByNumber'
  BY <1>1, <1>2 DEF ShortAnswersRaiseOnlyByNumber
<1> QED BY <1>3, Raises

\* A checkpoint's message is cut.
LEMMA TalosPassesKeeps ==
  ASSUME Held, Flow, TalosPasses
  PROVE  Kept'
<1> DEFINE task == plan[task_cursor + 1]
           messages == Append(checkpoints, CheckpointMessage(task))
           limit == MAX_MESSAGE_CHARS - MESSAGE_PREFIX
<1>1. /\ pc = "talos" /\ task_cursor \in Nat /\ Len(plan) \in Nat
      /\ task_cursor < Len(plan) /\ plan \in Seq(Texts) /\ checkpoints \in Seq(Texts)
  BY DEF TalosPasses, Flow, Held
<1>2. task_cursor + 1 \in 1..Len(plan) /\ task \in Texts
  BY <1>1
<1>3. plain => task.wide = FALSE
  BY <1>2 DEF Held, Within
<1>4. limit \in Nat
  BY DEF MAX_MESSAGE_CHARS, MESSAGE_PREFIX
<1>5. plain' = plain
  BY DEF TalosPasses
<1> HIDE DEF task
<1>6. /\ CheckpointMessage(task) \in Texts
      /\ CheckpointMessage(task).len <= limit
      /\ plain => CheckpointMessage(task).wide = FALSE
  BY <1>2, <1>3, <1>4, TruncatedIs DEF CheckpointMessage
<1>7. /\ messages \in Seq(Texts) /\ Len(messages) = Len(checkpoints) + 1
      /\ Len(checkpoints) \in Nat
      /\ messages[Len(checkpoints) + 1] = CheckpointMessage(task)
      /\ \A i \in 1..Len(checkpoints) : messages[i] = checkpoints[i]
  BY <1>1, <1>6
<1>8. \/ /\ checkpoints' = messages /\ task_cursor' = task_cursor + 1
         /\ purpose' = "task"
         /\ pc' = IF task_cursor' < Len(plan) THEN "argus_research" ELSE "cerberus"
         /\ raised_by' = None
         /\ UNCHANGED <<plan, context_handles, touched>>
      \/ ~EvalFits(Text(0, FALSE), touched) /\ Raise("eval_report")
      \/ ~CheckpointsFit(messages) /\ Raise("checkpoints")
      \/ ~TestsFit(touched_test_files \cup Range(touched)) /\ Raise("touched_test_files")
  BY DEF TalosPasses, Goto, task
<1> HIDE DEF messages
<1>9. \A i \in 1..Len(messages) : /\ messages[i] \in Texts
                                  /\ messages[i].len <= limit
                                  /\ plain => messages[i].wide = FALSE
  <2>1. \A i \in 1..Len(checkpoints) : /\ messages[i] \in Texts
                                       /\ messages[i].len <= limit
                                       /\ plain => messages[i].wide = FALSE
    BY <1>7 DEF Held, Within
  <2>2. /\ messages[Len(checkpoints) + 1] \in Texts
        /\ messages[Len(checkpoints) + 1].len <= limit
        /\ plain => messages[Len(checkpoints) + 1].wide = FALSE
    BY <1>6, <1>7
  <2> HIDE DEF limit
  <2> QED BY <1>7, <2>1, <2>2
<1>10. CASE /\ checkpoints' = messages /\ task_cursor' = task_cursor + 1
            /\ purpose' = "task"
            /\ pc' = IF task_cursor' < Len(plan) THEN "argus_research" ELSE "cerberus"
            /\ raised_by' = None
            /\ UNCHANGED <<plan, context_handles, touched>>
  <2>1. Held'
    BY <1>5, <1>7, <1>9, <1>10 DEF Held, Within
  <2>2. Flow'
    BY <1>1, <1>10 DEF Flow, Steps, Asking
  <2>3. Raised'
    BY <1>10 DEF Raised, ShortAnswersRaiseOnlyByNumber
  <2> QED BY <2>1, <2>2, <2>3 DEF Kept
<1>11. CASE ~CheckpointsFit(messages) /\ Raise("checkpoints")
  <2>1. plain' => TooMany(Len(checkpoints) + 1, LONGEST_CHECKPOINT)
    <3>1. SUFFICES ASSUME plain PROVE TooMany(Len(messages), LONGEST_CHECKPOINT)
      BY <1>5, <1>7
    <3>2. \A i \in 1..Len(messages) :
            messages[i].len <= MAX_MESSAGE_CHARS - MESSAGE_PREFIX /\ messages[i].wide = FALSE
      BY <1>9, <3>1
    <3>3. messages \in Seq(Texts)
      BY <1>7
    <3> QED BY <1>11, <3>2, <3>3, CheckpointsThatFit
  <2>2. raised_by' = "checkpoints" /\ checkpoints' = checkpoints
    BY <1>11 DEF Raise, stateVars
  <2>3. ShortAnswersRaiseOnlyByNumber'
    BY <2>1, <2>2 DEF ShortAnswersRaiseOnlyByNumber
  <2> QED BY <1>5, <1>11, <2>3, Raises
<1>12. CASE ~EvalFits(Text(0, FALSE), touched) /\ Raise("eval_report")
  BY <1>5, <1>12, PlainIs, ReportRaises
<1>13. CASE /\ ~TestsFit(touched_test_files \cup Range(touched))
            /\ Raise("touched_test_files")
  <2>1. /\ raised_by' = "touched_test_files"
        /\ touched' = touched /\ touched_test_files' = touched_test_files
    BY <1>13 DEF Raise, stateVars, testVars
  <2>2. TooMany(Cardinality(touched_test_files' \cup Range(touched')), 2 + RelBytes)
    BY <1>13, <2>1, TestsThatFit
  <2>3. ShortAnswersRaiseOnlyByNumber'
    BY <2>1, <2>2 DEF ShortAnswersRaiseOnlyByNumber
  <2> QED BY <1>5, <1>13, <2>3, Raises
<1> QED BY <1>8, <1>10, <1>11, <1>12, <1>13

\* A failure is cut; the report it is in fits, and the ladder moves on, or not.
LEMMA TalosFailsKeeps ==
  ASSUME Held, Flow, Raised, TalosFails
  PROVE  Kept'
<1>1. PICK text \in Failures :
        LET failure == Truncated(text, MAX_FIRST_FAILURE)
        IN  /\ plain' = (plain /\ ~failure.wide)
            /\ \/ ~EvalFits(failure, touched) /\ Raise("eval_report")
               \/ EvalFits(failure, touched) /\ Halt(Short)
               \/ /\ EvalFits(failure, touched)
                  /\ \/ Goto("talos") /\ UNCHANGED purpose
                     \/ Goto("chiron") /\ purpose' = "task"
                     \/ Goto("argus_research") /\ purpose' = "L2"
                     \/ Goto("daedalus") /\ purpose' = "task"
                     \/ Goto("odysseus") /\ purpose' = "L4"
                  /\ UNCHANGED stateVars
  BY DEF TalosFails
<1> DEFINE failure == Truncated(text, MAX_FIRST_FAILURE)
<1>2. /\ failure \in Texts /\ failure.len <= MAX_FIRST_FAILURE
      /\ failure.wide \in BOOLEAN
  <2>1. text \in Texts /\ MAX_FIRST_FAILURE \in Nat
    BY AnswersAssumption DEF MAX_FIRST_FAILURE
  <2>2. failure \in Texts /\ failure.len <= MAX_FIRST_FAILURE
    BY <2>1, TruncatedIs
  <2> HIDE DEF failure
  <2> QED BY <2>2 DEF Texts
<1>3. (plain' => plain) /\ (plain' => ~failure.wide)
  BY <1>1
<1>4. task_cursor < Len(plan)
  BY DEF TalosFails, Flow
<1>5. \/ ~EvalFits(failure, touched) /\ Raise("eval_report")
      \/ Halt(Short)
      \/ /\ \/ Goto("talos") /\ UNCHANGED purpose
            \/ Goto("chiron") /\ purpose' = "task"
            \/ Goto("argus_research") /\ purpose' = "L2"
            \/ Goto("daedalus") /\ purpose' = "task"
            \/ Goto("odysseus") /\ purpose' = "L4"
         /\ UNCHANGED stateVars
  BY <1>1
<1> HIDE DEF failure
<1>6. CASE Halt(Short)
  BY <1>3, <1>6, ShortIs, HaltKeeps
<1>7. CASE ~EvalFits(failure, touched) /\ Raise("eval_report")
  BY <1>2, <1>3, <1>7, ReportRaises
<1>8. CASE /\ \/ Goto("talos") /\ UNCHANGED purpose
              \/ Goto("chiron") /\ purpose' = "task"
              \/ Goto("argus_research") /\ purpose' = "L2"
              \/ Goto("daedalus") /\ purpose' = "task"
              \/ Goto("odysseus") /\ purpose' = "L4"
           /\ UNCHANGED stateVars
  <2>1. /\ raised_by' = None /\ pc' \in Steps
        /\ pc' = "odysseus" => purpose' = "L4"
        /\ UNCHANGED <<plan, task_cursor, context_handles, touched, checkpoints>>
    BY <1>8 DEF Goto, Steps, Asking, stateVars, testVars
  <2> QED BY <1>3, <1>4, <2>1, MovesOn DEF Replanning
<1> QED BY <1>5, <1>6, <1>7, <1>8

-----------------------------------------------------------------------------
(* The correction, and what is written.                                    *)

TagsIn(answer) == {answer[i].tag : i \in DOMAIN answer}

\* A tag is among an answer's where there is one of its kind.
LEMMA TagsInAnswer ==
  ASSUME NEW node \in Asking, NEW answer \in Replies[node]
  PROVE  /\ TagsIn(answer) \subseteq TagsOf[node]
         /\ \A tag : Has(answer, tag) <=> tag \in TagsIn(answer)
<1>1. DOMAIN answer = 1..Len(answer) /\ \A i \in 1..Len(answer) : answer[i].tag \in TagsOf[node]
  BY AnswerTyped
<1> QED BY <1>1 DEF TagsIn, Has, Where

\* An answer without usable tags refuses nothing.
LEMMA MalformedIsNoRefusal ==
  ASSUME NEW node \in Asking, NEW answer \in Replies[node], Parse(node, answer).malformed
  PROVE  TagsIn(answer) \cap {"objection", "decline"} = {}
<1>1. TagsIn(answer) \subseteq TagsOf[node]
  BY TagsInAnswer
<1>2. "objection" \in TagsOf[node] => node \in {"odysseus", "daedalus"}
  BY DEF TagsOf, Asking
<1>3. "decline" \in TagsOf[node] => node = "chiron"
  BY DEF TagsOf, Asking
<1>4. node \in {"odysseus", "daedalus"} => ~Has(answer, "objection")
  <2>1. CASE node = "odysseus"
    <3>1. ParseOdysseus(answer).malformed
      BY <2>1 DEF Parse
    <3> QED BY <3>1 DEF ParseOdysseus
  <2>2. CASE node = "daedalus"
    <3>1. ParseDaedalus(answer).malformed
      BY <2>2 DEF Parse
    <3> QED BY <3>1 DEF ParseDaedalus
  <2> QED BY <2>1, <2>2
<1>5. node = "chiron" => ~Has(answer, "decline")
  <2>1. SUFFICES ASSUME node = "chiron" PROVE ~Has(answer, "decline")
    OBVIOUS
  <2>2. ParseChiron(answer).malformed
    BY <2>1 DEF Parse
  <2> QED BY <2>2 DEF ParseChiron
<1> QED BY <1>1, <1>2, <1>3, <1>4, <1>5, TagsInAnswer

\* The files a parser returns are those of the answer.
LEMMA FilesArePaths ==
  ASSUME NEW tags, NEW answer \in Seq(Tags(tags))
  PROVE  LET files == Tagged(answer, "file")
         IN  {files[i].path : i \in DOMAIN files} = Paths(answer)
<1> DEFINE files == Tagged(answer, "file")
<1>1. files \in Seq(Tags(tags))
  BY TaggedAre
<1>2. \A j \in 1..Len(files) : \E i \in Where(answer, "file") : files[j] = answer[i]
  BY TaggedAre
<1>3. \A i \in Where(answer, "file") : \E j \in 1..Len(files) : files[j] = answer[i]
  BY TaggedAre
<1> HIDE DEF files
<1>4. DOMAIN files = 1..Len(files)
  BY <1>1
<1>5. {files[i].path : i \in DOMAIN files} = Paths(answer)
  <2>1. ASSUME NEW j \in DOMAIN files
        PROVE  files[j].path \in Paths(answer)
    <3>1. PICK i \in Where(answer, "file") : files[j] = answer[i]
      BY <1>2, <1>4
    <3> QED BY <3>1 DEF Paths
  <2>2. ASSUME NEW i \in Where(answer, "file")
        PROVE  answer[i].path \in {files[j].path : j \in DOMAIN files}
    <3>1. PICK j \in DOMAIN files : files[j] = answer[i]
      BY <1>3, <1>4
    <3> QED BY <3>1
  <2> QED BY <2>1, <2>2 DEF Paths
<1> QED BY <1>5 DEF files

\* What is written are files of an answer that refuses nothing, and all of
\* them where Talos comes next.
LEMMA WrittenIsMeant ==
  ASSUME NEW node \in Asking, NEW answer \in Replies[node], Act(node, Parse(node, answer))
  PROVE  /\ written' # {} =>
              /\ ~Parse(node, answer).malformed
              /\ "file" \in TagsIn(answer)
              /\ TagsIn(answer) \cap {"objection", "decline"} = {}
              /\ node = "chiron" => Paths(answer) \cap TestFiles = {}
         /\ pc' = "talos" => written' \in {{}, Paths(answer)}
<1> DEFINE files == Tagged(answer, "file")
<1>1. TagsIn(answer) \subseteq TagsOf[node]
  BY TagsInAnswer
<1>2. answer \in Seq(Tags(TagsOf[node]))
  BY AnswerTyped
<1>3. {files[i].path : i \in DOMAIN files} = Paths(answer)
  BY <1>2, FilesArePaths
<1>4. ASSUME Escape(files) = {}, WriteFileBlocks(files)
      PROVE  written' = Paths(answer)
  <2> HIDE DEF files
  <2>1. {i \in DOMAIN files : \A j \in Escape(files) : i < j} = DOMAIN files
    BY <1>4
  <2> QED BY <1>3, <1>4, <2>1 DEF WriteFileBlocks
<1>5. CASE written' = {}
  BY <1>5
<1>6. CASE node = "daedalus" /\ written' # {}
  <2> DEFINE output == ParseDaedalus(answer)
  <2>1. DaedalusActs(output)
    BY <1>6 DEF Act, Parse
  <2>2. output.objection = None
    BY <1>6, <2>1 DEF DaedalusActs, WriteNothing
  <2>3. ~Has(answer, "objection")
    <3>1. SUFFICES ASSUME Has(answer, "objection") PROVE FALSE
      OBVIOUS
    <3>2. First(answer, "objection").text = None
      BY <2>2, <3>1 DEF ParseDaedalus
    <3>3. "objection" \notin WordTags
      BY DEF WordTags
    <3>4. First(answer, "objection").text \in Texts
      BY <1>2, <3>1, <3>3, FirstIs
    <3> QED BY <3>2, <3>4, AnswersAssumption
  <2>4. Has(answer, "file")
    BY <2>2, <2>3, ShortIs, AnswersAssumption DEF ParseDaedalus
  <2>5. output.files = files /\ ~output.malformed
    BY <2>3, <2>4 DEF ParseDaedalus
  <2>6. "decline" \notin TagsOf[node]
    BY <1>6 DEF TagsOf
  <2>7. pc' = "talos" => written' = Paths(answer)
    <3> HIDE DEF output, files
    <3>1. /\ WriteFileBlocks(files)
          /\ Escape(files) # {} => Halt(Short)
      BY <2>1, <2>2, <2>5 DEF DaedalusActs
    <3>2. Halt(Short) => pc' # "talos"
      BY DEF Halt, Goto, Raise
    <3> QED BY <1>4, <3>1, <3>2
  <2>8. ~Parse(node, answer).malformed
    BY <1>6, <2>5 DEF Parse
  <2> QED BY <1>1, <1>6, <2>3, <2>4, <2>6, <2>7, <2>8, TagsInAnswer
<1>7. CASE node = "chiron" /\ written' # {}
  <2> DEFINE output == ParseChiron(answer)
  <2>1. ChironActs(output)
    BY <1>7 DEF Act, Parse
  <2>2. ~output.declined /\ TestBlocks(output.files) = {}
    BY <1>7, <2>1 DEF ChironActs, WriteNothing
  <2>3. ~Has(answer, "decline") /\ Has(answer, "file") /\ ~output.malformed
    BY <2>2 DEF ParseChiron
  <2>4. output.files = files
    BY <2>3 DEF ParseChiron
  <2>5. "objection" \notin TagsOf[node]
    BY <1>7 DEF TagsOf
  <2>6. pc' = "talos" => written' = Paths(answer)
    <3> HIDE DEF output, files
    <3>1. /\ WriteFileBlocks(files)
          /\ Escape(files) # {} => Halt(Short)
      BY <2>1, <2>2, <2>4 DEF ChironActs
    <3>2. Halt(Short) => pc' # "talos"
      BY DEF Halt, Goto, Raise
    <3> QED BY <1>4, <3>1, <3>2
  <2>7. Paths(answer) \cap TestFiles = {}
    <3> HIDE DEF output, files
    <3>1. TestBlocks(files) = {}
      BY <2>2, <2>4
    <3>2. \A i \in DOMAIN files : files[i].path \notin TestFiles
      BY <3>1 DEF TestBlocks
    <3> QED BY <1>3, <3>2
  <2>8. ~Parse(node, answer).malformed
    BY <1>7, <2>3 DEF Parse
  <2> QED BY <1>1, <1>7, <2>3, <2>5, <2>6, <2>7, <2>8, TagsInAnswer
<1>8. CASE node \notin {"daedalus", "chiron"}
  <2>1. written' = {}
    BY <1>8 DEF Act, WriteNothing, Asking
  <2> QED BY <1>5, <2>1
<1> QED BY <1>5, <1>6, <1>7, <1>8

\* An exchange is the call's first, or the correction of an unusable one.
LEMMA ExchangedStep ==
  ASSUME Exchanged, pc \in Asking, NEW answer \in Replies[pc],
         Remember(answer),
         \/ Retries(answer) /\ attempt' = attempt + 1 /\ WriteNothing
         \/ ~Retries(answer) /\ attempt' = 1 /\ Act(pc, Parse(pc, answer))
  PROVE  Exchanged'
<1> DEFINE e == Exchange(answer)
           before == IF attempt = 1 THEN <<>> ELSE call.exchanges
           after == Append(before, e)
<1>1. /\ call'.exchanges = after /\ call'.node = pc
      /\ call'.files = Paths(answer)
  BY DEF Remember, Paths
<1>2. /\ e.asked = IF attempt = 1 THEN "turn" ELSE "correction"
      /\ e.usable <=> ~Parse(pc, answer).malformed
      /\ e.tags = TagsIn(answer)
  BY DEF Exchange, TagsIn
<1>3. e \in Exchanges
  <2>1. TagsIn(answer) \subseteq AllTags
    BY TagsInAnswer DEF AllTags
  <2> QED BY <2>1 DEF Exchange, Exchanges, TagsIn
<1> HIDE DEF e
<1>4. attempt \in {1, 2}
  BY DEF Exchanged, MAX_FORMAT_ATTEMPTS
<1>5. before \in Seq(Exchanges) /\ Len(before) = attempt - 1
  <2>1. CASE attempt = 1
    <3>1. before = <<>>
      BY <2>1
    <3> HIDE DEF before
    <3> QED BY <2>1, <3>1
  <2>2. CASE attempt = 2
    <3>1. before = call.exchanges /\ Len(call.exchanges) = 1 /\ call.exchanges \in Seq(Exchanges)
      BY <2>2 DEF Exchanged
    <3> HIDE DEF before
    <3> QED BY <2>2, <3>1
  <2> QED BY <1>4, <2>1, <2>2
<1>6. /\ after \in Seq(Exchanges) /\ Len(after) = attempt /\ after[attempt] = e
      /\ attempt = 2 => after[1] = call.exchanges[1]
  <2>1. before # <<>> => before = call.exchanges
    OBVIOUS
  <2>2. Len(before) \in Nat /\ attempt = 2 => before = call.exchanges /\ Len(before) = 1
    BY <1>5
  <2> HIDE DEF before
  <2> QED BY <1>3, <1>4, <1>5, <2>2
<1> HIDE DEF before, after
<1>7. Retries(answer) => /\ attempt = 1 /\ ~e.usable
                         /\ e.tags \cap {"objection", "decline"} = {}
  BY <1>2, <1>4, MalformedIsNoRefusal DEF Retries, MAX_FORMAT_ATTEMPTS
<1>8. /\ written' # {} => /\ e.usable /\ "file" \in e.tags
                          /\ e.tags \cap {"objection", "decline"} = {}
                          /\ pc = "chiron" => Paths(answer) \cap TestFiles = {}
      /\ pc' = "talos" => written' \in {{}, Paths(answer)}
  <2>1. CASE written' = {}
    BY <2>1
  <2>2. CASE Act(pc, Parse(pc, answer))
    <3> DEFINE usable == ~Parse(pc, answer).malformed
    <3>1. e.usable <=> usable
      BY <1>2
    <3>2. written' # {} => /\ usable /\ "file" \in TagsIn(answer)
                           /\ TagsIn(answer) \cap {"objection", "decline"} = {}
                           /\ pc = "chiron" => Paths(answer) \cap TestFiles = {}
      BY <2>2, WrittenIsMeant
    <3>3. pc' = "talos" => written' \in {{}, Paths(answer)}
      BY <2>2, WrittenIsMeant
    <3> HIDE DEF usable
    <3> QED BY <1>2, <3>1, <3>2, <3>3
  <2> QED BY <2>1, <2>2 DEF WriteNothing
<1>9. attempt = 2 => /\ ~after[1].usable /\ after[1].asked # "correction"
                     /\ after[1].tags \cap {"objection", "decline"} = {}
  <2>1. SUFFICES ASSUME attempt = 2
                 PROVE  /\ ~after[1].usable /\ after[1].asked # "correction"
                        /\ after[1].tags \cap {"objection", "decline"} = {}
    OBVIOUS
  <2>2. /\ Len(call.exchanges) = 1 /\ ~call.exchanges[1].usable
        /\ call.exchanges[1].tags \cap {"objection", "decline"} = {}
        /\ call.exchanges \in Seq(Exchanges)
    BY <2>1 DEF Exchanged
  <2>3. call.exchanges[1].asked # "correction"
    BY <2>2 DEF Exchanged, CorrectionsFollowMistakes
  <2> QED BY <1>6, <2>1, <2>2, <2>3
<1>10. CorrectionsFollowMistakes'
  BY <1>1, <1>2, <1>4, <1>6, <1>8, <1>9 DEF CorrectionsFollowMistakes, MAX_FORMAT_ATTEMPTS
<1>11. RefusalsWriteNothing'
  BY <1>1, <1>4, <1>6, <1>8 DEF RefusalsWriteNothing
<1>12. attempt' \in 1..MAX_FORMAT_ATTEMPTS
  BY <1>4, <1>7 DEF MAX_FORMAT_ATTEMPTS
<1>13. attempt' = 2 => /\ Len(after) = 1 /\ ~after[1].usable
                       /\ after[1].tags \cap {"objection", "decline"} = {}
  BY <1>4, <1>6, <1>7
<1> QED BY <1>1, <1>6, <1>10, <1>11, <1>12, <1>13 DEF Exchanged

-----------------------------------------------------------------------------
(* The invariant.                                                          *)

\* Nothing was asked yet.
LEMMA InvInit == Init => Inv
<1> SUFFICES ASSUME Init PROVE Inv
  OBVIOUS
<1>1. DOMAIN <<>> = {}
  OBVIOUS
<1>2. Held
  <2>1. IsFiniteSet(DOMAIN context_handles) /\ DOMAIN context_handles = {}
    BY <1>1, FS_EmptySet DEF Init
  <2>2. plan = <<>> /\ checkpoints = <<>> /\ touched = <<>>
    BY DEF Init
  <2> QED BY <2>1, <2>2 DEF Held
<1>3. Flow
  BY DEF Init, Flow, Steps, Asking
<1>4. Exchanged
  <2>1. attempt = 1 /\ call.exchanges = <<>> /\ written = {} /\ pc # "talos"
    BY DEF Init
  <2> QED BY <2>1 DEF Exchanged, CorrectionsFollowMistakes, RefusalsWriteNothing,
                      MAX_FORMAT_ATTEMPTS
<1>5. Raised
  BY DEF Init, Raised, ShortAnswersRaiseOnlyByNumber
<1> QED BY <1>2, <1>3, <1>4, <1>5 DEF Inv

\* A step that asks nothing leaves the exchanges as they are.
LEMMA ExchangedStays ==
  ASSUME Exchanged, call' = call, written' = written, attempt' \in {attempt, 1},
         pc' = "talos" => pc = "talos"
  PROVE  Exchanged'
BY DEF Exchanged, CorrectionsFollowMistakes, RefusalsWriteNothing, MAX_FORMAT_ATTEMPTS

\* Every step keeps the invariant.
LEMMA InvStep ==
  ASSUME Inv, [Next]_vars
  PROVE  Inv'
<1>1. Held /\ Flow /\ Exchanged /\ Raised
  BY DEF Inv
<1>2. ASSUME Kept', Exchanged' PROVE Inv'
  BY <1>2 DEF Kept, Inv
<1>3. CASE UNCHANGED vars
  <2>1. UNCHANGED <<plan, task_cursor, context_handles, checkpoints, pc, purpose,
                    review_verdict, attempt, call, written, plain, raised_by,
                    touched, touched_test_files>>
    BY <1>3 DEF vars, stateVars, testVars
  <2>2. Held' /\ Flow' /\ Raised'
    BY <1>1, <2>1 DEF Held, Within, Flow, Replanning, Raised, ShortAnswersRaiseOnlyByNumber
  <2>3. Exchanged'
    BY <1>1, <2>1, ExchangedStays
  <2> QED BY <1>2, <2>2, <2>3 DEF Kept
<1>4. CASE TalosPasses
  <2>1. UNCHANGED <<attempt, call, written>> /\ pc = "talos"
    BY <1>4 DEF TalosPasses
  <2>2. Exchanged'
    BY <1>1, <2>1, ExchangedStays
  <2> QED BY <1>1, <1>2, <1>4, <2>2, TalosPassesKeeps
<1>5. CASE TalosFails
  <2>1. UNCHANGED <<attempt, call, written>> /\ pc = "talos"
    BY <1>5 DEF TalosFails
  <2>2. Exchanged'
    BY <1>1, <2>1, ExchangedStays
  <2> QED BY <1>1, <1>2, <1>5, <2>2, TalosFailsKeeps
<1>6. CASE CerberusReportsHalt
  <2>1. /\ UNCHANGED <<attempt, call, written, plain>>
        /\ EndReview("escalate", commit_message)
    BY <1>6 DEF CerberusReportsHalt
  <2>2. pc' = "END"
    BY <2>1 DEF EndReview, Goto
  <2> QED BY <1>1, <1>2, <2>1, <2>2, EndReviewKeeps, ExchangedStays
<1>7. CASE ChainExhausted
  <2>1. attempt' = 1 /\ UNCHANGED <<call, written, plain>>
    BY <1>7 DEF ChainExhausted
  <2>2. EscalateReview \/ Halt(Short)
    BY <1>7 DEF ChainExhausted
  <2>3. pc' # "talos"
    BY <2>2 DEF EscalateReview, EndReview, Halt, Goto, Raise
  <2>4. Exchanged'
    BY <1>1, <2>1, <2>3, ExchangedStays
  <2>5. CASE EscalateReview
    BY <1>1, <1>2, <2>1, <2>4, <2>5, EndReviewKeeps DEF EscalateReview
  <2>6. CASE Halt(Short)
    BY <1>1, <1>2, <2>1, <2>4, <2>6, ShortIs, HaltKeeps
  <2> QED BY <2>2, <2>5, <2>6
<1>8. ASSUME Ask PROVE Inv'
  <2>1. PICK answer \in Replies[pc] :
          /\ Remember(answer)
          /\ IF Retries(answer)
             THEN /\ attempt' = attempt + 1
                  /\ WriteNothing
                  /\ UNCHANGED <<pc, stateVars, purpose, raised_by>>
             ELSE /\ attempt' = 1
                  /\ Act(pc, Parse(pc, answer))
    BY <1>8 DEF Ask
  <2>2. pc \in Asking
    BY <1>8 DEF Ask
  <2>3. Exchanged'
    <3>1. CASE Retries(answer)
      BY <1>1, <2>1, <2>2, <3>1, ExchangedStep
    <3>2. CASE ~Retries(answer)
      BY <1>1, <2>1, <2>2, <3>2, ExchangedStep
    <3> QED BY <3>1, <3>2
  <2>4. Heard(answer)
    <3>1. plain' => plain /\ PlainAnswer(answer)
      BY <2>1 DEF Remember
    <3>2. call'.files = Paths(answer)
      BY <2>1 DEF Remember, Paths
    <3> QED BY <3>1, <3>2 DEF Heard
  <2>5. CASE Retries(answer)
    <3>1. UNCHANGED <<pc, plan, task_cursor, context_handles, touched, checkpoints,
                      purpose, review_verdict, raised_by>>
      BY <2>1, <2>5 DEF stateVars, testVars
    <3>2. raised_by' = None
      BY <1>1, <2>2, <3>1 DEF Raised, Asking
    <3>3. Held'
      BY <1>1, <2>4, <3>1, HeldStays DEF Heard
    <3>4. Flow'
      BY <1>1, <3>1 DEF Flow, Replanning
    <3>5. Raised'
      BY <3>2 DEF Raised, ShortAnswersRaiseOnlyByNumber
    <3> QED BY <1>2, <2>3, <3>3, <3>4, <3>5 DEF Kept
  <2>6. CASE ~Retries(answer)
    <3>1. Act(pc, Parse(pc, answer))
      BY <2>1, <2>6
    <3>2. Kept'
      <4>1. CASE pc = "odysseus"
        BY <1>1, <2>4, <3>1, <4>1, OdysseusKeeps DEF Act, Parse
      <4>2. CASE pc = "argus_research"
        BY <1>1, <2>4, <3>1, <4>2, ArgusKeeps DEF Act, Parse
      <4>3. CASE pc = "daedalus"
        BY <1>1, <2>4, <3>1, <4>3, DaedalusKeeps DEF Act, Parse
      <4>4. CASE pc = "chiron"
        BY <1>1, <2>4, <3>1, <4>4, ChironKeeps DEF Act, Parse
      <4>5. CASE pc = "cerberus"
        BY <1>1, <2>4, <3>1, <4>5, CerberusKeeps DEF Act, Parse
      <4> QED BY <2>2, <4>1, <4>2, <4>3, <4>4, <4>5 DEF Asking
    <3> QED BY <1>2, <2>3, <3>2
  <2> QED BY <2>5, <2>6
<1> QED BY <1>3, <1>4, <1>5, <1>6, <1>7, <1>8 DEF Next

\* On every step of every run.
LEMMA InvInvariant == Spec => []Inv
BY InvInit, InvStep, PTL DEF Spec

(* complete_with_format_retry: a model is corrected at most once, only for *)
(* an answer without usable tags, and an unusable answer writes nothing.   *)
THEOREM OnlyMistakesAreCorrected == Spec => []CorrectionsFollowMistakes
<1>1. Inv => CorrectionsFollowMistakes
  BY DEF Inv, Exchanged
<1> QED BY <1>1, InvInvariant, PTL

(* parse_daedalus_output, parse_chiron_output and the nodes' writes: files  *)
(* reach the worktree only for an answer with file blocks and no refusal   *)
(* anywhere in it, Chiron's only without a test file among them, and Talos *)
(* evaluates all of an answer's files or none.                             *)
THEOREM NoRefusalWrites == Spec => []RefusalsWriteNothing
<1>1. Inv => RefusalsWriteNothing
  BY DEF Inv, Exchanged
<1> QED BY <1>1, InvInvariant, PTL

(* AgentState's field limit refuses short plain answers and failures only  *)
(* for the number of context files, checkpoints or test files, however     *)
(* long the paths of the repository are.                                   *)
THEOREM ShortAnswersFit == Spec => []ShortAnswersRaiseOnlyByNumber
<1>1. Inv => ShortAnswersRaiseOnlyByNumber
  BY DEF Inv, Raised
<1> QED BY <1>1, InvInvariant, PTL

(* read_plan and current_task: whatever the model answers, every task in   *)
(* the plan file is within its limit and the current one is among them.    *)
THEOREM ThePlanIsReadable == Spec => []PlanIsReadable
<1>1. Inv => PlanIsReadable
  <2> SUFFICES ASSUME Inv PROVE PlanIsReadable
    OBVIOUS
  <2>1. plan \in Seq(Texts) /\ DOMAIN plan = 1..Len(plan)
    BY DEF Inv, Held
  <2> QED BY <2>1 DEF Inv, Held, Within, Flow, PlanIsReadable
<1> QED BY <1>1, InvInvariant, PTL
=============================================================================
