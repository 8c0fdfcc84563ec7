-------------------------- MODULE PromptCache_proofs --------------------------
(***************************************************************************)
(* Proofs about PromptCache: for any contents of the worktree and any      *)
(* number of prompts, every prompt shows the worktree as it is, a key      *)
(* follows the writes, and no key names two histories.                     *)
(***************************************************************************)
EXTENDS PromptCacheProperties, TLAPS

(* The inductive invariant.                                                *)

(* What the maps and hashes are taken of.                                  *)
Typed ==
  /\ tree \in Trees
  /\ committed \in Trees
  /\ content_hash \in Trees \cup {None}
  /\ codebase \in [Builders -> Trees \cup {None}]
  /\ attempt \in 0..1
  /\ node \in Builders \cup {"start", "writing", "routing", "rollback", "end"}

(* Nothing is written between a malformed answer and its retry, so the map *)
(* the retry carries is the worktree's.                                    *)
RetryIsCurrent ==
  attempt = 1 =>
    /\ node \in Builders \ {"talos"}
    /\ codebase[node] = IF node \in Mapped THEN tree ELSE None

(* The hash the keyring holds is the worktree's unless it was told of a    *)
(* write since, or not told of a rollback.                                 *)
HashFollowsWrites == content_hash \in {tree, None} \/ dirty \/ undone

Current ==
  /\ Typed /\ RetryIsCurrent /\ HashFollowsWrites
  /\ MapIsCurrent /\ KeyFollowsWrites

(* The lengths of the histories, and what the role's counter makes of them.*)
Counted ==
  /\ history \in [Builders -> Nat]
  /\ history_turns \in [Roles -> Nat]
  /\ \A builder \in Builders \ {"discovery", "argus"} :
       history_turns[Role(builder)] = history[builder]
  /\ history_turns["argus"] = history["discovery"] + history["argus"]

(* Discovery's builder is done before Argus's first prompt.                *)
DiscoveryFirst == node \in {"start", "discovery"} => history["argus"] = 0

(* The turns a role's counter has had before a builder's first.            *)
Before(builder) == IF builder = "argus" THEN history["discovery"] ELSE 0

(* What a key given out says: its role's counter at the time.              *)
Given ==
  \A key \in named :
    \E builder \in Builders : \E length \in 1..history[builder] :
      key = <<<<Role(builder), length + Before(builder)>>, builder, length>>

Keyed == Typed /\ Counted /\ DiscoveryFirst /\ Given
-----------------------------------------------------------------------------
(* The map and its key.                                                    *)

(* What a prompt shows and how it is named.                                *)
LEMMA SendShows ==
  ASSUME Current, NEW builder \in Builders, node = builder, Send(builder)
  PROVE  /\ codebase' = [codebase EXCEPT ![builder] =
                           IF builder \in Mapped THEN tree ELSE None]
         /\ codebase' \in [Builders -> Trees \cup {None}]
         /\ content_hash' \in Trees \cup {None}
         /\ content_hash' \in {tree, None} \/ dirty' \/ undone
         /\ sent'.map # None => sent'.map = sent'.tree
         /\ ~sent'.undone => sent'.key = sent'.map
<1>1. Typed /\ RetryIsCurrent /\ HashFollowsWrites /\ None \notin Trees
  BY PromptCacheAssumption DEF Current
<1>2. CodebaseMap(builder) = IF builder \in Mapped THEN tree ELSE None
  BY <1>1 DEF CodebaseMap, RetryIsCurrent, Typed
<1>3. /\ codebase' = [codebase EXCEPT ![builder] = CodebaseMap(builder)]
      /\ sent' = [map |-> CodebaseMap(builder), tree |-> tree, undone |-> undone,
                  key |-> IF CodebaseMap(builder) = None THEN None ELSE ContentHash]
      /\ IF CodebaseMap(builder) = None
         THEN UNCHANGED <<content_hash, dirty>>
         ELSE content_hash' = ContentHash /\ dirty' = FALSE
  BY DEF Send
<1>4. ContentHash = tree \/ (undone /\ ContentHash \in Trees)
  BY <1>1 DEF ContentHash, HashFollowsWrites, Typed
<1>5. CASE builder \in Mapped
  <2>1. CodebaseMap(builder) = tree /\ tree # None /\ tree \in Trees
    BY <1>1, <1>2, <1>5 DEF Typed
  <2>2. /\ sent'.map = tree /\ sent'.tree = tree /\ sent'.undone = undone
        /\ sent'.key = ContentHash /\ content_hash' = ContentHash
    BY <1>3, <2>1
  <2>3. codebase' = [codebase EXCEPT ![builder] = tree]
    BY <1>3, <2>1
  <2>4. codebase' \in [Builders -> Trees \cup {None}]
    BY <1>1, <2>1, <2>3 DEF Typed
  <2> QED BY <1>4, <1>5, <2>1, <2>2, <2>3, <2>4
<1>6. CASE builder \notin Mapped
  <2>1. CodebaseMap(builder) = None
    BY <1>2, <1>6
  <2>2. /\ sent'.map = None /\ sent'.key = None
        /\ UNCHANGED <<content_hash, dirty>>
    BY <1>3, <2>1
  <2>3. codebase' = [codebase EXCEPT ![builder] = None]
    BY <1>3, <2>1
  <2>4. codebase' \in [Builders -> Trees \cup {None}]
    BY <1>1, <2>3 DEF Typed
  <2> QED BY <1>1, <1>6, <2>2, <2>3, <2>4 DEF Typed, HashFollowsWrites
<1> QED BY <1>5, <1>6

\* No step leaves the cached map behind the files.
LEMMA CurrentStep == Current /\ [Next]_vars => Current'
<1> SUFFICES ASSUME Current, [Next]_vars PROVE Current'
  OBVIOUS
<1>1. /\ Typed /\ RetryIsCurrent /\ HashFollowsWrites
      /\ MapIsCurrent /\ KeyFollowsWrites
  BY DEF Current
<1>2. ASSUME NEW builder \in Builders, node = builder, Send(builder),
             UNCHANGED <<tree, committed, undone>>,
             attempt' \in 0..1, attempt' = 1 => node' = builder /\ builder # "talos",
             node' \in Builders \cup {"start", "writing", "routing", "rollback", "end"}
      PROVE  Current'
  <2>1. /\ codebase' = [codebase EXCEPT ![builder] =
                           IF builder \in Mapped THEN tree ELSE None]
        /\ codebase' \in [Builders -> Trees \cup {None}]
        /\ content_hash' \in Trees \cup {None}
        /\ content_hash' \in {tree, None} \/ dirty' \/ undone
        /\ sent'.map # None => sent'.map = sent'.tree
        /\ ~sent'.undone => sent'.key = sent'.map
    BY <1>2, SendShows
  <2>2. Typed'
    BY <1>1, <1>2, <2>1 DEF Typed
  <2>3. RetryIsCurrent'
    BY <1>1, <1>2, <2>1 DEF RetryIsCurrent, Typed
  <2>4. HashFollowsWrites' /\ MapIsCurrent' /\ KeyFollowsWrites'
    BY <1>2, <2>1 DEF HashFollowsWrites, MapIsCurrent, KeyFollowsWrites
  <2> QED BY <2>2, <2>3, <2>4 DEF Current
<1>3. ASSUME NEW builder \in Builders, Malformed(builder) PROVE Current'
  BY <1>2, <1>3 DEF Malformed, treeVars
<1>4. ASSUME NEW builder \in Builders, Continue(builder) PROVE Current'
  <2>1. node' \in Builders \cup {"start", "writing", "routing", "rollback", "end"}
    BY <1>4 DEF Continue, Successors, Builders
  <2> QED BY <1>2, <1>4, <2>1 DEF Continue, Answered, treeVars
<1>5. ASSUME NEW builder \in Builders, Exhausted(builder) PROVE Current'
  BY <1>2, <1>5 DEF Exhausted, treeVars
<1>6. CASE Discover \/ GatesPass \/ Route
  <2>1. /\ UNCHANGED <<tree, undone, content_hash, dirty, codebase, attempt, sent>>
        /\ committed' \in {committed, tree}
        /\ node' \in Builders \cup {"start", "writing", "routing", "rollback", "end"}
    BY <1>6
    DEF Discover, GatesPass, Route, treeVars, keyVars, textVars, callVars, Builders
  <2>2. attempt = 0
    BY <1>1, <1>6 DEF RetryIsCurrent, Typed, Builders, Discover, GatesPass, Route
  <2> QED BY <1>1, <2>1, <2>2
      DEF Current, Typed, RetryIsCurrent, HashFollowsWrites, MapIsCurrent,
          KeyFollowsWrites
<1>7. CASE Write
  <2>1. attempt = 0
    BY <1>1, <1>7 DEF Write, RetryIsCurrent, Typed, Builders
  <2>2. /\ tree' \in Trees /\ dirty' /\ node' = "talos"
        /\ UNCHANGED <<committed, content_hash, codebase, attempt, sent>>
    BY <1>7 DEF Write, Mark, textVars, callVars
  <2> QED BY <1>1, <2>1, <2>2
      DEF Current, Typed, RetryIsCurrent, HashFollowsWrites, MapIsCurrent,
          KeyFollowsWrites, Builders
<1>8. CASE Rollback
  <2>1. attempt = 0
    BY <1>1, <1>8 DEF Rollback, RetryIsCurrent, Typed, Builders
  <2>2. /\ tree' = committed /\ undone' /\ node' = "daedalus"
        /\ UNCHANGED <<committed, content_hash, codebase, attempt, sent>>
    BY <1>8 DEF Rollback, keyVars, textVars, callVars
  <2> QED BY <1>1, <2>1, <2>2
      DEF Current, Typed, RetryIsCurrent, HashFollowsWrites, MapIsCurrent,
          KeyFollowsWrites, Builders
<1>9. CASE UNCHANGED vars
  BY <1>1, <1>9
  DEF vars, treeVars, keyVars, textVars, callVars, Current, Typed, RetryIsCurrent,
      HashFollowsWrites, MapIsCurrent, KeyFollowsWrites
<1> QED BY <1>3, <1>4, <1>5, <1>6, <1>7, <1>8, <1>9 DEF Next

\* The first map is of the first files.
LEMMA CurrentInit == Init => Current
<1> SUFFICES ASSUME Init PROVE Current
  OBVIOUS
<1>1. Typed
  BY DEF Init, Typed
<1> QED BY <1>1
    DEF Init, Current, RetryIsCurrent, HashFollowsWrites, MapIsCurrent, KeyFollowsWrites

(* Every prompt shows the worktree as it is when it is sent, whatever the  *)
(* nodes wrote, rolled back or had to ask again.                           *)
THEOREM PromptsAreCurrent == Spec => []MapIsCurrent
<1>1. Current => MapIsCurrent
  BY DEF Current
<1> QED BY <1>1, CurrentInit, CurrentStep, PTL DEF Spec

(* A key is never older than the last write the keyring was told of.       *)
THEOREM KeysFollowWrites == Spec => []KeyFollowsWrites
<1>1. Current => KeyFollowsWrites
  BY DEF Current
<1> QED BY <1>1, CurrentInit, CurrentStep, PTL DEF Spec
-----------------------------------------------------------------------------
(* The histories and their keys.                                           *)

(* Roles are the builders but for discovery's, which is Argus's.           *)
LEMMA RolesAre ==
  /\ Role("discovery") = "argus" /\ Role("argus") = "argus"
  /\ \A builder \in Builders \ {"discovery"} : Role(builder) = builder
  /\ Roles = Builders \ {"discovery"}
BY DEF Role, Roles, Builders

(* A key is given to the history as it stands.                             *)
LEMMA SendGives ==
  ASSUME Keyed, NEW builder \in Builders, node = builder, Send(builder)
  PROVE  \/ UNCHANGED named
         \/ /\ history[builder] \in 1..history[builder]
            /\ named' = named \cup
                 {<<<<Role(builder), history[builder] + Before(builder)>>,
                    builder, history[builder]>>}
<1>1. Counted /\ DiscoveryFirst
  BY DEF Keyed
<1>2. CASE history[builder] = 0
  BY <1>2 DEF Send
<1>3. CASE history[builder] # 0
  <2>1. named' = named \cup {<<HistoryKey(builder), builder, history[builder]>>}
    BY <1>3 DEF Send
  <2>2. history[builder] \in 1..history[builder]
    BY <1>1, <1>3 DEF Counted
  <2>3. /\ "discovery" \in Builders /\ "argus" \in Builders
        /\ history["discovery"] \in Nat /\ history["argus"] \in Nat
    BY <1>1 DEF Builders, Counted
  <2>4. history_turns[Role(builder)] = history[builder] + Before(builder)
    <3>1. CASE builder = "argus"
      BY <1>1, <2>3, <3>1, RolesAre DEF Counted, Before
    <3>2. CASE builder = "discovery"
      BY <1>1, <2>3, <3>2, RolesAre DEF Counted, Before, DiscoveryFirst
    <3>3. CASE builder \notin {"discovery", "argus"}
      BY <1>1, <3>3 DEF Counted, Before
    <3> QED BY <3>1, <3>2, <3>3
  <2> QED BY <2>1, <2>2, <2>4 DEF HistoryKey
<1> QED BY <1>2, <1>3

(* Histories that grow keep what their keys said: Argus's first key is     *)
(* given when discovery's history has stopped growing.                     *)
LEMMA GivenGrows ==
  ASSUME Keyed, NEW builder \in Builders, node = builder, Send(builder),
         history' = history \/ history' = [history EXCEPT ![builder] = @ + 2]
  PROVE  Given'
<1>1. Counted /\ DiscoveryFirst /\ Given
  BY DEF Keyed
<1>2. \A b \in Builders : history[b] \in Nat /\ history'[b] \in Nat
                          /\ history[b] <= history'[b]
  BY <1>1 DEF Counted
<1>3. ASSUME NEW b \in Builders, history[b] # 0
      PROVE  Before(b)' = Before(b)
  <2>1. CASE b = "argus"
    <3>1. builder # "discovery"
      BY <1>1, <1>3, <2>1 DEF DiscoveryFirst
    <3>2. history'["discovery"] = history["discovery"]
      BY <1>1, <3>1 DEF Counted, Builders
    <3> QED BY <2>1, <3>2 DEF Before
  <2>2. CASE b # "argus"
    BY <2>2 DEF Before
  <2> QED BY <2>1, <2>2
<1>4. ASSUME NEW key, NEW b \in Builders, NEW length \in 1..history[b],
             key = <<<<Role(b), length + Before(b)>>, b, length>>
      PROVE  /\ length \in 1..history'[b]
             /\ key = <<<<Role(b), length + Before(b)'>>, b, length>>
  <2>1. history[b] # 0 /\ length \in 1..history'[b]
    BY <1>2
  <2> QED BY <1>3, <1>4, <2>1
<1>5. SUFFICES ASSUME NEW key \in named'
               PROVE  \E b \in Builders : \E length \in 1..history'[b] :
                        key = <<<<Role(b), length + Before(b)'>>, b, length>>
  BY DEF Given
<1>6. CASE key \in named
  <2>1. PICK b \in Builders : \E length \in 1..history[b] :
          key = <<<<Role(b), length + Before(b)>>, b, length>>
    BY <1>1, <1>6 DEF Given
  <2>2. PICK length \in 1..history[b] :
          key = <<<<Role(b), length + Before(b)>>, b, length>>
    BY <2>1
  <2> QED BY <1>4, <2>2
<1>7. CASE /\ history[builder] \in 1..history[builder]
           /\ key = <<<<Role(builder), history[builder] + Before(builder)>>,
                      builder, history[builder]>>
  BY <1>4, <1>7
<1> QED BY <1>5, <1>6, <1>7, SendGives

(* An answer lengthens one history and its role's counter alike.           *)
LEMMA TurnsCount ==
  ASSUME Counted, NEW builder \in Builders, AppendTurns(builder)
  PROVE  Counted' /\ (builder # "argus" => history'["argus"] = history["argus"])
<1>1. /\ history \in [Builders -> Nat] /\ history_turns \in [Roles -> Nat]
      /\ history' = [history EXCEPT ![builder] = @ + 2]
      /\ history_turns' = [history_turns EXCEPT ![Role(builder)] = @ + 2]
  BY DEF Counted, AppendTurns
<1>2. Role(builder) \in Roles /\ {"discovery", "argus"} \subseteq Builders
      /\ "argus" \in Roles
  BY DEF Roles, Role, Builders
<1>3. history' \in [Builders -> Nat] /\ history_turns' \in [Roles -> Nat]
  BY <1>1, <1>2
<1>4. ASSUME NEW b \in Builders \ {"discovery", "argus"}
      PROVE  history_turns'[Role(b)] = history'[b]
  <2>1. Role(b) = b /\ b \in Roles /\ history_turns[b] = history[b]
    BY RolesAre DEF Counted
  <2>2. CASE b = builder
    BY <1>1, <1>2, <2>1, <2>2
  <2>3. CASE b # builder
    <3>1. Role(builder) # b
      BY <2>3, RolesAre
    <3> QED BY <1>1, <1>2, <2>1, <2>3, <3>1
  <2> QED BY <2>2, <2>3
<1>5. history_turns'["argus"] = history'["discovery"] + history'["argus"]
  <2>1. history_turns["argus"] = history["discovery"] + history["argus"]
    BY DEF Counted
  <2>2. CASE builder \in {"discovery", "argus"}
    <3>1. history_turns'["argus"] = history_turns["argus"] + 2
      BY <1>1, <1>2, <2>2, RolesAre
    <3>2. CASE builder = "discovery"
      <4>1. history'["discovery"] = history["discovery"] + 2
            /\ history'["argus"] = history["argus"]
        BY <1>1, <1>2, <3>2
      <4> QED BY <1>1, <1>2, <2>1, <3>1, <4>1
    <3>3. CASE builder = "argus"
      <4>1. history'["argus"] = history["argus"] + 2
            /\ history'["discovery"] = history["discovery"]
        BY <1>1, <1>2, <3>3
      <4> QED BY <1>1, <1>2, <2>1, <3>1, <4>1
    <3> QED BY <2>2, <3>2, <3>3
  <2>3. CASE builder \notin {"discovery", "argus"}
    <3>1. Role(builder) # "argus"
      BY <2>3, RolesAre
    <3> QED BY <1>1, <1>2, <2>1, <2>3, <3>1
  <2> QED BY <2>2, <2>3
<1> QED BY <1>1, <1>2, <1>3, <1>4, <1>5 DEF Counted

\* No step gives a prompt a key of other content.
LEMMA KeyedStep == Current /\ Keyed /\ [Next]_vars => Keyed'
<1> SUFFICES ASSUME Current, Keyed, [Next]_vars PROVE Keyed'
  OBVIOUS
<1>1. Counted /\ DiscoveryFirst /\ Given
  BY DEF Keyed
<1>2. Typed'
  BY CurrentStep DEF Current
<1>3. ASSUME NEW builder \in Builders, node = builder, Send(builder),
             AppendTurns(builder),
             node' \in {"start", "discovery"} => builder = "discovery"
      PROVE  Keyed'
  <2>1. Given'
    BY <1>3, GivenGrows DEF AppendTurns
  <2>2. Counted' /\ (builder # "argus" => history'["argus"] = history["argus"])
    BY <1>1, <1>3, TurnsCount
  <2>3. DiscoveryFirst'
    BY <1>1, <1>3, <2>2 DEF DiscoveryFirst
  <2> QED BY <1>2, <2>1, <2>2, <2>3 DEF Keyed
<1>4. ASSUME NEW builder \in Builders, Malformed(builder) PROVE Keyed'
  BY <1>3, <1>4 DEF Malformed, Builders
<1>5. ASSUME NEW builder \in Builders, Continue(builder) PROVE Keyed'
  <2>1. node' \notin {"start", "discovery"}
    BY <1>5 DEF Continue, Successors, Builders
  <2> QED BY <1>3, <1>5, <2>1 DEF Continue, Answered
<1>6. ASSUME NEW builder \in Builders, Exhausted(builder) PROVE Keyed'
  <2>1. UNCHANGED <<history, history_turns>> /\ node' \in {"routing", "end"}
        /\ Send(builder) /\ node = builder
    BY <1>6 DEF Exhausted
  <2>2. Given'
    BY <2>1, GivenGrows
  <2> QED BY <1>1, <1>2, <2>1, <2>2 DEF Keyed, Counted, DiscoveryFirst
<1>7. ASSUME UNCHANGED <<history, history_turns, named>>,
             node' \in {"start", "discovery"} => node \in {"start", "discovery"}
      PROVE  Keyed'
  <2>1. Given'
    BY <1>1, <1>7 DEF Given, Before
  <2> QED BY <1>1, <1>2, <1>7, <2>1 DEF Keyed, Counted, DiscoveryFirst
<1>8. CASE Discover \/ Write \/ GatesPass \/ Route \/ Rollback
  BY <1>7, <1>8
  DEF Discover, Write, GatesPass, Route, Rollback, keyVars, textVars, callVars
<1>9. CASE UNCHANGED vars
  BY <1>7, <1>9 DEF vars, keyVars, textVars, callVars
<1> QED BY <1>4, <1>5, <1>6, <1>8, <1>9 DEF Next

\* No prompt has a key at first.
LEMMA KeyedInit == Init => Keyed
<1> SUFFICES ASSUME Init PROVE Keyed
  OBVIOUS
<1>1. Typed
  BY CurrentInit DEF Current
<1>2. /\ history = [builder \in Builders |-> 0] /\ named = {}
      /\ history_turns = [role \in Roles |-> 0]
  BY DEF Init
<1>3. {"discovery", "argus"} \subseteq Builders /\ "argus" \in Roles
      /\ \A builder \in Builders : Role(builder) \in Roles
  BY DEF Roles, Role, Builders
<1> QED BY <1>1, <1>2, <1>3 DEF Keyed, Counted, DiscoveryFirst, Given

(* However long the run, a history key names one prefix: discovery's keys  *)
(* stop where Argus's begin.                                               *)
THEOREM KeysNameOneHistory == Spec => []HistoryKeysAreUnique
<1>1. Keyed => HistoryKeysAreUnique
  <2> SUFFICES ASSUME Keyed, NEW a \in named, NEW b \in named, a[1] = b[1]
               PROVE  a = b
    BY DEF HistoryKeysAreUnique
  <2>1. Given /\ history \in [Builders -> Nat]
    BY DEF Keyed, Counted
  <2>2. PICK x \in Builders : \E length \in 1..history[x] :
          a = <<<<Role(x), length + Before(x)>>, x, length>>
    BY <2>1 DEF Given
  <2>3. PICK m \in 1..history[x] : a = <<<<Role(x), m + Before(x)>>, x, m>>
    BY <2>2
  <2>4. PICK y \in Builders : \E length \in 1..history[y] :
          b = <<<<Role(y), length + Before(y)>>, y, length>>
    BY <2>1 DEF Given
  <2>5. PICK n \in 1..history[y] : b = <<<<Role(y), n + Before(y)>>, y, n>>
    BY <2>4
  <2>6. Role(x) = Role(y) /\ m + Before(x) = n + Before(y)
    BY <2>3, <2>5
  <2>7. {"discovery", "argus"} \subseteq Builders /\ m \in Nat /\ n \in Nat
        /\ history["discovery"] \in Nat
    BY <2>1, <2>3, <2>5 DEF Builders
  <2>8. CASE x = y
    BY <2>1, <2>3, <2>5, <2>6, <2>7, <2>8 DEF Before
  <2>9. CASE x = "discovery" /\ y = "argus"
    BY <2>1, <2>3, <2>5, <2>6, <2>7, <2>9 DEF Before
  <2>10. CASE x = "argus" /\ y = "discovery"
    BY <2>1, <2>3, <2>5, <2>6, <2>7, <2>10 DEF Before
  <2>11. x = y \/ {x, y} = {"discovery", "argus"}
    BY <2>6, RolesAre
  <2> QED BY <2>8, <2>9, <2>10, <2>11
<1> QED BY <1>1, CurrentInit, CurrentStep, KeyedInit, KeyedStep, PTL DEF Spec
=============================================================================
