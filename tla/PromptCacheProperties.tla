------------------------ MODULE PromptCacheProperties -------------------------
(***************************************************************************)
(* What the cache keys promise about the layers they name.                 *)
(***************************************************************************)
EXTENDS PromptCache, Folds, Functions

Prompt == [map : Trees \cup {None}, tree : Trees, undone : BOOLEAN,
           key : Trees \cup {None}]

BuildersOf(role) == {builder \in Builders : Role(builder) = role}

(* Every variable stays in its range, and a role's turn counter is the     *)
(* total length of the histories its builders hold.                        *)
TypeOK ==
  /\ tree \in Trees
  /\ committed \in Trees
  /\ content_hash \in Trees \cup {None}
  /\ dirty \in BOOLEAN
  /\ history_turns \in [Roles -> 0..2 * MaxPrompts]
  /\ \A role \in Roles :
       history_turns[role] = FoldFunctionOnSet(+, 0, history, BuildersOf(role))
  /\ created \subseteq Builders
  /\ codebase \in [Builders -> Trees \cup {None}]
  /\ history \in [Builders -> 0..2 * MaxPrompts]
  /\ node \in Builders \cup {"start", "writing", "routing", "rollback", "end"}
  /\ attempt \in 0..1
  /\ prompts \in 0..MaxPrompts
  /\ sent \in Prompt \cup {None}
  /\ undone \in BOOLEAN
  /\ named \subseteq (Roles \X Nat) \X Builders \X Nat

(* "A stale codebase map served from cache is strictly worse than a cache  *)
(* miss": every prompt shows the worktree as it is when it is sent, the    *)
(* corrective retry included.                                              *)
MapIsCurrent ==
  sent # None /\ sent.map # None => sent.map = sent.tree

(* The key is never older than the last write the keyring was told of: as  *)
(* long as L3 has not rolled back since, the key names the map it is on.   *)
KeyFollowsWrites ==
  sent # None /\ ~sent.undone => sent.key = sent.map

(* A history key names one prefix: no key is given to two histories,       *)
(* although discovery's and Argus's builders share a role and its counter. *)
HistoryKeysAreUnique ==
  \A a, b \in named : a[1] = b[1] => a = b
=============================================================================
