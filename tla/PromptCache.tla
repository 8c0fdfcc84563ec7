----------------------------- MODULE PromptCache ------------------------------
(***************************************************************************)
(* Prompt assembly and the cache keys of its layers over one run:          *)
(* prompt/keys.py (CacheKeyring) and prompt/assembly.py (PromptBuilder),   *)
(* with the calls every node makes on them (graph/nodeops.py, argus.py,    *)
(* daedalus.py, chiron.py, talos.py, adapters/discovery.py).               *)
(*                                                                         *)
(* A worktree is known by its content, a codebase map by the tree it was   *)
(* built from and a builder's history by its length: a builder has no      *)
(* operation that changes an earlier turn.  Which node runs next follows   *)
(* the edges of build.py; what makes it run is nondeterministic.           *)
(***************************************************************************)
EXTENDS Naturals, FiniteSets

CONSTANTS
  Trees,       \* contents of the worktree
  None,        \* no map, no hash, no prompt yet
  MaxPrompts   \* bound on the prompts of a run

ASSUME PromptCacheAssumption ==
  /\ None \notin Trees
  /\ MaxPrompts \in Nat

VARIABLES
  tree,          \* the worktree's content
  committed,     \* content of the last checkpoint
  content_hash,  \* CacheKeyring._content_hash, by the content it was taken of
  dirty,         \* CacheKeyring._dirty
  history_turns, \* CacheKeyring._history_turns
  created,       \* the builders made so far
  codebase,      \* PromptBuilder._codebase_text of each builder
  history,       \* length of PromptBuilder._history of each builder
  node,          \* whose turn it is
  attempt,       \* prompts this visit of the node has sent
  prompts,       \* prompts of the run
  sent,          \* history variable: the last prompt
  undone,        \* history variable: rolled back since the last marked write
  named          \* history variable: the history layers each key was given to

keyVars  == <<content_hash, dirty, history_turns>>
textVars == <<created, codebase, history>>
treeVars == <<tree, committed, undone>>
callVars == <<attempt, prompts, sent, named>>

vars == <<treeVars, keyVars, textVars, node, callVars>>

Builders == {"discovery", "argus", "odysseus", "daedalus", "chiron", "talos", "cerberus"}

\* Discovery and Argus's two jobs are all calls of NodeRole.RESEARCHER.
Role(builder) == IF builder = "discovery" THEN "argus" ELSE builder

Roles == {Role(builder) : builder \in Builders}

\* Odysseus and Cerberus carry no codebase map.
Mapped == Builders \ {"odysseus", "cerberus"}

-----------------------------------------------------------------------------
(* CacheKeyring.                                                           *)

ContentHash == IF dirty \/ content_hash = None THEN tree ELSE content_hash

\* The turn of the builder that asks.
Mutant_HistoryKey(builder) == <<Role(builder), history[builder]>>

HistoryKey(builder) == <<Role(builder), history_turns[Role(builder)]>>

-----------------------------------------------------------------------------
(* PromptBuilder.build, complete_with_format_retry.                        *)

\* The map is built once and kept.
Mutant_CodebaseMap(builder) ==
  IF builder \notin Mapped THEN None
  ELSE IF codebase[builder] = None THEN tree ELSE codebase[builder]

\* A node rebuilds its map before the first prompt of a visit.
CodebaseMap(builder) ==
  IF builder \notin Mapped THEN None
  ELSE IF attempt = 0 THEN tree ELSE codebase[builder]

\* The prompt is sent; its layers are named by the keys of this moment.
Send(builder) ==
  LET map == CodebaseMap(builder) IN
  /\ prompts < MaxPrompts
  /\ prompts' = prompts + 1
  /\ codebase' = [codebase EXCEPT ![builder] = map]
  /\ sent' = [map |-> map, tree |-> tree, undone |-> undone,
              key |-> IF map = None THEN None ELSE ContentHash]
  /\ IF map = None
     THEN UNCHANGED <<content_hash, dirty>>
     ELSE content_hash' = ContentHash /\ dirty' = FALSE
  /\ named' = IF history[builder] = 0 THEN named
              ELSE named \cup {<<HistoryKey(builder), builder, history[builder]>>}

\* Both turns are appended whether or not the answer parsed.
AppendTurns(builder) ==
  /\ history' = [history EXCEPT ![builder] = @ + 2]
  /\ history_turns' = [history_turns EXCEPT ![Role(builder)] = @ + 2]

\* MAX_FORMAT_ATTEMPTS; Argus's skeleton and Talos's triage ask once.
Malformed(builder) ==
  /\ node = builder
  /\ builder # "talos"
  /\ attempt = 0
  /\ Send(builder)
  /\ AppendTurns(builder)
  /\ attempt' = 1
  /\ UNCHANGED <<treeVars, created, node>>

\* The last answer of the visit: the node acts on it.
Answered(builder) ==
  /\ node = builder
  /\ Send(builder)
  /\ AppendTurns(builder)
  /\ attempt' = 0

\* The chain is exhausted: nothing is appended, and the run has nothing
\* left to send but for Talos, which does without its triage.
Exhausted(builder) ==
  /\ node = builder
  /\ Send(builder)
  /\ attempt' = 0
  /\ node' = IF builder = "talos" THEN "routing" ELSE "end"
  /\ UNCHANGED <<treeVars, history_turns, created, history>>

-----------------------------------------------------------------------------
(* What the nodes do with their answers, along the edges of build.py.       *)

Successors == [discovery |-> {"argus"}, odysseus |-> {"argus"},
               argus |-> {"odysseus", "daedalus", "chiron"},
               daedalus |-> {"writing"}, chiron |-> {"writing", "talos"},
               talos |-> {"routing"}, cerberus |-> {"argus", "odysseus"}]

\* An answer leads on, or ends the run (an objection, a verdict, an error).
Continue(builder) ==
  /\ Answered(builder)
  /\ node' \in Successors[builder] \cup {"end"}
  /\ created' = IF builder = "discovery" THEN Builders ELSE created
  /\ UNCHANGED treeVars

\* discover_toolchain finds its cache, or makes a builder to ask with; after
\* it build_graph makes the others.
Discover ==
  /\ node = "start"
  /\ \/ node' = "argus" /\ created' = Builders \ {"discovery"}
     \/ node' = "discovery" /\ created' = {"discovery"}
  /\ UNCHANGED <<treeVars, keyVars, codebase, history, callVars>>

\* Writes do not mark.
Mutant_Mark == UNCHANGED dirty

\* mark_worktree_written.
Mark == dirty' = TRUE

\* Daedalus's or Chiron's files reach the worktree and the keyring is told.
Write ==
  /\ node = "writing"
  /\ tree' \in Trees
  /\ Mark
  /\ undone' = FALSE
  /\ node' = "talos"
  /\ UNCHANGED <<committed, content_hash, history_turns, textVars, callVars>>

\* The gates pass without a prompt: checkpoint, then the next task or review.
GatesPass ==
  /\ node = "talos"
  /\ committed' = tree
  /\ node' \in {"argus", "cerberus"}
  /\ UNCHANGED <<tree, undone, keyVars, textVars, callVars>>

\* After a failure the ladder sends the run to the rung's node.
Route ==
  /\ node = "routing"
  /\ node' \in {"talos", "chiron", "argus", "rollback", "odysseus", "end"}
  /\ UNCHANGED <<treeVars, keyVars, textVars, callVars>>

\* rollback_step resets the files; the keyring is not told.
Rollback ==
  /\ node = "rollback"
  /\ tree' = committed
  /\ undone' = TRUE
  /\ node' = "daedalus"
  /\ UNCHANGED <<committed, keyVars, textVars, callVars>>

-----------------------------------------------------------------------------
Init ==
  /\ tree \in Trees
  /\ committed = tree
  /\ content_hash = None
  /\ dirty = TRUE
  /\ history_turns = [role \in Roles |-> 0]
  /\ created = {}
  /\ codebase = [builder \in Builders |-> None]
  /\ history = [builder \in Builders |-> 0]
  /\ node = "start"
  /\ attempt = 0
  /\ prompts = 0
  /\ sent = None
  /\ undone = FALSE
  /\ named = {}

Next ==
  \/ \E builder \in Builders :
       Malformed(builder) \/ Continue(builder) \/ Exhausted(builder)
  \/ Discover
  \/ Write
  \/ GatesPass
  \/ Route
  \/ Rollback

Spec == Init /\ [][Next]_vars
=============================================================================
