------------------------ MODULE RunLifecycleProperties ------------------------
(***************************************************************************)
(* What a run leaves behind, however it ends.                              *)
(***************************************************************************)
EXTENDS RunLifecycle, FiniteSets

Resources == {"log", "router", "docker", "pool", "containers"}

(* Every variable stays in its range; an exit code is there exactly when   *)
(* the process ended by itself.                                            *)
ProcessTypeOK ==
  /\ phase \in ToSet(Phases) \cup {"unwind", "report", "finalize", "exited", "killed"}
  /\ ToSet(stack) \subseteq {"log", "run.end", "router", "docker", "pool"}
  /\ open \subseteq Resources
  /\ failed \subseteq {"router", "docker", "containers"}
  /\ ToSet(log) \subseteq {"run.start", "work", "run.end", "run.end.ok"}
  /\ verdict \in {Unset, "approve", "escalate"}
  /\ error \in {Unset, "exit_2", "error"}
  /\ cost \in BOOLEAN
  /\ squashed \in BOOLEAN
  /\ exit \in {Unset, 0, 1, 2}
  /\ phase = "exited" <=> exit # Unset

(* "A failure partway through must not strand the ones already up":        *)
(* whatever raised, once the process is past the stack nothing it acquired *)
(* is left but what its own teardown raised over, and then the run is an   *)
(* error: nothing is ever left behind a success.                           *)
NothingIsStranded ==
  phase \in {"report", "finalize", "exited"} =>
    open \subseteq failed /\ (failed # {} => error = "error")

\* Where the log ends.
Ended == {i \in DOMAIN log : log[i] \in {"run.end", "run.end.ok"}}

(* "RUN_END unwinds LAST, after every resource the caller adds later has   *)
(* already been released": a started run's log has one end, nothing after  *)
(* it, and when it is written only the log itself is still held.           *)
RunEndIsLast ==
  /\ Ended \subseteq {Len(log)}
  /\ Ended # {} => open \subseteq {"log"} \cup failed
  /\ phase = "exited" /\ log # <<>> => Ended # {}

(* Exit code 0 is earned: the change was approved and squashed, its cost   *)
(* is written, nothing raised on the way, and the log ends with an ok.     *)
ExitZeroIsEarned ==
  exit = 0 =>
    /\ verdict = "approve" /\ squashed /\ cost /\ error = Unset
    /\ Last(log) = "run.end.ok"
=============================================================================
