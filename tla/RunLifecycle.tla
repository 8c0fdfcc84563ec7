----------------------------- MODULE RunLifecycle -----------------------------
(***************************************************************************)
(* One `xeno run` process from its first check to its exit code: cli.py's  *)
(* run with _start_run and _build_pool, the ExitStack that tears down what *)
(* was acquired, the events of core/runlog.py and the disposition after    *)
(* the graph.  Any step may raise, and the process may be killed.          *)
(***************************************************************************)
EXTENDS Naturals, SequencesExt

CONSTANT Unset   \* no error, verdict or exit code yet

ASSUME LifecycleAssumption ==
  Unset \notin {"exit_2", "error", "approve", "escalate", 0, 1, 2}

VARIABLES
  phase,     \* a phase, or how far the ending is
  stack,     \* callbacks on the ExitStack
  open,      \* what is acquired and not released
  failed,    \* what its own teardown failed to release
  log,       \* events.jsonl: starts, ends and the work between
  verdict,   \* final_state.review_verdict
  error,     \* what is unwinding the stack
  cost,      \* cost.json is written
  squashed,  \* the branch was squashed
  exit       \* the process's exit code

processVars == <<phase, stack, open, failed, log, verdict, error, cost, squashed, exit>>

\* The steps of run, in order.
Phases == <<"preflight", "open_log", "start_event", "router", "copy", "discover",
            "docker", "image", "pool", "fill", "seed", "graph">>

\* The teardown a phase registers once it is through.
Registers == [p \in ToSet(Phases) |->
  CASE p = "open_log"    -> <<"log">>
    [] p = "start_event" -> <<"run.end">>
    [] p = "router"      -> <<"router">>
    [] p = "docker"      -> <<"docker">>
    [] p = "pool"        -> <<"pool">>
    [] OTHER             -> <<>>]

\* The pool's teardown is registered only once the pool is filled.
Mutant_Registered(p) ==
  IF p = "fill" THEN <<"pool">> ELSE IF p = "pool" THEN <<>> ELSE Registers[p]

Registered(p) == Registers[p]

\* What a phase takes hold of: fill starts containers one by one.
Acquired(p) ==
  CASE p \in {"open_log", "router", "docker", "pool"} -> ToSet(Registers[p])
    [] p = "fill" -> {"containers"}
    [] OTHER      -> {}

\* What a teardown lets go of: shutdown drains the pool.
Releases(callback) ==
  IF callback = "pool" THEN {"pool", "containers"} ELSE {callback}

Running == phase \in ToSet(Phases)

Following(i) == IF i = Len(Phases) THEN "unwind" ELSE Phases[i + 1]

-----------------------------------------------------------------------------
\* A phase goes through.
GoOn ==
  /\ \E i \in DOMAIN Phases : phase = Phases[i] /\ phase' = Following(i)
  /\ stack' = stack \o Registered(phase)
  /\ open' = open \cup Acquired(phase)
  /\ log' = CASE phase = "start_event" -> Append(log, "run.start")
              [] phase = "graph"       -> Append(log, "work")
              [] OTHER              -> log
  /\ verdict' \in IF phase = "graph" THEN {"approve", "escalate"} ELSE {verdict}
  /\ UNCHANGED <<failed, error, cost, squashed, exit>>

\* Missing git, a DiscoveryError and a missing --file are exit code 2.
SetupErrors == {"preflight", "discover", "seed"}

\* A phase raises.  A failing fill has started some containers; a failing
\* graph has logged some work.
Raise ==
  /\ Running
  /\ error' \in {"error"} \cup (IF phase \in SetupErrors THEN {"exit_2"} ELSE {})
  /\ phase' = "unwind"
  /\ open' \in {open} \cup (IF phase = "fill" THEN {open \cup {"containers"}} ELSE {})
  /\ log' \in {log} \cup (IF phase = "graph" THEN {Append(log, "work")} ELSE {})
  /\ UNCHANGED <<stack, failed, verdict, cost, squashed, exit>>

\* Callbacks run in the order they were registered.
Mutant_Top == 1

\* Callbacks run last in, first out.
Top == Len(stack)

\* The callback that logs RUN_END is one of the stack.  Closing the router
\* or the Docker client may raise, and so may shutdown() in the midst of its
\* draining (WarmPool): that replaces the error, and the stack goes on.
Call(callback) ==
  \/ /\ callback = "run.end"
     /\ log' = Append(log, IF verdict = "approve" THEN "run.end.ok" ELSE "run.end")
     /\ UNCHANGED <<open, failed, error>>
  \/ /\ callback # "run.end"
     /\ open' = open \ Releases(callback)
     /\ UNCHANGED <<log, failed, error>>
  \/ /\ callback \in {"router", "docker"}
     /\ failed' = failed \cup {callback}
     /\ error' = "error"
     /\ UNCHANGED <<log, open>>
  \/ /\ callback = "pool" /\ "containers" \in open
     /\ open' = open \ {"pool"}
     /\ failed' = failed \cup {"containers"}
     /\ error' = "error"
     /\ UNCHANGED log

Unwind ==
  /\ phase = "unwind"
  /\ stack # <<>>
  /\ Call(stack[Top])
  /\ stack' = RemoveAt(stack, Top)
  /\ UNCHANGED <<phase, verdict, cost, squashed, exit>>

Exit(code) == phase' = "exited" /\ exit' = code

\* The with block is over: an error ends the process.
Unwound ==
  /\ phase = "unwind"
  /\ stack = <<>>
  /\ \/ error # Unset /\ Exit(IF error = "exit_2" THEN 2 ELSE 1)
     \/ error = Unset /\ phase' = "report" /\ UNCHANGED exit
  /\ UNCHANGED <<stack, open, failed, log, verdict, error, cost, squashed>>

\* The summary is printed and the ledger written.
Summarise ==
  /\ phase = "report"
  /\ \/ cost' = TRUE /\ phase' = "finalize" /\ UNCHANGED exit
     \/ Exit(1) /\ UNCHANGED cost
  /\ UNCHANGED <<stack, open, failed, log, verdict, error, squashed>>

\* A declined approval exits as an approved one does.
Mutant_Finalize ==
  /\ phase = "finalize"
  /\ squashed' \in BOOLEAN
  /\ Exit(IF verdict = "approve" THEN 0 ELSE 1)
  /\ UNCHANGED <<stack, open, failed, log, verdict, error, cost>>

\* _finalize: 0 only when an approval was confirmed and squashed; 1 when it
\* was declined, escalated, or git raised before or after its commit.
Finalize ==
  /\ phase = "finalize"
  /\ \/ verdict = "approve" /\ squashed' = TRUE /\ \E code \in {0, 1} : Exit(code)
     \/ UNCHANGED squashed /\ Exit(1)
  /\ UNCHANGED <<stack, open, failed, log, verdict, error, cost>>

\* SIGKILL or a crash of the host: nothing is torn down.
Kill ==
  /\ phase \notin {"exited", "killed"}
  /\ phase' = "killed"
  /\ UNCHANGED <<stack, open, failed, log, verdict, error, cost, squashed, exit>>

ProcessInit ==
  /\ phase = "preflight"
  /\ stack = <<>>
  /\ open = {}
  /\ failed = {}
  /\ log = <<>>
  /\ verdict = Unset
  /\ error = Unset
  /\ cost = FALSE
  /\ squashed = FALSE
  /\ exit = Unset

ProcessNext ==
  \/ GoOn
  \/ Raise
  \/ Unwind
  \/ Unwound
  \/ Summarise
  \/ Finalize
  \/ Kill

ProcessSpec == ProcessInit /\ [][ProcessNext]_processVars
=============================================================================
