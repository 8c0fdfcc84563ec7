------------------------------- MODULE WarmPool -------------------------------
(***************************************************************************)
(* The pool of pre-started containers (sandbox/pool.py).  The main thread  *)
(* fills the pool, acquires one container per evaluation (graph/talos.py), *)
(* releases it, and shuts the pool down when the run ends or fails         *)
(* (cli.py's ExitStack).  A released container is destroyed and replaced   *)
(* by a task of the replenisher's executor, on a worker thread.            *)
(*                                                                         *)
(* A thread is interrupted only between Docker commands, queue operations  *)
(* and reads of `_closed`; each of these is one step.  Faults names what   *)
(* may fail: a command that Docker's daemon answers with an error, or the  *)
(* "transport" to the daemon, which times out or breaks whatever became of *)
(* the command (requests' errors, which are no DockerException).           *)
(***************************************************************************)
EXTENDS Integers, Sequences, FiniteSets

CONSTANTS
  Main,            \* the thread of `xeno run`
  Workers,         \* the executor's threads: max(1, warm_pool_size)
  Size,            \* sandbox.warm_pool_size
  Faults,          \* subset of {"create", "start", "remove", "transport"}
  MaxEvaluations,  \* bound on the evaluations of a run
  MaxContainers,   \* bound on the containers it numbers
  None

ASSUME PoolAssumption ==
  /\ IsFiniteSet(Workers) /\ Workers # {} /\ Main \notin Workers
  /\ Size \in Nat
  /\ Faults \subseteq {"create", "start", "remove", "transport"}
  /\ MaxEvaluations \in Nat /\ MaxContainers \in Nat
  /\ None \notin Nat

Threads == Workers \cup {Main}

Containers == 1..MaxContainers

VARIABLES
  pc,           \* what each thread does next
  mine,         \* the container a thread holds, or None
  status,       \* "absent", "created", "running" or "gone"
  counter,      \* _counter: containers numbered so far
  ready,        \* _ready: the queue of running containers
  tasks,        \* the executor's queue of released containers
  closed,       \* _closed
  filled,       \* containers fill() has put so far
  evaluations,  \* evaluations started
  handed,       \* history: containers handed to an evaluation
  abandoned,    \* history: containers left with Docker by a command that failed
  growth        \* history: cold creates less replacements not made

vars == <<pc, mine, status, counter, ready, tasks, closed, filled,
          evaluations, handed, abandoned, growth>>

Goto(thread, label) == pc' = [pc EXCEPT ![thread] = label]

Filling == filled < Size

MayFail(command) == Faults \cap {command, "transport"} # {}

\* What a command that raised may have left with Docker.
LeftBehind(container) ==
  /\ abandoned' = abandoned \cup {container}
  /\ UNCHANGED status

-----------------------------------------------------------------------------
(* _create_one, by the main thread (fill, or acquire's cold fallback) or   *)
(* by a worker.                                                            *)

\* An error in the main thread unwinds to shutdown; a worker logs it.
Fail(thread) ==
  /\ Goto(thread, IF thread = Main THEN "closing" ELSE "idle")
  /\ mine' = [mine EXCEPT ![thread] = None]
  /\ growth' = IF thread = Main THEN growth ELSE growth - 1

Create(thread) ==
  /\ pc[thread] = "creating"
  /\ counter < MaxContainers
  /\ counter' = counter + 1
  /\ \/ /\ status' = [status EXCEPT ![counter + 1] = "created"]
        /\ mine' = [mine EXCEPT ![thread] = counter + 1]
        /\ Goto(thread, "starting")
        /\ UNCHANGED <<growth, abandoned>>
     \/ MayFail("create") /\ Fail(thread) /\ UNCHANGED <<status, abandoned>>
     \/ "transport" \in Faults /\ Fail(thread) /\ LeftBehind(counter + 1)
  /\ UNCHANGED <<ready, tasks, closed, filled, evaluations, handed>>

Put(thread) ==
  /\ ready' = Append(ready, mine[thread])
  /\ mine' = [mine EXCEPT ![thread] = None]
  /\ UNCHANGED <<handed, growth>>

\* What the started container is for: the pool, or the waiting evaluation.
Deliver(thread) ==
  \/ /\ thread # Main
     /\ Put(thread)
     /\ Goto(thread, "idle")
     /\ UNCHANGED filled
  \/ /\ thread = Main /\ Filling
     /\ Put(thread)
     /\ filled' = filled + 1
     /\ Goto(Main, IF filled + 1 = Size THEN "idle" ELSE "creating")
  \/ /\ thread = Main /\ ~Filling
     /\ handed' = handed \cup {mine[Main]}
     /\ growth' = growth + 1
     /\ Goto(Main, "using")
     /\ UNCHANGED <<ready, mine, filled>>

Start(thread) ==
  /\ pc[thread] = "starting"
  /\ \/ /\ status' = [status EXCEPT ![mine[thread]] = "running"]
        /\ Deliver(thread)
        /\ UNCHANGED abandoned
     \/ /\ MayFail("start")
        /\ Fail(thread)
        /\ LeftBehind(mine[thread])
        /\ UNCHANGED <<ready, filled, handed>>
  /\ UNCHANGED <<counter, tasks, closed, evaluations>>

Removed(container) ==
  /\ status' = [status EXCEPT ![container] = "gone"]
  /\ UNCHANGED abandoned

\* _destroy returns: an error the daemon answers with is suppressed.
Destroy(container) ==
  \/ Removed(container)
  \/ "remove" \in Faults /\ LeftBehind(container)

\* _destroy raises: the transport's errors are not suppressed, whether the
\* daemon removed the container or not.
DestroyRaises(container) ==
  /\ "transport" \in Faults
  /\ Removed(container) \/ LeftBehind(container)

-----------------------------------------------------------------------------
(* The main thread.                                                        *)

BeginAcquire ==
  /\ pc[Main] = "idle"
  /\ evaluations < MaxEvaluations
  /\ evaluations' = evaluations + 1
  /\ Goto(Main, "acquiring")
  /\ UNCHANGED <<mine, status, counter, ready, tasks, closed, filled, handed,
                 abandoned, growth>>

TakeReady ==
  /\ pc[Main] = "acquiring"
  /\ ready # <<>>
  /\ mine' = [mine EXCEPT ![Main] = Head(ready)]
  /\ ready' = Tail(ready)
  /\ handed' = handed \cup {Head(ready)}
  /\ Goto(Main, "using")
  /\ UNCHANGED <<status, counter, tasks, closed, filled, evaluations,
                 abandoned, growth>>

\* The queue is waited on without a timeout.
Mutant_AcquireTimesOut == FALSE

\* Nothing came in 30 s: a cold container is made on the caller's time.
AcquireTimesOut ==
  /\ pc[Main] = "acquiring"
  /\ ready = <<>>
  /\ Goto(Main, "creating")
  /\ UNCHANGED <<mine, status, counter, ready, tasks, closed, filled,
                 evaluations, handed, abandoned, growth>>

\* The used container goes back to the queue instead of being destroyed.
Mutant_Release ==
  /\ pc[Main] = "using"
  /\ ready' = Append(ready, mine[Main])
  /\ mine' = [mine EXCEPT ![Main] = None]
  /\ Goto(Main, "idle")
  /\ UNCHANGED <<status, counter, tasks, closed, filled, evaluations, handed,
                 abandoned, growth>>

\* In a finally block: whatever the gates did.  (The branch for a closed
\* pool is not reachable from the one thread that closes it.)
Release ==
  /\ pc[Main] = "using"
  /\ tasks' = Append(tasks, mine[Main])
  /\ mine' = [mine EXCEPT ![Main] = None]
  /\ Goto(Main, "idle")
  /\ UNCHANGED <<status, counter, ready, closed, filled, evaluations, handed,
                 abandoned, growth>>

\* The graph returned, or raised.
EndRun ==
  /\ pc[Main] = "idle"
  /\ Goto(Main, "closing")
  /\ UNCHANGED <<mine, status, counter, ready, tasks, closed, filled,
                 evaluations, handed, abandoned, growth>>

Close ==
  /\ pc[Main] = "closing"
  /\ closed' = TRUE
  /\ Goto(Main, "joining")
  /\ UNCHANGED <<mine, status, counter, ready, tasks, filled, evaluations,
                 handed, abandoned, growth>>

\* shutdown(wait=True): queued tasks are run, and running ones finished.
Join ==
  /\ pc[Main] = "joining"
  /\ tasks = <<>>
  /\ \A worker \in Workers : pc[worker] = "idle"
  /\ Goto(Main, "draining")
  /\ UNCHANGED <<mine, status, counter, ready, tasks, closed, filled,
                 evaluations, handed, abandoned, growth>>

\* A removal that raises ends shutdown(): what is still ready stays.
Drain ==
  /\ pc[Main] = "draining"
  /\ ready # <<>>
  /\ ready' = Tail(ready)
  /\ \/ Destroy(Head(ready)) /\ UNCHANGED pc
     \/ DestroyRaises(Head(ready)) /\ Goto(Main, "closed")
  /\ UNCHANGED <<mine, counter, tasks, closed, filled, evaluations, handed,
                 growth>>

Finish ==
  /\ pc[Main] = "draining"
  /\ ready = <<>>
  /\ Goto(Main, "closed")
  /\ UNCHANGED <<mine, status, counter, ready, tasks, closed, filled,
                 evaluations, handed, abandoned, growth>>

-----------------------------------------------------------------------------
(* A worker: _retire_and_replenish.                                        *)

\* A closed pool's executor abandons its queue.
Mutant_TakeTask(worker) ==
  /\ pc[worker] = "idle"
  /\ tasks # <<>>
  /\ ~closed
  /\ mine' = [mine EXCEPT ![worker] = Head(tasks)]
  /\ tasks' = Tail(tasks)
  /\ Goto(worker, "destroying")
  /\ UNCHANGED <<status, counter, ready, closed, filled, evaluations, handed,
                 abandoned, growth>>

TakeTask(worker) ==
  /\ pc[worker] = "idle"
  /\ tasks # <<>>
  /\ mine' = [mine EXCEPT ![worker] = Head(tasks)]
  /\ tasks' = Tail(tasks)
  /\ Goto(worker, "destroying")
  /\ UNCHANGED <<status, counter, ready, closed, filled, evaluations, handed,
                 abandoned, growth>>

\* A removal that raises ends the task before its try, in a future nobody
\* reads: no replacement is made, and nothing is logged.
Retire(worker) ==
  /\ pc[worker] = "destroying"
  /\ \/ Destroy(mine[worker]) /\ Goto(worker, "checking") /\ UNCHANGED growth
     \/ /\ DestroyRaises(mine[worker])
        /\ Goto(worker, "idle")
        /\ growth' = growth - 1
  /\ mine' = [mine EXCEPT ![worker] = None]
  /\ UNCHANGED <<counter, ready, tasks, closed, filled, evaluations, handed>>

\* Nothing is replaced: the pool shrinks with every evaluation.
Mutant_Check(worker) ==
  /\ pc[worker] = "checking"
  /\ Goto(worker, "idle")
  /\ UNCHANGED <<mine, status, counter, ready, tasks, closed, filled,
                 evaluations, handed, abandoned, growth>>

Check(worker) ==
  /\ pc[worker] = "checking"
  /\ Goto(worker, IF closed THEN "idle" ELSE "creating")
  /\ UNCHANGED <<mine, status, counter, ready, tasks, closed, filled,
                 evaluations, handed, abandoned, growth>>

-----------------------------------------------------------------------------
Init ==
  /\ pc = [thread \in Threads |->
             IF thread = Main /\ Size > 0 THEN "creating" ELSE "idle"]
  /\ mine = [thread \in Threads |-> None]
  /\ status = [container \in Containers |-> "absent"]
  /\ counter = 0
  /\ ready = <<>>
  /\ tasks = <<>>
  /\ closed = FALSE
  /\ filled = 0
  /\ evaluations = 0
  /\ handed = {}
  /\ abandoned = {}
  /\ growth = 0

MainStep ==
  \/ Create(Main)
  \/ Start(Main)
  \/ BeginAcquire
  \/ TakeReady
  \/ AcquireTimesOut
  \/ Release
  \/ EndRun
  \/ Close
  \/ Join
  \/ Drain
  \/ Finish

WorkerStep(worker) ==
  \/ TakeTask(worker)
  \/ Retire(worker)
  \/ Check(worker)
  \/ Create(worker)
  \/ Start(worker)

Stopped == pc[Main] = "closed" /\ UNCHANGED vars

Next == MainStep \/ (\E worker \in Workers : WorkerStep(worker)) \/ Stopped

(* The operating system schedules every thread, Docker's commands and the  *)
(* gates return (the client and the gates have timeouts), and the queue's  *)
(* wait ends after 30 s.                                                   *)
Fairness ==
  /\ WF_vars(MainStep)
  /\ \A worker \in Workers : WF_vars(WorkerStep(worker))

Spec == Init /\ [][Next]_vars /\ Fairness
=============================================================================
