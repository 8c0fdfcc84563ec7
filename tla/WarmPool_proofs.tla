--------------------------- MODULE WarmPool_proofs ---------------------------
(***************************************************************************)
(* Proofs about what a run takes hold of and lets go of, in two parts.     *)
(*                                                                         *)
(* 1. WarmPool: for any number of workers, any pool size and whichever     *)
(*    Docker commands and connections may fail, every container has one    *)
(*    owner and one life, and the open pool keeps its size.                *)
(* 2. RunLifecycle: wherever the process raises, it leaves nothing behind  *)
(*    but what a teardown raised over, its log ends once and last, and     *)
(*    exit code 0 is earned.                                               *)
(***************************************************************************)
EXTENDS WarmPoolProperties, RunLifecycleProperties, FiniteSetTheorems, SequenceTheorems,
        TLAPS

-----------------------------------------------------------------------------
(***************************************************************************)
(* Part 1: WarmPool.                                                       *)
(***************************************************************************)

(* The containers in a queue, each there once.                             *)
Members(queue) == {queue[i] : i \in 1..Len(queue)}
Once(queue) == \A i, j \in 1..Len(queue) : queue[i] = queue[j] => i = j

(* Where a living container stands.                                        *)
Living(state) == {container \in Containers \ abandoned : status[container] = state}
Made  == Living("created") \ handed
Fresh == Living("running") \ handed
Spent == Living("running") \cap handed

Held == {mine[thread] : thread \in Threads}

-----------------------------------------------------------------------------
(* The inductive invariant.                                                *)

(* Who may be where, and who has a container in hand.                      *)
Roles ==
  /\ pc[Main] \in Labels \ {"destroying", "checking"}
  /\ \A worker \in Workers :
       pc[worker] \in {"idle", "destroying", "checking", "creating", "starting"}
  /\ \A thread \in Threads :
       mine[thread] # None <=> pc[thread] \in {"starting", "using", "destroying"}

(* What a container in some place has been through.                        *)
Kept ==
  /\ \A thread \in Threads : pc[thread] = "starting" => mine[thread] \in Made
  /\ \A thread \in Threads :
       pc[thread] \in {"using", "destroying"} => mine[thread] \in Spent
  /\ Members(ready) \subseteq Fresh
  /\ Members(tasks) \subseteq Spent

(* No container is in two places.                                          *)
Separate ==
  /\ \A thread, other \in Threads :
       thread # other /\ mine[thread] = mine[other] => mine[thread] = None
  /\ \A thread \in Threads : mine[thread] \notin Members(tasks)
  /\ Once(ready)
  /\ Once(tasks)

(* No living container is forgotten.                                       *)
Owned == Made \cup Fresh \cup Spent \subseteq Held \cup Members(ready) \cup Members(tasks)

(* A number that was not given out names nothing.                          *)
Unnumbered ==
  \A container \in Containers :
    container > counter =>
      status[container] = "absent" /\ container \notin handed \cup abandoned

(* The shutdown's order.                                                   *)
Shutdown ==
  /\ closed <=> pc[Main] \in {"joining", "draining", "closed"}
  /\ pc[Main] \in {"draining", "closed"} =>
       tasks = <<>> /\ \A worker \in Workers : pc[worker] = "idle"

Pool == TypeOK /\ Roles /\ Kept /\ Separate /\ Owned /\ Unnumbered /\ Shutdown

(* The pool's size, counted while it is filled and while it is in use.     *)
Sized ==
  /\ ~closed /\ Filling =>
       Len(ready) = filled /\ tasks = <<>> /\ Replacing = {} /\ growth = 0
  /\ pc[Main] \in {"idle", "acquiring", "using"} => ~Filling
  /\ ~Filling /\ pc[Main] \in {"idle", "acquiring", "using", "creating", "starting"} =>
       Len(ready) + Len(tasks) + Cardinality(Replacing)
         + (IF pc[Main] = "using" THEN 1 ELSE 0) = Size + growth
-----------------------------------------------------------------------------
(* Queues.                                                                 *)

(* What is put at the end of a queue is in it, once if it was not there.   *)
LEMMA PutMembers ==
  ASSUME NEW queue \in Seq(Containers), NEW container \in Containers
  PROVE  /\ Append(queue, container) \in Seq(Containers)
         /\ Members(Append(queue, container)) = Members(queue) \cup {container}
         /\ Once(queue) /\ container \notin Members(queue) =>
              Once(Append(queue, container))
<1> DEFINE longer == Append(queue, container)
<1>1. /\ longer \in Seq(Containers) /\ Len(longer) = Len(queue) + 1
      /\ Len(queue) \in Nat
      /\ \A i \in 1..Len(queue) : longer[i] = queue[i]
      /\ longer[Len(queue) + 1] = container
  OBVIOUS
<1> HIDE DEF longer
<1>2. Members(longer) = Members(queue) \cup {container}
  BY <1>1 DEF Members
<1>3. ASSUME Once(queue), container \notin Members(queue) PROVE Once(longer)
  BY <1>1, <1>3 DEF Once, Members
<1> QED BY <1>1, <1>2, <1>3 DEF longer

(* What is taken from the front is no longer in the queue.                 *)
LEMMA TakeMembers ==
  ASSUME NEW queue \in Seq(Containers), queue # <<>>, Once(queue)
  PROVE  /\ Head(queue) \in Containers /\ Head(queue) \in Members(queue)
         /\ Tail(queue) \in Seq(Containers)
         /\ Members(Tail(queue)) = Members(queue) \ {Head(queue)}
         /\ Once(Tail(queue))
<1> DEFINE shorter == Tail(queue)
<1>1. /\ shorter \in Seq(Containers) /\ Len(shorter) = Len(queue) - 1
      /\ Len(queue) \in Nat \ {0}
      /\ \A i \in 1..Len(queue) - 1 : shorter[i] = queue[i + 1]
      /\ Head(queue) = queue[1] /\ queue[1] \in Containers
  OBVIOUS
<1> HIDE DEF shorter
<1>2. Once(shorter)
  BY <1>1 DEF Once
<1>3. ASSUME NEW c \in Members(queue), c # queue[1] PROVE c \in Members(shorter)
  <2>1. PICK i \in 1..Len(queue) : queue[i] = c
    BY <1>3 DEF Members
  <2>2. i - 1 \in 1..Len(shorter) /\ shorter[i - 1] = c
    BY <1>1, <1>3, <2>1
  <2> QED BY <2>2 DEF Members
<1>4. ASSUME NEW c \in Members(shorter) PROVE c \in Members(queue) /\ c # queue[1]
  <2>1. PICK i \in 1..Len(shorter) : shorter[i] = c
    BY <1>4 DEF Members
  <2>2. i + 1 \in 1..Len(queue) /\ queue[i + 1] = c /\ i + 1 # 1 /\ 1 \in 1..Len(queue)
    BY <1>1, <2>1
  <2> QED BY <2>2 DEF Members, Once
<1>5. Members(shorter) = Members(queue) \ {queue[1]}
  BY <1>3, <1>4
<1>6. queue[1] \in Members(queue)
  BY <1>1 DEF Members
<1> QED BY <1>1, <1>2, <1>5, <1>6 DEF shorter

\* An empty queue holds nothing, once.
LEMMA EmptyMembers == Members(<<>>) = {} /\ Once(<<>>)
BY DEF Members, Once

-----------------------------------------------------------------------------
(* The initial state, and types.                                           *)
LEMMA PoolInit == Init => Pool
<1> SUFFICES ASSUME Init PROVE Pool
  OBVIOUS
<1> USE PoolAssumption DEF Init
<1>1. TypeOK
  <2>1. pc \in [Threads -> Labels] /\ mine \in [Threads -> Containers \cup {None}]
    BY DEF Labels
  <2>2. status \in [Containers -> {"absent", "created", "running", "gone"}]
    OBVIOUS
  <2>3. ready \in Seq(Containers) /\ tasks \in Seq(Containers)
    OBVIOUS
  <2>4. counter \in 0..MaxContainers /\ filled \in 0..Size /\ growth \in Int
        /\ evaluations \in 0..MaxEvaluations
    OBVIOUS
  <2> QED BY <2>1, <2>2, <2>3, <2>4 DEF TypeOK
<1>2. Roles
  BY DEF Roles, Labels, Threads
<1>3. ready = <<>> /\ tasks = <<>> /\ Members(<<>>) = {} /\ Once(<<>>)
  BY EmptyMembers
<1>4. Kept
  BY <1>3 DEF Kept, Threads
<1>5. Separate
  BY <1>3 DEF Separate, Threads
<1>6. Owned /\ Unnumbered /\ Shutdown
  BY DEF Owned, Made, Fresh, Spent, Living, Unnumbered, Shutdown, Threads
<1> QED BY <1>1, <1>2, <1>4, <1>5, <1>6 DEF Pool

\* A thread at work on a container has one.
LEMMA MineTyped ==
  ASSUME Pool, NEW thread \in Threads,
         pc[thread] \in {"starting", "using", "destroying"}
  PROVE  mine[thread] \in Containers
BY DEF Pool, TypeOK, Roles
(* A removal, whether it returns or raises, ends a container's life: it is *)
(* removed, or left behind.                                                *)
Ends(container) == Removed(container) \/ LeftBehind(container)

(* A removal and Fail leave the variables in their ranges.                 *)
LEMMA DestroyTyped ==
  ASSUME TypeOK, NEW container \in Containers, Ends(container)
  PROVE  /\ status' \in [Containers -> {"absent", "created", "running", "gone"}]
         /\ abandoned' \subseteq Containers
BY DEF TypeOK, Ends, Removed, LeftBehind

\* A failed step leaves the thread and its container typed.
LEMMA FailTyped ==
  ASSUME TypeOK, NEW thread \in Threads, Fail(thread)
  PROVE  /\ pc' \in [Threads -> Labels]
         /\ mine' \in [Threads -> Containers \cup {None}]
         /\ growth' \in Int
BY DEF TypeOK, Fail, Goto, Labels

\* So does handing over a started container.
LEMMA DeliverTyped ==
  ASSUME TypeOK, NEW thread \in Threads, mine[thread] \in Containers, Deliver(thread)
  PROVE  /\ pc' \in [Threads -> Labels]
         /\ mine' \in [Threads -> Containers \cup {None}]
         /\ ready' \in Seq(Containers)
         /\ filled' \in 0..Size /\ handed' \subseteq Containers /\ growth' \in Int
<1> USE PoolAssumption DEF TypeOK, Goto, Labels
<1>1. CASE thread # Main /\ Put(thread) /\ Goto(thread, "idle") /\ UNCHANGED filled
  <2>1. ready' \in Seq(Containers)
    BY <1>1, PutMembers DEF Put
  <2> QED BY <1>1, <2>1 DEF Put
<1>2. CASE /\ thread = Main /\ Filling /\ Put(thread) /\ filled' = filled + 1
           /\ Goto(Main, IF filled + 1 = Size THEN "idle" ELSE "creating")
  <2>1. ready' \in Seq(Containers)
    BY <1>2, PutMembers DEF Put
  <2>2. filled' \in 0..Size
    BY <1>2 DEF Filling
  <2>3. pc' \in [Threads -> Labels]
    BY <1>2
  <2> QED BY <1>2, <2>1, <2>2, <2>3 DEF Put
<1>3. CASE /\ thread = Main /\ ~Filling /\ handed' = handed \cup {mine[Main]}
           /\ growth' = growth + 1 /\ Goto(Main, "using")
           /\ UNCHANGED <<ready, mine, filled>>
  BY <1>3
<1> QED BY <1>1, <1>2, <1>3 DEF Deliver

\* No step leaves the types.
LEMMA TypeStep ==
  ASSUME Pool, [Next]_vars
  PROVE  TypeOK'
<1> USE PoolAssumption DEF Pool
<1>1. ASSUME NEW thread \in Threads, Create(thread) PROVE TypeOK'
  <2>1. /\ counter' \in 0..MaxContainers /\ counter + 1 \in Containers
        /\ UNCHANGED <<ready, tasks, closed, filled, evaluations, handed>>
    BY <1>1 DEF Create, TypeOK, Containers
  <2>2. CASE Fail(thread) /\ UNCHANGED status /\ abandoned' \subseteq Containers
    <3>1. pc' \in [Threads -> Labels] /\ growth' \in Int
          /\ mine' \in [Threads -> Containers \cup {None}]
      BY <2>2, FailTyped
    <3> QED BY <2>1, <2>2, <3>1 DEF TypeOK
  <2>3. CASE /\ status' = [status EXCEPT ![counter + 1] = "created"]
             /\ mine' = [mine EXCEPT ![thread] = counter + 1]
             /\ Goto(thread, "starting") /\ UNCHANGED <<growth, abandoned>>
    BY <2>1, <2>3 DEF TypeOK, Goto, Labels
  <2>4. UNCHANGED abandoned \/ LeftBehind(counter + 1) => abandoned' \subseteq Containers
    BY <2>1 DEF TypeOK, LeftBehind
  <2>5. CASE Fail(thread) /\ UNCHANGED <<status, abandoned>>
    BY <2>2, <2>4, <2>5
  <2>6. CASE Fail(thread) /\ LeftBehind(counter + 1)
    <3>1. UNCHANGED status
      BY <2>6 DEF LeftBehind
    <3> QED BY <2>2, <2>4, <2>6, <3>1
  <2> QED BY <1>1, <2>3, <2>5, <2>6 DEF Create
<1>2. ASSUME NEW thread \in Threads, Start(thread) PROVE TypeOK'
  <2>1. mine[thread] \in Containers
    BY <1>2, MineTyped DEF Start
  <2>2. UNCHANGED <<counter, tasks, closed, evaluations>>
    BY <1>2 DEF Start
  <2>3. CASE /\ status' = [status EXCEPT ![mine[thread]] = "running"]
             /\ Deliver(thread) /\ UNCHANGED abandoned
    <3>1. /\ pc' \in [Threads -> Labels]
          /\ mine' \in [Threads -> Containers \cup {None}]
          /\ ready' \in Seq(Containers)
          /\ filled' \in 0..Size /\ handed' \subseteq Containers /\ growth' \in Int
      BY <2>1, <2>3, DeliverTyped
    <3> QED BY <2>1, <2>2, <2>3, <3>1 DEF TypeOK
  <2>4. CASE /\ Fail(thread) /\ abandoned' = abandoned \cup {mine[thread]}
             /\ UNCHANGED <<status, ready, filled, handed>>
    <3>1. pc' \in [Threads -> Labels] /\ growth' \in Int
          /\ mine' \in [Threads -> Containers \cup {None}]
      BY <2>4, FailTyped
    <3> QED BY <2>1, <2>2, <2>4, <3>1 DEF TypeOK
  <2> QED BY <1>2, <2>3, <2>4 DEF Start, LeftBehind
<1>3. CASE BeginAcquire \/ AcquireTimesOut \/ EndRun \/ Close \/ Join \/ Finish
  <2> USE DEF BeginAcquire, AcquireTimesOut, EndRun, Close, Join, Finish
  <2>1. pc' \in [Threads -> Labels]
    BY <1>3 DEF Goto, Labels, TypeOK
  <2>2. evaluations' \in 0..MaxEvaluations
    BY <1>3 DEF TypeOK
  <2>3. closed' \in BOOLEAN
    BY <1>3 DEF TypeOK
  <2>4. UNCHANGED <<mine, status, counter, ready, tasks, filled, handed,
                    abandoned, growth>>
    BY <1>3
  <2> QED BY <2>1, <2>2, <2>3, <2>4 DEF TypeOK
<1>4. CASE TakeReady
  <2>1. Head(ready) \in Containers /\ Tail(ready) \in Seq(Containers)
    BY <1>4, TakeMembers DEF TakeReady, TypeOK, Separate
  <2> QED BY <1>4, <2>1 DEF TakeReady, Goto, Labels, TypeOK
<1>5. CASE Release
  <2>1. mine[Main] \in Containers
    BY <1>5, MineTyped DEF Release, Threads
  <2>2. tasks' \in Seq(Containers)
    BY <1>5, <2>1, PutMembers DEF Release, TypeOK
  <2> QED BY <1>5, <2>2 DEF Release, Goto, Labels, TypeOK
<1>6. CASE Drain
  <2>1. Head(ready) \in Containers /\ Tail(ready) \in Seq(Containers)
    BY <1>6, TakeMembers DEF Drain, TypeOK, Separate
  <2>2. /\ status' \in [Containers -> {"absent", "created", "running", "gone"}]
        /\ abandoned' \subseteq Containers
    BY <1>6, <2>1, DestroyTyped DEF Drain, Destroy, DestroyRaises, Ends
  <2>3. pc' \in [Threads -> Labels]
    BY <1>6 DEF Drain, Goto, Labels, TypeOK
  <2>4. UNCHANGED <<mine, counter, tasks, closed, filled, evaluations, handed, growth>>
    BY <1>6 DEF Drain
  <2>5. ready' \in Seq(Containers)
    BY <1>6, <2>1 DEF Drain
  <2> QED BY <2>2, <2>3, <2>4, <2>5 DEF TypeOK
<1>7. ASSUME NEW worker \in Workers, TakeTask(worker) PROVE TypeOK'
  <2>1. Head(tasks) \in Containers /\ Tail(tasks) \in Seq(Containers)
    BY <1>7, TakeMembers DEF TakeTask, TypeOK, Separate
  <2> QED BY <1>7, <2>1 DEF TakeTask, Goto, Labels, TypeOK
<1>8. ASSUME NEW worker \in Workers, Retire(worker) PROVE TypeOK'
  <2>1. mine[worker] \in Containers
    BY <1>8, MineTyped DEF Retire, Threads
  <2>2. /\ status' \in [Containers -> {"absent", "created", "running", "gone"}]
        /\ abandoned' \subseteq Containers
    BY <1>8, <2>1, DestroyTyped DEF Retire, Destroy, DestroyRaises, Ends
  <2>3. pc' \in [Threads -> Labels] /\ growth' \in Int
        /\ mine' \in [Threads -> Containers \cup {None}]
    <3>1. growth' \in Int
      BY <1>8 DEF Retire, TypeOK
    <3>2. mine' \in [Threads -> Containers \cup {None}]
      BY <1>8 DEF Retire, TypeOK
    <3>3. \E label \in {"idle", "checking"} : pc' = [pc EXCEPT ![worker] = label]
      BY <1>8 DEF Retire, Goto
    <3>4. pc' \in [Threads -> Labels]
      BY <3>3 DEF Labels, TypeOK
    <3> QED BY <3>1, <3>2, <3>4
  <2>4. UNCHANGED <<counter, ready, tasks, closed, filled, evaluations, handed>>
    BY <1>8 DEF Retire
  <2> QED BY <2>2, <2>3, <2>4 DEF TypeOK
<1>9. ASSUME NEW worker \in Workers, Check(worker) PROVE TypeOK'
  <2>1. pc' \in [Threads -> Labels]
    BY <1>9 DEF Check, Goto, Labels, TypeOK
  <2> QED BY <1>9, <2>1 DEF Check, TypeOK
<1>10. CASE UNCHANGED vars
  BY <1>10 DEF vars, TypeOK
<1> QED BY <1>1, <1>2, <1>3, <1>4, <1>5, <1>6, <1>7, <1>8, <1>9, <1>10
    DEF Next, MainStep, WorkerStep, Stopped, Threads
(* Only a thread in a step with a container has one in hand.               *)
LEMMA RolesStep ==
  ASSUME Pool, [Next]_vars
  PROVE  Roles'
<1> USE PoolAssumption DEF Threads
<1>1. TypeOK /\ Roles /\ None \notin Containers
  BY DEF Pool, Containers
<1>2. pc \in [Threads -> Labels] /\ mine \in [Threads -> Containers \cup {None}]
  BY <1>1 DEF TypeOK
<1>3. ASSUME NEW thread \in Threads, NEW label, NEW container,
             Goto(thread, label), mine' = [mine EXCEPT ![thread] = container],
             container # None <=> label \in {"starting", "using", "destroying"},
             thread = Main => label \in Labels \ {"destroying", "checking"},
             thread # Main =>
               label \in {"idle", "destroying", "checking", "creating", "starting"}
      PROVE  Roles'
  BY <1>1, <1>2, <1>3 DEF Roles, Goto
<1>4. ASSUME NEW thread \in Threads, NEW label,
             Goto(thread, label), UNCHANGED mine,
             mine[thread] # None <=> label \in {"starting", "using", "destroying"},
             thread = Main => label \in Labels \ {"destroying", "checking"},
             thread # Main =>
               label \in {"idle", "destroying", "checking", "creating", "starting"}
      PROVE  Roles'
  BY <1>1, <1>2, <1>4 DEF Roles, Goto
<1>5. ASSUME NEW thread \in Threads, Fail(thread) PROVE Roles'
  BY <1>3, <1>5 DEF Fail, Labels
<1>6. ASSUME NEW thread \in Threads, Create(thread) PROVE Roles'
  <2>1. counter + 1 # None
    BY <1>1 DEF TypeOK
  <2> QED BY <1>3, <1>5, <1>6, <2>1 DEF Create, Labels
<1>7. ASSUME NEW thread \in Threads, Start(thread) PROVE Roles'
  <2>1. mine[thread] # None
    BY <1>1, <1>7 DEF Start, Roles
  <2>2. CASE Deliver(thread)
    <3>1. CASE thread # Main /\ Put(thread) /\ Goto(thread, "idle")
      BY <1>3, <3>1 DEF Put
    <3>2. CASE /\ thread = Main /\ Put(thread)
               /\ Goto(Main, IF filled + 1 = Size THEN "idle" ELSE "creating")
      <4>1. PICK label \in {"idle", "creating"} : Goto(Main, label)
        BY <3>2
      <4> QED BY <1>3, <3>2, <4>1 DEF Put, Labels
    <3>3. CASE thread = Main /\ Goto(Main, "using") /\ UNCHANGED mine
      BY <1>4, <2>1, <3>3 DEF Labels
    <3> QED BY <2>2, <3>1, <3>2, <3>3 DEF Deliver
  <2> QED BY <1>5, <1>7, <2>2 DEF Start
<1>8. CASE BeginAcquire \/ AcquireTimesOut \/ EndRun \/ Close \/ Join \/ Finish
  <2> USE DEF BeginAcquire, AcquireTimesOut, EndRun, Close, Join, Finish
  <2>1. /\ mine[Main] = None /\ UNCHANGED mine
        /\ \E label \in {"acquiring", "creating", "closing", "joining", "draining",
                         "closed"} : Goto(Main, label)
    BY <1>1, <1>8 DEF Roles
  <2> QED BY <1>4, <2>1 DEF Labels
<1>9. CASE TakeReady
  <2>1. Head(ready) # None
    BY <1>1, <1>9, TakeMembers DEF TakeReady, TypeOK, Pool, Separate
  <2> QED BY <1>3, <1>9, <2>1 DEF TakeReady, Labels
<1>10. CASE Release
  BY <1>3, <1>10 DEF Release, Labels
<1>11. CASE Drain
  <2>1. CASE UNCHANGED pc
    BY <1>1, <1>11, <2>1 DEF Drain, Roles
  <2>2. CASE Goto(Main, "closed")
    <3>1. UNCHANGED mine /\ mine[Main] = None
      BY <1>1, <1>11 DEF Drain, Roles
    <3> QED BY <1>4, <2>2, <3>1 DEF Labels
  <2> QED BY <1>11, <2>1, <2>2 DEF Drain
<1>15. CASE UNCHANGED vars
  BY <1>1, <1>15 DEF vars, Roles
<1>12. ASSUME NEW worker \in Workers, TakeTask(worker) PROVE Roles'
  <2>1. Head(tasks) # None
    BY <1>1, <1>12, TakeMembers DEF TakeTask, TypeOK, Pool, Separate
  <2> QED BY <1>3, <1>12, <2>1 DEF TakeTask
<1>13. ASSUME NEW worker \in Workers, Retire(worker) PROVE Roles'
  <2>1. PICK label \in {"idle", "checking"} : Goto(worker, label)
    BY <1>13 DEF Retire
  <2> QED BY <1>3, <1>13, <2>1, PoolAssumption DEF Retire
<1>14. ASSUME NEW worker \in Workers, Check(worker) PROVE Roles'
  <2>1. PICK label \in {"idle", "creating"} : Goto(worker, label)
    BY <1>14 DEF Check
  <2> QED BY <1>1, <1>4, <1>14, <2>1 DEF Check, Roles
<1> QED BY <1>6, <1>7, <1>8, <1>9, <1>10, <1>11, <1>12, <1>13, <1>14, <1>15
    DEF Next, MainStep, WorkerStep, Stopped

(* Once the executor has stopped, no worker has a step left.               *)
LEMMA ShutdownStep ==
  ASSUME Pool, [Next]_vars
  PROVE  Shutdown'
<1> USE PoolAssumption DEF Threads
<1>1. TypeOK /\ Roles /\ Shutdown
  BY DEF Pool
<1>2. pc \in [Threads -> Labels]
  BY <1>1 DEF TypeOK
<1>3. CASE MainStep
  <2>1. CASE Create(Main)
    BY <1>1, <1>2, <2>1 DEF Create, Fail, Goto, Shutdown
  <2>2. CASE Start(Main)
    <3>1. /\ pc[Main] = "starting" /\ UNCHANGED closed
          /\ pc'[Main] \in {"using", "idle", "creating", "closing"}
      BY <1>2, <2>2 DEF Start, Fail, Deliver, Goto
    <3> QED BY <1>1, <3>1 DEF Shutdown
  <2>3. CASE BeginAcquire \/ TakeReady \/ AcquireTimesOut \/ Release \/ EndRun
    BY <1>1, <1>2, <2>3
    DEF BeginAcquire, TakeReady, AcquireTimesOut, Release, EndRun, Goto, Shutdown
  <2>4. CASE Close
    BY <1>1, <1>2, <2>4 DEF Close, Goto, Shutdown
  <2>5. CASE Join
    BY <1>1, <1>2, <2>5 DEF Join, Goto, Shutdown
  <2>6. CASE Drain \/ Finish
    BY <1>1, <1>2, <2>6 DEF Drain, Finish, Goto, Shutdown
  <2> QED BY <1>3, <2>1, <2>2, <2>3, <2>4, <2>5, <2>6 DEF MainStep
<1>4. ASSUME NEW worker \in Workers, WorkerStep(worker) PROVE Shutdown'
  <2>1. pc[Main] \notin {"draining", "closed"}
    BY <1>1, <1>4
    DEF Shutdown, WorkerStep, TakeTask, Retire, Check, Create, Start
  <2>2. UNCHANGED closed /\ pc'[Main] = pc[Main]
    BY <1>2, <1>4
    DEF WorkerStep, TakeTask, Retire, Check, Create, Start, Goto, Fail, Deliver, Put
  <2> QED BY <1>1, <2>1, <2>2 DEF Shutdown
<1>5. CASE UNCHANGED vars
  BY <1>1, <1>5 DEF vars, Shutdown
<1> QED BY <1>3, <1>4, <1>5 DEF Next, Stopped
-----------------------------------------------------------------------------
(* Containers change hands.                                                *)

Stock == Kept /\ Separate /\ Owned /\ Unnumbered

(* A step that moves no container.                                         *)
LEMMA QuietStep ==
  ASSUME Pool, Roles',
         UNCHANGED <<mine, status, counter, ready, tasks, handed, abandoned>>,
         \A thread \in Threads :
           pc'[thread] \in {"starting", "using", "destroying"} =>
             pc'[thread] = pc[thread]
  PROVE  Stock'
<1>1. Stock
  BY DEF Pool, Stock
<1>2. Made' = Made /\ Fresh' = Fresh /\ Spent' = Spent /\ Held' = Held
  BY DEF Made, Fresh, Spent, Living, Held
<1>3. Members(ready)' = Members(ready) /\ Members(tasks)' = Members(tasks)
  BY DEF Members
<1>4. Kept'
  BY <1>1, <1>2, <1>3 DEF Stock, Kept
<1>5. Separate' /\ Owned' /\ Unnumbered'
  BY <1>1, <1>2, <1>3 DEF Stock, Separate, Owned, Unnumbered, Once
<1> QED BY <1>4, <1>5 DEF Stock

(* What the owners tell of a container.                                    *)
LEMMA Places ==
  ASSUME Pool
  PROVE  /\ None \notin Containers
         /\ \A thread \in Threads : mine[thread] \in Made \cup Spent \cup {None}
         /\ Made \cap Fresh = {} /\ Made \cap Spent = {} /\ Fresh \cap Spent = {}
         /\ Made \cup Fresh \cup Spent \subseteq Containers
<1>1. None \notin Containers
  BY PoolAssumption DEF Containers
<1>2. \A thread \in Threads : mine[thread] \in Made \cup Spent \cup {None}
  BY DEF Pool, Roles, Kept
<1> QED BY <1>1, <1>2 DEF Made, Fresh, Spent, Living

\* Creating a container leaves every other one where it was.
LEMMA CreateStock ==
  ASSUME Pool, Roles', NEW thread \in Threads, Create(thread)
  PROVE  Stock'
<1>1. CASE /\ Fail(thread) /\ UNCHANGED status
           /\ UNCHANGED abandoned \/ abandoned' = abandoned \cup {counter + 1}
  <2>1. /\ counter \in Nat /\ counter' = counter + 1
        /\ UNCHANGED <<status, ready, tasks, handed>>
        /\ Goto(thread, IF thread = Main THEN "closing" ELSE "idle")
    BY <1>1 DEF Create, Fail, Pool, TypeOK
  <2>2. mine' = mine /\ pc \in [Threads -> Labels]
    BY <1>1 DEF Create, Fail, Pool, TypeOK, Roles
  <2>3. \A other \in Threads :
          pc'[other] \in {"starting", "using", "destroying"} => pc'[other] = pc[other]
    BY <2>1, <2>2 DEF Goto
  <2>4. Stock
    BY DEF Pool, Stock
  <2>10. counter + 1 \in Containers => status[counter + 1] = "absent"
    BY <2>1, <2>4 DEF Stock, Unnumbered, Containers
  <2>11. Living("created")' = Living("created") /\ Living("running")' = Living("running")
    BY <1>1, <2>1, <2>10 DEF Living
  <2>5. Made' = Made /\ Fresh' = Fresh /\ Spent' = Spent /\ Held' = Held
    BY <2>1, <2>2, <2>11 DEF Made, Fresh, Spent, Held
  <2>6. Members(ready)' = Members(ready) /\ Members(tasks)' = Members(tasks)
    BY <2>1 DEF Members
  <2>7. Kept'
    BY <2>2, <2>3, <2>4, <2>5, <2>6 DEF Stock, Kept
  <2>8. Separate' /\ Owned'
    BY <2>1, <2>2, <2>4, <2>5, <2>6 DEF Stock, Separate, Owned, Once
  <2>9. Unnumbered'
    BY <1>1, <2>1, <2>4 DEF Stock, Unnumbered, Containers
  <2> QED BY <2>7, <2>8, <2>9 DEF Stock
<1>2. CASE /\ status' = [status EXCEPT ![counter + 1] = "created"]
           /\ mine' = [mine EXCEPT ![thread] = counter + 1]
           /\ Goto(thread, "starting") /\ UNCHANGED abandoned
  <2> DEFINE new == counter + 1
  <2>1. /\ counter \in Nat /\ new \in Containers /\ new > counter
        /\ counter' = new /\ pc[thread] = "creating"
        /\ UNCHANGED <<ready, tasks, handed, abandoned>>
    BY <1>2, PoolAssumption DEF Create, Pool, TypeOK, Containers
  <2>2. status[new] = "absent" /\ new \notin handed \cup abandoned
    BY <2>1 DEF Pool, Unnumbered
  <2>3. /\ pc \in [Threads -> Labels] /\ mine \in [Threads -> Containers \cup {None}]
        /\ status \in [Containers -> {"absent", "created", "running", "gone"}]
    BY DEF Pool, TypeOK
  <2>4. /\ pc' = [pc EXCEPT ![thread] = "starting"]
        /\ mine' = [mine EXCEPT ![thread] = new]
        /\ status' = [status EXCEPT ![new] = "created"]
    BY <1>2 DEF Goto
  <2>5. mine[thread] = None
    BY <2>1 DEF Pool, Roles
  <2> HIDE DEF new
  <2>6. Made' = Made \cup {new} /\ Fresh' = Fresh /\ Spent' = Spent
    BY <2>1, <2>2, <2>3, <2>4 DEF Made, Fresh, Spent, Living
  <2>7. new \notin Made \cup Fresh \cup Spent
    BY <2>2 DEF Made, Fresh, Spent, Living
  <2>8. Members(ready)' = Members(ready) /\ Members(tasks)' = Members(tasks)
    BY <2>1 DEF Members
  <2>9. Kept'
    BY <2>3, <2>4, <2>6, <2>8 DEF Pool, Kept
  <2>10. Separate'
    <3>1. \A other \in Threads : mine[other] # new
      BY <2>1, <2>7, Places
    <3>2. Once(ready)' /\ Once(tasks)'
      BY <2>1 DEF Pool, Separate, Once
    <3>3. new \notin Members(tasks)
      BY <2>7 DEF Pool, Kept
    <3> QED BY <2>3, <2>4, <2>8, <3>1, <3>2, <3>3 DEF Pool, Separate
  <2>11. Owned'
    <3>1. (Held \ {None}) \cup {new} \subseteq Held'
      BY <2>3, <2>4, <2>5 DEF Held
    <3>2. None \notin Made \cup Fresh \cup Spent
      BY Places
    <3>3. Owned
      BY DEF Pool
    <3> QED BY <2>6, <2>8, <3>1, <3>2, <3>3 DEF Owned
  <2>12. Unnumbered'
    BY <2>1, <2>3, <2>4 DEF Pool, Unnumbered, Containers
  <2> QED BY <2>9, <2>10, <2>11, <2>12 DEF Stock
<1> QED BY <1>1, <1>2 DEF Create, LeftBehind
(* A started container goes to the queue or to the evaluation; one Docker  *)
(* failed to start is lost.                                                *)
LEMMA StartStock ==
  ASSUME Pool, Roles', NEW thread \in Threads, Start(thread)
  PROVE  Stock'
<1> DEFINE new == mine[thread]
<1>1. TypeOK /\ Kept /\ Separate /\ Owned /\ Unnumbered
  BY DEF Pool
<1>2. /\ pc \in [Threads -> Labels] /\ mine \in [Threads -> Containers \cup {None}]
      /\ status \in [Containers -> {"absent", "created", "running", "gone"}]
      /\ ready \in Seq(Containers)
  BY <1>1 DEF TypeOK
<1>3. /\ pc[thread] = "starting" /\ new \in Made /\ new \in Containers
      /\ new # None /\ UNCHANGED <<counter, tasks>>
  BY <1>1, Places DEF Start, Kept
<1>4. new \notin Fresh /\ new \notin Spent /\ new \notin Members(ready) /\ new \notin Members(tasks)
  BY <1>1, <1>3, Places DEF Kept
<1>5. new <= counter
  BY <1>1, <1>3 DEF Unnumbered, Made, Living, TypeOK, Containers
<1>6. \A other \in Threads \ {thread} : mine[other] # new
  BY <1>1, <1>3 DEF Separate
<1>7. Members(tasks)' = Members(tasks) /\ Once(tasks)'
  BY <1>1, <1>3 DEF Members, Separate, Once
<1>8. None \notin Made \cup Fresh \cup Spent
  BY Places
<1> HIDE DEF new
<1>9. CASE /\ status' = [status EXCEPT ![new] = "running"]
           /\ Put(thread) /\ UNCHANGED abandoned
           /\ \E label \in {"idle", "creating"} : Goto(thread, label)
  <2>1. /\ ready' = Append(ready, new) /\ UNCHANGED handed
        /\ mine' = [mine EXCEPT ![thread] = None]
    BY <1>9 DEF Put, new
  <2>2. PICK label \in {"idle", "creating"} : pc' = [pc EXCEPT ![thread] = label]
    BY <1>9 DEF Goto
  <2>3. Made' = Made \ {new} /\ Fresh' = Fresh \cup {new} /\ Spent' = Spent
    BY <1>2, <1>3, <1>9, <2>1 DEF Made, Fresh, Spent, Living
  <2>4. Members(ready)' = Members(ready) \cup {new} /\ Once(ready)'
    <3>1. Once(ready)
      BY <1>1 DEF Separate
    <3>2. /\ Members(Append(ready, new)) = Members(ready) \cup {new}
          /\ Once(Append(ready, new))
      BY <1>2, <1>3, <1>4, <3>1, PutMembers
    <3> QED BY <2>1, <3>2 DEF Members, Once
  <2>5. Kept'
    BY <1>1, <1>2, <1>3, <1>6, <1>7, <2>1, <2>2, <2>3, <2>4 DEF Kept
  <2>6. Separate'
    BY <1>1, <1>2, <1>3, <1>6, <1>7, <1>8, <2>1, <2>4, Places DEF Separate, Kept
  <2>7. Owned'
    <3>1. Held \ {new} \subseteq Held'
      BY <1>2, <1>3, <2>1 DEF Held, new
    <3> QED BY <1>1, <1>7, <2>3, <2>4, <3>1 DEF Owned
  <2>8. Unnumbered'
    BY <1>1, <1>2, <1>3, <1>5, <1>9, <2>1 DEF Unnumbered, Containers, TypeOK
  <2> QED BY <2>5, <2>6, <2>7, <2>8 DEF Stock
<1>10. CASE /\ status' = [status EXCEPT ![new] = "running"]
            /\ thread = Main /\ handed' = handed \cup {new} /\ Goto(thread, "using")
            /\ UNCHANGED <<ready, mine, abandoned>>
  <2>1. pc' = [pc EXCEPT ![thread] = "using"]
    BY <1>10 DEF Goto
  <2>2. Made' = Made \ {new} /\ Fresh' = Fresh /\ Spent' = Spent \cup {new}
    BY <1>2, <1>3, <1>10 DEF Made, Fresh, Spent, Living
  <2>3. Members(ready)' = Members(ready) /\ Once(ready)' /\ Held' = Held
    BY <1>1, <1>10 DEF Members, Separate, Once, Held
  <2>4. Kept'
    BY <1>1, <1>2, <1>3, <1>6, <1>7, <1>10, <2>1, <2>2, <2>3 DEF Kept, new
  <2>5. Separate'
    BY <1>1, <1>7, <1>10, <2>3 DEF Separate
  <2>6. Owned'
    BY <1>1, <1>7, <2>2, <2>3 DEF Owned, Held, new
  <2>7. Unnumbered'
    BY <1>1, <1>2, <1>3, <1>5, <1>10 DEF Unnumbered, Containers, TypeOK
  <2> QED BY <2>4, <2>5, <2>6, <2>7 DEF Stock
<1>11. CASE /\ Fail(thread) /\ abandoned' = abandoned \cup {new}
            /\ UNCHANGED <<status, ready, handed>>
  <2>1. mine' = [mine EXCEPT ![thread] = None]
    BY <1>11 DEF Fail
  <2>2. PICK label \in {"idle", "closing"} : pc' = [pc EXCEPT ![thread] = label]
    BY <1>11 DEF Fail, Goto
  <2>3. Made' = Made \ {new} /\ Fresh' = Fresh /\ Spent' = Spent
    BY <1>2, <1>3, <1>4, <1>11 DEF Made, Fresh, Spent, Living
  <2>4. Members(ready)' = Members(ready) /\ Once(ready)'
    BY <1>1, <1>11 DEF Members, Separate, Once
  <2>5. Kept'
    BY <1>1, <1>2, <1>3, <1>6, <1>7, <2>1, <2>2, <2>3, <2>4 DEF Kept
  <2>6. Separate'
    BY <1>1, <1>2, <1>7, <1>8, <2>1, <2>4, Places DEF Separate, Kept
  <2>7. Owned'
    <3>1. Held \ {new} \subseteq Held'
      BY <1>2, <1>3, <2>1 DEF Held, new
    <3> QED BY <1>1, <1>4, <1>7, <2>3, <2>4, <3>1 DEF Owned
  <2>8. Unnumbered'
    BY <1>1, <1>3, <1>5, <1>11 DEF Unnumbered, Containers, TypeOK
  <2> QED BY <2>5, <2>6, <2>7, <2>8 DEF Stock
<1>12. CASE status' = [status EXCEPT ![mine[thread]] = "running"] /\ Deliver(thread)
            /\ UNCHANGED abandoned
  <2>1. CASE Put(thread) /\ \E label \in {"idle", "creating"} : Goto(thread, label)
    BY <1>9, <1>12, <2>1 DEF new
  <2>2. CASE thread = Main /\ handed' = handed \cup {mine[Main]} /\ Goto(Main, "using")
             /\ UNCHANGED <<ready, mine>>
    BY <1>10, <1>12, <2>2 DEF new
  <2> QED BY <1>12, <2>1, <2>2 DEF Deliver
<1>13. CASE /\ Fail(thread) /\ abandoned' = abandoned \cup {mine[thread]}
            /\ UNCHANGED <<status, ready, handed>>
  BY <1>11, <1>13 DEF new
<1> QED BY <1>12, <1>13 DEF Start, LeftBehind

\* Taking from the queue makes one container used, and only that one.
LEMMA TakeReadyStock ==
  ASSUME Pool, Roles', TakeReady
  PROVE  Stock'
<1> DEFINE first == Head(ready)
<1>1. TypeOK /\ Kept /\ Separate /\ Owned /\ Unnumbered /\ Roles
  BY DEF Pool
<1>2. /\ pc \in [Threads -> Labels] /\ mine \in [Threads -> Containers \cup {None}]
      /\ ready \in Seq(Containers) /\ Main \in Threads
  BY <1>1 DEF TypeOK, Threads
<1>3. /\ first \in Containers /\ first \in Members(ready)
      /\ Members(Tail(ready)) = Members(ready) \ {first} /\ Once(Tail(ready))
  BY <1>1, <1>2, TakeMembers DEF TakeReady, Separate
<1>4. /\ mine' = [mine EXCEPT ![Main] = first] /\ ready' = Tail(ready)
      /\ handed' = handed \cup {first} /\ pc' = [pc EXCEPT ![Main] = "using"]
      /\ UNCHANGED <<status, counter, tasks, abandoned>>
      /\ mine[Main] = None
  BY <1>1, <1>2 DEF TakeReady, Goto, Roles
<1> HIDE DEF first
<1>5. first \in Fresh /\ None \notin Made \cup Fresh \cup Spent
  BY <1>1, <1>3, Places DEF Kept
<1>6. Made' = Made /\ Fresh' = Fresh \ {first} /\ Spent' = Spent \cup {first}
  BY <1>4, <1>5 DEF Made, Fresh, Spent, Living
<1>7. Members(ready)' = Members(ready) \ {first} /\ Once(ready)'
  <2>1. ready' = Tail(ready)
    BY <1>4
  <2>2. Members(ready)' = Members(Tail(ready)) /\ (Once(ready)' <=> Once(Tail(ready)))
    BY <2>1 DEF Members, Once
  <2>3. QED
    BY <1>3, <2>2
<1>8. Members(tasks)' = Members(tasks) /\ Once(tasks)'
  BY <1>1, <1>4 DEF Members, Separate, Once
<1>9. first \notin Made /\ first \notin Spent /\ first # None
  BY <1>5, Places
<1>10. \A thread \in Threads : mine[thread] # first
  BY <1>9, Places
<1>11. Kept'
  BY <1>1, <1>2, <1>4, <1>6, <1>7, <1>8 DEF Kept
<1>12. first \notin Members(tasks)
  BY <1>1, <1>9 DEF Kept
<1>13. Separate'
  BY <1>1, <1>2, <1>4, <1>7, <1>8, <1>10, <1>12 DEF Separate
<1>14. Owned'
  <2>1. (Held \ {None}) \cup {first} \subseteq Held'
    BY <1>2, <1>4 DEF Held
  <2> QED BY <1>1, <1>5, <1>6, <1>7, <1>8, <2>1 DEF Owned
<1>15. Unnumbered'
  <2>1. status[first] = "running"
    BY <1>5 DEF Fresh, Living
  <2> QED BY <1>1, <1>4, <2>1 DEF Unnumbered
<1> QED BY <1>11, <1>13, <1>14, <1>15 DEF Stock

\* Releasing moves a used container to a cleanup task.
LEMMA ReleaseStock ==
  ASSUME Pool, Roles', Release
  PROVE  Stock'
<1> DEFINE used == mine[Main]
<1>1. TypeOK /\ Kept /\ Separate /\ Owned /\ Unnumbered
  BY DEF Pool
<1>2. /\ pc \in [Threads -> Labels] /\ mine \in [Threads -> Containers \cup {None}]
      /\ tasks \in Seq(Containers) /\ Main \in Threads
  BY <1>1 DEF TypeOK, Threads
<1>3. /\ used \in Spent /\ used \in Containers /\ used \notin Members(tasks)
      /\ \A other \in Threads \ {Main} : mine[other] # used
      /\ used # None /\ None \notin Containers
  BY <1>1, <1>2, Places DEF Release, Kept, Separate
<1>4. /\ Members(Append(tasks, used)) = Members(tasks) \cup {used}
      /\ Once(Append(tasks, used))
  BY <1>1, <1>2, <1>3, PutMembers DEF Separate
<1>5. /\ tasks' = Append(tasks, used) /\ mine' = [mine EXCEPT ![Main] = None]
      /\ pc' = [pc EXCEPT ![Main] = "idle"]
      /\ UNCHANGED <<status, counter, ready, handed, abandoned>>
  BY DEF Release, Goto
<1>6. Held \ {used} \subseteq Held'
  BY <1>2, <1>5 DEF Held
<1> HIDE DEF used
<1>7. Made' = Made /\ Fresh' = Fresh /\ Spent' = Spent
  BY <1>5 DEF Made, Fresh, Spent, Living
<1>8. Members(tasks)' = Members(tasks) \cup {used} /\ Once(tasks)'
  BY <1>4, <1>5 DEF Members, Once
<1>9. Members(ready)' = Members(ready) /\ Once(ready)'
  BY <1>1, <1>5 DEF Members, Separate, Once
<1>10. Kept'
  BY <1>1, <1>2, <1>3, <1>5, <1>7, <1>8, <1>9 DEF Kept
<1>11. Separate'
  <2>1. None \notin Members(tasks)'
    BY <1>1, <1>3, <1>8, Places DEF Kept
  <2> QED BY <1>1, <1>2, <1>3, <1>5, <1>8, <1>9, <2>1 DEF Separate
<1>12. Owned'
  BY <1>1, <1>6, <1>7, <1>8, <1>9 DEF Owned
<1>13. Unnumbered'
  BY <1>1, <1>5 DEF Unnumbered
<1> QED BY <1>10, <1>11, <1>12, <1>13 DEF Stock
(* The container destroyed, or lost, stands nowhere afterwards.            *)
LEMMA DestroyLeaves ==
  ASSUME TypeOK, NEW container \in Made \cup Fresh \cup Spent,
         Ends(container), UNCHANGED handed
  PROVE  /\ Made' = Made \ {container} /\ Fresh' = Fresh \ {container}
         /\ Spent' = Spent \ {container}
BY DEF TypeOK, Ends, Removed, LeftBehind, Made, Fresh, Spent, Living

\* Destroying a container leaves the numbers not given out unused.
LEMMA DestroyNumbered ==
  ASSUME Pool, NEW container \in Made \cup Fresh \cup Spent,
         Ends(container), UNCHANGED <<handed, counter>>
  PROVE  Unnumbered'
<1>1. TypeOK /\ Unnumbered
  BY DEF Pool
<1>2. ~(container > counter)
  BY <1>1 DEF Unnumbered, Made, Fresh, Spent, Living
<1> QED BY <1>1, <1>2 DEF Unnumbered, Ends, Removed, LeftBehind, TypeOK

\* Draining destroys queued containers and disturbs no other.
LEMMA DrainStock ==
  ASSUME Pool, Roles', Drain
  PROVE  Stock'
<1> DEFINE first == Head(ready)
<1>1. TypeOK /\ Kept /\ Separate /\ Owned
  BY DEF Pool
<1>2. /\ first \in Members(ready) /\ Once(Tail(ready))
      /\ Members(Tail(ready)) = Members(ready) \ {first}
  BY <1>1, TakeMembers DEF Drain, TypeOK, Separate
<1>3. /\ ready' = Tail(ready) /\ Ends(first)
      /\ UNCHANGED <<mine, counter, tasks, handed>>
      /\ UNCHANGED pc \/ pc' = [pc EXCEPT ![Main] = "closed"]
      /\ pc \in [Threads -> Labels]
  BY <1>1 DEF Drain, Destroy, DestroyRaises, Ends, Goto, TypeOK
<1> HIDE DEF first
<1>4. first \in Fresh /\ first \notin Made /\ first \notin Spent
  BY <1>1, <1>2, Places DEF Kept
<1>5. Made' = Made /\ Fresh' = Fresh \ {first} /\ Spent' = Spent
  <2>1. first \in Made \cup Fresh \cup Spent
    BY <1>4
  <2>2. /\ Made' = Made \ {first} /\ Fresh' = Fresh \ {first}
        /\ Spent' = Spent \ {first}
    BY <1>1, <1>3, <2>1, DestroyLeaves
  <2> QED BY <1>4, <2>2
<1>6. Unnumbered'
  BY <1>3, <1>4, DestroyNumbered
<1>7. /\ Members(ready)' = Members(ready) \ {first} /\ Once(ready)'
      /\ Members(tasks)' = Members(tasks) /\ Once(tasks)' /\ Held' = Held
  <2>1. Members(ready)' = Members(ready) \ {first} /\ Once(ready)'
    <3>1. Members(ready)' = Members(Tail(ready)) /\ (Once(ready)' <=> Once(Tail(ready)))
      BY <1>3 DEF Members, Once
    <3> QED BY <1>2, <3>1
  <2>2. Members(tasks)' = Members(tasks) /\ Once(tasks)'
    BY <1>1, <1>3 DEF Members, Once, Separate
  <2>3. Held' = Held
    BY <1>3 DEF Held
  <2> QED BY <2>1, <2>2, <2>3
<1>8. Kept'
  BY <1>1, <1>3, <1>5, <1>7 DEF Kept
<1>9. Separate'
  BY <1>1, <1>3, <1>7 DEF Separate
<1>10. Owned'
  <2>1. Made' \cup Fresh' \cup Spent' = (Made \cup Fresh \cup Spent) \ {first}
    BY <1>4, <1>5
  <2> QED BY <1>1, <1>7, <2>1 DEF Owned
<1> QED BY <1>6, <1>8, <1>9, <1>10 DEF Stock

\* A cleanup task hands its container to one worker.
LEMMA TakeTaskStock ==
  ASSUME Pool, Roles', NEW worker \in Workers, TakeTask(worker)
  PROVE  Stock'
<1> DEFINE first == Head(tasks)
<1>1. TypeOK /\ Kept /\ Separate /\ Owned /\ Unnumbered /\ Roles
  BY DEF Pool
<1>2. /\ pc \in [Threads -> Labels] /\ mine \in [Threads -> Containers \cup {None}]
      /\ tasks \in Seq(Containers) /\ worker \in Threads
  BY <1>1 DEF TypeOK, Threads
<1>3. /\ first \in Members(tasks) /\ Once(Tail(tasks))
      /\ Members(Tail(tasks)) = Members(tasks) \ {first}
  BY <1>1, <1>2, TakeMembers DEF TakeTask, Separate
<1>4. /\ mine' = [mine EXCEPT ![worker] = first] /\ tasks' = Tail(tasks)
      /\ pc' = [pc EXCEPT ![worker] = "destroying"]
      /\ UNCHANGED <<status, counter, ready, handed, abandoned>>
      /\ mine[worker] = None
  BY <1>1, <1>2 DEF TakeTask, Goto, Roles
<1>5. (Held \ {None}) \cup {first} \subseteq Held'
  BY <1>2, <1>4 DEF Held
<1> HIDE DEF first
<1>6. Made' = Made /\ Fresh' = Fresh /\ Spent' = Spent
  BY <1>4 DEF Made, Fresh, Spent, Living
<1>7. /\ first \in Spent /\ None \notin Made \cup Fresh \cup Spent
      /\ \A thread \in Threads : mine[thread] # first
  BY <1>1, <1>3, Places DEF Kept, Separate
<1>8. /\ Members(tasks)' = Members(tasks) \ {first} /\ Once(tasks)'
      /\ Members(ready)' = Members(ready) /\ Once(ready)'
  <2>1. tasks' = Tail(tasks) /\ ready' = ready
    BY <1>4
  <2>2. Members(tasks)' = Members(tasks) \ {first} /\ Once(tasks)'
    <3>1. Members(tasks)' = Members(Tail(tasks)) /\ (Once(tasks)' <=> Once(Tail(tasks)))
      BY <2>1 DEF Members, Once
    <3> QED BY <1>3, <3>1
  <2>3. Members(ready)' = Members(ready) /\ Once(ready)'
    BY <1>1, <2>1 DEF Members, Once, Separate
  <2>4. QED
    BY <2>2, <2>3
<1>9. Kept'
  BY <1>1, <1>2, <1>4, <1>6, <1>7, <1>8 DEF Kept
<1>10. Separate'
  BY <1>1, <1>2, <1>4, <1>7, <1>8 DEF Separate
<1>11. Owned'
  BY <1>1, <1>5, <1>6, <1>7, <1>8 DEF Owned
<1>12. Unnumbered'
  BY <1>1, <1>4 DEF Unnumbered
<1> QED BY <1>9, <1>10, <1>11, <1>12 DEF Stock

\* Retiring a container takes it out of the stock for good.
LEMMA RetireStock ==
  ASSUME Pool, Roles', NEW worker \in Workers, Retire(worker)
  PROVE  Stock'
<1> DEFINE used == mine[worker]
<1>1. TypeOK /\ Kept /\ Separate /\ Owned
  BY DEF Pool
<1>2. /\ pc \in [Threads -> Labels] /\ mine \in [Threads -> Containers \cup {None}]
      /\ worker \in Threads
  BY <1>1 DEF TypeOK, Threads
<1>3. /\ used \in Spent /\ used \notin Made /\ used \notin Fresh
      /\ used \notin Members(tasks) /\ used # None /\ None \notin Containers
      /\ \A other \in Threads \ {worker} : mine[other] # used
  BY <1>1, <1>2, Places DEF Retire, Kept, Separate
<1>4. /\ Ends(used) /\ mine' = [mine EXCEPT ![worker] = None]
      /\ \E label \in {"idle", "checking"} : pc' = [pc EXCEPT ![worker] = label]
      /\ UNCHANGED <<counter, ready, tasks, handed>>
  BY DEF Retire, Goto, Destroy, DestroyRaises, Ends
<1>5. Held \ {used} \subseteq Held'
  BY <1>2, <1>4 DEF Held
<1> HIDE DEF used
<1>6. Made' = Made /\ Fresh' = Fresh /\ Spent' = Spent \ {used}
  BY <1>1, <1>3, <1>4, DestroyLeaves
<1>7. Unnumbered'
  BY <1>3, <1>4, DestroyNumbered
<1>8. /\ Members(tasks)' = Members(tasks) /\ Once(tasks)'
      /\ Members(ready)' = Members(ready) /\ Once(ready)'
  BY <1>1, <1>4 DEF Members, Once, Separate
<1>9. Kept'
  BY <1>1, <1>2, <1>3, <1>4, <1>6, <1>8 DEF Kept
<1>10. Separate'
  <2>1. None \notin Members(tasks)
    BY <1>1, Places DEF Kept
  <2> QED BY <1>1, <1>2, <1>4, <1>8, <2>1 DEF Separate
<1>11. Owned'
  <2>1. used \notin Members(ready)
    BY <1>1, <1>3 DEF Kept
  <2>2. Made' \cup Fresh' \cup Spent' = (Made \cup Fresh \cup Spent) \ {used}
    BY <1>3, <1>6
  <2> QED BY <1>1, <1>5, <1>8, <2>1, <2>2 DEF Owned
<1> QED BY <1>7, <1>9, <1>10, <1>11 DEF Stock

\* The pool's invariant survives every step,
LEMMA PoolStep == Pool /\ [Next]_vars => Pool'
<1> SUFFICES ASSUME Pool, [Next]_vars PROVE Pool'
  OBVIOUS
<1>1. TypeOK' /\ Roles' /\ Shutdown'
  BY TypeStep, RolesStep, ShutdownStep
<1>2. pc \in [Threads -> Labels] /\ Main \in Threads /\ Workers \subseteq Threads
  BY DEF Pool, TypeOK, Threads
<1> SUFFICES Stock'
  BY <1>1 DEF Pool, Stock
<1>3. CASE BeginAcquire \/ AcquireTimesOut \/ EndRun \/ Close \/ Join \/ Finish
  <2> USE DEF BeginAcquire, AcquireTimesOut, EndRun, Close, Join, Finish
  <2>1. /\ UNCHANGED <<mine, status, counter, ready, tasks, handed, abandoned>>
        /\ \A thread \in Threads :
             pc'[thread] \in {"starting", "using", "destroying"} =>
               pc'[thread] = pc[thread]
    BY <1>2, <1>3 DEF Goto
  <2> QED BY <1>1, <2>1, QuietStep
<1>4. ASSUME NEW worker \in Workers, Check(worker) PROVE Stock'
  <2>1. /\ UNCHANGED <<mine, status, counter, ready, tasks, handed, abandoned>>
        /\ \A thread \in Threads :
             pc'[thread] \in {"starting", "using", "destroying"} =>
               pc'[thread] = pc[thread]
    BY <1>2, <1>4 DEF Check, Goto
  <2> QED BY <1>1, <2>1, QuietStep
<1>5. CASE UNCHANGED vars
  <2>1. UNCHANGED <<mine, status, counter, ready, tasks, handed, abandoned, pc>>
    BY <1>5 DEF vars
  <2> QED BY <1>1, <2>1, QuietStep
<1>6. ASSUME NEW thread \in Threads, Create(thread) \/ Start(thread) PROVE Stock'
  BY <1>1, <1>6, CreateStock, StartStock
<1>7. CASE TakeReady \/ Release \/ Drain
  BY <1>1, <1>7, TakeReadyStock, ReleaseStock, DrainStock
<1>8. ASSUME NEW worker \in Workers, TakeTask(worker) \/ Retire(worker) PROVE Stock'
  BY <1>1, <1>8, TakeTaskStock, RetireStock
<1> QED BY <1>2, <1>3, <1>4, <1>5, <1>6, <1>7, <1>8
    DEF Next, MainStep, WorkerStep, Stopped

\* and so holds in every state.
LEMMA AlwaysPool == Spec => []Pool
BY PoolInit, PoolStep, PTL DEF Spec

(* Every variable stays in its range, whatever the threads, the size and   *)
(* the faults; a container's number is never given out twice.              *)
THEOREM TypeCorrect == Spec => []TypeOK
<1>1. Pool => TypeOK
  BY DEF Pool
<1> QED BY <1>1, AlwaysPool, PTL
-----------------------------------------------------------------------------
(* The pool's size.                                                        *)

(* A worker that begins, or ends, a replacement.                           *)
LEMMA ReplacingMoves ==
  ASSUME Pool, NEW worker \in Workers, NEW label,
         pc' = [pc EXCEPT ![worker] = label]
  PROVE  /\ Cardinality(Replacing) \in Nat
         /\ pc[worker] = "idle" /\ label # "idle" =>
              Cardinality(Replacing)' = Cardinality(Replacing) + 1
         /\ pc[worker] # "idle" /\ label = "idle" =>
              Cardinality(Replacing)' = Cardinality(Replacing) - 1
         /\ pc[worker] # "idle" /\ label # "idle" => Replacing' = Replacing
<1>1. pc \in [Threads -> Labels] /\ worker \in Threads
  BY DEF Pool, TypeOK, Threads
<1>2. IsFiniteSet(Workers) /\ Replacing \subseteq Workers
  BY PoolAssumption DEF Replacing
<1>3. IsFiniteSet(Replacing)
  BY <1>2, FS_Subset
<1>4. Cardinality(Replacing) \in Nat
  BY <1>3, FS_CardinalityType
<1>5. CASE pc[worker] = "idle" /\ label # "idle"
  <2>1. Replacing' = Replacing \cup {worker} /\ worker \notin Replacing
    BY <1>1, <1>5, PoolAssumption DEF Replacing, Threads
  <2> QED BY <1>3, <1>4, <1>5, <2>1, FS_AddElement
<1>6. CASE pc[worker] # "idle" /\ label = "idle"
  <2>1. Replacing' = Replacing \ {worker} /\ worker \in Replacing
    BY <1>1, <1>6, PoolAssumption DEF Replacing, Threads
  <2> QED BY <1>3, <1>4, <1>6, <2>1, FS_RemoveElement
<1>7. CASE pc[worker] # "idle" /\ label # "idle"
  <2>1. Replacing' = Replacing
    BY <1>1, <1>7, PoolAssumption DEF Replacing, Threads
  <2> QED BY <1>4, <1>7, <2>1
<1> QED BY <1>4, <1>5, <1>6, <1>7

\* The main thread's moves change no replacement under way.
LEMMA ReplacingStays ==
  ASSUME Pool, NEW label, pc' = [pc EXCEPT ![Main] = label]
  PROVE  Replacing' = Replacing /\ Cardinality(Replacing) \in Nat
<1>1. Replacing' = Replacing
  BY PoolAssumption DEF Pool, TypeOK, Replacing, Threads
<1>2. IsFiniteSet(Replacing)
  BY PoolAssumption, FS_Subset DEF Replacing
<1> QED BY <1>1, <1>2, FS_CardinalityType

(* What the queues, the workers and the evaluation hold between them.      *)
Stocked == Len(ready) + Len(tasks) + Cardinality(Replacing)

(* A replacement goes through the pool without changing its size.          *)
LEMMA WorkerKeepsSize ==
  ASSUME Pool, NEW worker \in Workers, WorkerStep(worker)
  PROVE  /\ UNCHANGED <<filled, closed>> /\ pc'[Main] = pc[Main]
         /\ ~closed => Stocked' - growth' = Stocked - growth
         /\ tasks # <<>> \/ Replacing # {}
<1> USE PoolAssumption
<1>1. TypeOK /\ pc \in [Threads -> Labels] /\ ready \in Seq(Containers)
      /\ tasks \in Seq(Containers) /\ growth \in Int /\ worker \in Threads
      /\ Main \in Threads /\ worker # Main
  BY DEF Pool, TypeOK, Threads
<1>2. UNCHANGED <<filled, closed>> /\ pc'[Main] = pc[Main]
  BY <1>1
  DEF WorkerStep, TakeTask, Retire, Check, Create, Start, Goto, Fail, Deliver, Put
<1>3. tasks # <<>> \/ Replacing # {}
  BY DEF WorkerStep, TakeTask, Retire, Check, Create, Start, Replacing
<1>4. ASSUME ~closed PROVE Stocked' - growth' = Stocked - growth
  <2>1. CASE TakeTask(worker)
    <3>1. Len(tasks') = Len(tasks) - 1 /\ UNCHANGED <<ready, growth>>
      BY <1>1, <2>1 DEF TakeTask
    <3>2. Cardinality(Replacing)' = Cardinality(Replacing) + 1
          /\ Cardinality(Replacing) \in Nat
      <4>1. pc[worker] = "idle" /\ pc' = [pc EXCEPT ![worker] = "destroying"]
        BY <2>1 DEF TakeTask, Goto
      <4>2. /\ Cardinality(Replacing) \in Nat
            /\ pc[worker] = "idle" /\ "destroying" # "idle" =>
                 Cardinality(Replacing)' = Cardinality(Replacing) + 1
        BY <4>1, ReplacingMoves, Zenon
      <4> QED BY <4>1, <4>2
    <3> QED BY <1>1, <3>1, <3>2 DEF Stocked
  <2>2. ASSUME NEW label, label # "idle", pc[worker] # "idle",
               Goto(worker, label), UNCHANGED <<ready, tasks, growth>>
        PROVE  Stocked' - growth' = Stocked - growth
    <3>1. Replacing' = Replacing
      BY <2>2, ReplacingMoves DEF Goto
    <3> QED BY <2>2, <3>1 DEF Stocked
  <2>3. CASE Retire(worker)
    <3>1. UNCHANGED <<ready, tasks>> /\ pc[worker] = "destroying"
      BY <2>3 DEF Retire
    <3>2. CASE Goto(worker, "checking") /\ UNCHANGED growth
      BY <2>2, <3>1, <3>2
    <3>3. CASE growth' = growth - 1 /\ Goto(worker, "idle")
      <4>1. Cardinality(Replacing)' = Cardinality(Replacing) - 1
            /\ Cardinality(Replacing) \in Nat
        BY <3>1, <3>3, ReplacingMoves DEF Goto
      <4> QED BY <1>1, <3>1, <3>3, <4>1 DEF Stocked
    <3> QED BY <2>3, <3>2, <3>3 DEF Retire
  <2>4. CASE Check(worker)
    BY <1>4, <2>2, <2>4 DEF Check
  <2>5. ASSUME pc[worker] # "idle", Fail(worker), UNCHANGED <<ready, tasks>>
        PROVE  Stocked' - growth' = Stocked - growth
    <3>1. growth' = growth - 1 /\ Goto(worker, "idle")
      BY <1>1, <2>5 DEF Fail
    <3>2. Cardinality(Replacing)' = Cardinality(Replacing) - 1
          /\ Cardinality(Replacing) \in Nat
      BY <2>5, <3>1, ReplacingMoves DEF Goto
    <3> QED BY <1>1, <2>5, <3>1, <3>2 DEF Stocked
  <2>6. CASE Create(worker)
    BY <2>2, <2>5, <2>6 DEF Create
  <2>7. CASE Start(worker)
    <3>1. CASE Put(worker) /\ Goto(worker, "idle")
      <4>1. mine[worker] \in Containers
        BY <1>1, <2>7, MineTyped DEF Start
      <4>2. Len(ready') = Len(ready) + 1 /\ UNCHANGED <<tasks, growth>>
        BY <1>1, <2>7, <3>1, <4>1 DEF Put, Start
      <4>3. Cardinality(Replacing)' = Cardinality(Replacing) - 1
            /\ Cardinality(Replacing) \in Nat
        BY <2>7, <3>1, ReplacingMoves DEF Goto, Start
      <4> QED BY <1>1, <4>2, <4>3 DEF Stocked
    <3>2. CASE Fail(worker) /\ UNCHANGED ready
      BY <2>5, <2>7, <3>2 DEF Start
    <3> QED BY <1>1, <2>7, <3>1, <3>2 DEF Start, Deliver
  <2> QED BY <2>1, <2>3, <2>4, <2>6, <2>7 DEF WorkerStep
<1> QED BY <1>2, <1>3, <1>4
\* The count of containers survives every step.
LEMMA SizedStep == Pool /\ Sized /\ [Next]_vars => Sized'
<1> SUFFICES ASSUME Pool, Sized, [Next]_vars PROVE Sized'
  OBVIOUS
<1> USE PoolAssumption
<1>1. TypeOK /\ pc \in [Threads -> Labels] /\ ready \in Seq(Containers)
      /\ tasks \in Seq(Containers) /\ growth \in Int /\ filled \in 0..Size
      /\ Main \in Threads /\ Cardinality(Replacing) \in Nat
  <2>1. Cardinality(Replacing) \in Nat
    BY FS_Subset, FS_CardinalityType DEF Replacing
  <2> QED BY <2>1 DEF Pool, TypeOK, Threads
<1>2. ASSUME NEW worker \in Workers, WorkerStep(worker) PROVE Sized'
  <2>1. /\ UNCHANGED <<filled, closed>> /\ pc'[Main] = pc[Main]
        /\ ~closed => Stocked' - growth' = Stocked - growth
        /\ tasks # <<>> \/ Replacing # {}
    BY <1>2, WorkerKeepsSize
  <2>2. closed => pc[Main] \in {"joining", "draining", "closed"}
    BY DEF Pool, Shutdown
  <2>3. Cardinality(Replacing)' \in Nat
    BY FS_Subset, FS_CardinalityType DEF Replacing
  <2>4. TypeOK'
    BY TypeStep
  <2>5. Stocked \in Int /\ Stocked' \in Int /\ growth' \in Int
    BY <1>1, <2>3, <2>4 DEF Stocked, TypeOK
  <2>6. ~closed => ~Filling
    BY <1>1, <2>1 DEF Sized
  <2>7. CASE closed
    BY <2>1, <2>2, <2>7 DEF Sized
  <2>8. CASE ~closed
    <3>1. /\ ~Filling' /\ ~closed'
          /\ pc[Main] \in {"idle", "acquiring", "using", "creating", "starting"} =>
               Stocked + (IF pc[Main] = "using" THEN 1 ELSE 0) = Size + growth
      BY <2>1, <2>6, <2>8 DEF Sized, Filling, Stocked
    <3>2. pc'[Main] \in {"idle", "acquiring", "using", "creating", "starting"} =>
            Stocked' + (IF pc'[Main] = "using" THEN 1 ELSE 0) = Size + growth'
      <4> DEFINE serving == IF pc[Main] = "using" THEN 1 ELSE 0
      <4>1. serving \in Int
        OBVIOUS
      <4>2. ASSUME pc[Main] \in {"idle", "acquiring", "using", "creating", "starting"}
            PROVE  Stocked' + serving = Size + growth'
        <5> HIDE DEF serving
        <5>1. Stocked + serving = Size + growth
          BY <3>1, <4>2 DEF serving
        <5>2. Stocked' - growth' = Stocked - growth
          BY <2>1, <2>8
        <5>3. Size \in Int /\ growth \in Int
          BY <1>1
        <5>4. (Stocked - growth) + serving = Size
          BY <2>5, <4>1, <5>1, <5>3
        <5>5. (Stocked' - growth') + serving = Size
          BY <5>2, <5>4
        <5>6. PICK after \in Int, grown \in Int : after = Stocked' /\ grown = growth'
          BY <2>5
        <5>7. (after - grown) + serving = Size
          BY <5>5, <5>6
        <5>8. after + serving = Size + grown
          BY <4>1, <5>3, <5>7
        <5> QED BY <5>6, <5>8
      <4> QED BY <2>1, <4>2
    <3> QED BY <3>1, <3>2 DEF Sized, Stocked
  <2> QED BY <2>7, <2>8
<1>3. ASSUME NEW label, Goto(Main, label)
      PROVE  Replacing' = Replacing /\ pc'[Main] = label
  BY <1>1, <1>3, ReplacingStays DEF Goto
<1>4. CASE Create(Main)
  <2>1. /\ UNCHANGED <<ready, tasks, filled, closed, growth>>
        /\ pc[Main] = "creating"
        /\ \E label \in {"starting", "closing"} : Goto(Main, label)
    BY <1>1, <1>4 DEF Create, Fail
  <2>2. Replacing' = Replacing /\ pc'[Main] \in {"starting", "closing"}
    BY <1>3, <2>1
  <2> QED BY <1>1, <2>1, <2>2 DEF Sized, Filling
<1>5. CASE Start(Main)
  <2>1. UNCHANGED <<tasks, closed>> /\ pc[Main] = "starting"
    BY <1>5 DEF Start
  <2>2. CASE Fail(Main) /\ UNCHANGED <<ready, filled>>
    <3>1. Goto(Main, "closing") /\ UNCHANGED growth
      BY <1>1, <2>2 DEF Fail
    <3>2. Replacing' = Replacing /\ pc'[Main] = "closing"
      BY <1>3, <3>1
    <3> QED BY <1>1, <2>1, <2>2, <3>1, <3>2 DEF Sized, Filling
  <2>3. CASE /\ Filling /\ Put(Main) /\ filled' = filled + 1
             /\ Goto(Main, IF filled + 1 = Size THEN "idle" ELSE "creating")
    <3>1. mine[Main] \in Containers
      BY <1>1, <2>1, MineTyped
    <3>2. Len(ready') = Len(ready) + 1 /\ UNCHANGED growth
      BY <1>1, <2>3, <3>1 DEF Put
    <3>3. /\ Replacing' = Replacing
          /\ pc'[Main] = IF filled + 1 = Size THEN "idle" ELSE "creating"
      BY <1>3, <2>3
    <3>4. ~closed /\ Len(ready) = filled /\ tasks = <<>> /\ Replacing = {} /\ growth = 0
      BY <2>1, <2>3 DEF Pool, Shutdown, Sized
    <3>5. Cardinality({}) = 0
      BY FS_EmptySet
    <3>6. /\ Len(ready') = filled' /\ tasks' = <<>> /\ Replacing' = {} /\ growth' = 0
          /\ Len(tasks') = 0 /\ Cardinality(Replacing') = 0
          /\ filled' = filled + 1 /\ filled < Size
      BY <1>1, <2>1, <2>3, <3>2, <3>3, <3>4, <3>5 DEF Filling
    <3>7. CASE filled + 1 = Size
      BY <1>1, <3>3, <3>6, <3>7 DEF Sized, Filling
    <3>8. CASE filled + 1 # Size
      BY <1>1, <3>3, <3>6, <3>8 DEF Sized, Filling
    <3> QED BY <3>7, <3>8
  <2>4. CASE /\ ~Filling /\ growth' = growth + 1 /\ Goto(Main, "using")
             /\ UNCHANGED <<ready, filled>>
    <3>1. Replacing' = Replacing /\ pc'[Main] = "using"
      BY <1>3, <2>4
    <3> QED BY <1>1, <2>1, <2>4, <3>1 DEF Sized, Filling
  <2> QED BY <1>5, <2>1, <2>2, <2>3, <2>4 DEF Start, Deliver
<1>6. CASE BeginAcquire \/ AcquireTimesOut
  <2>1. /\ UNCHANGED <<ready, tasks, filled, closed, growth>>
        /\ pc[Main] \in {"idle", "acquiring"}
        /\ \E label \in {"acquiring", "creating"} : Goto(Main, label)
    BY <1>6 DEF BeginAcquire, AcquireTimesOut
  <2>2. Replacing' = Replacing /\ pc'[Main] \in {"acquiring", "creating"}
    BY <1>3, <2>1
  <2> QED BY <1>1, <2>1, <2>2 DEF Sized, Filling
<1>7. CASE TakeReady
  <2>1. /\ UNCHANGED <<tasks, filled, closed, growth>> /\ pc[Main] = "acquiring"
        /\ Len(ready') = Len(ready) - 1 /\ Goto(Main, "using")
    BY <1>1, <1>7 DEF TakeReady
  <2>2. Replacing' = Replacing /\ pc'[Main] = "using"
    BY <1>3, <2>1
  <2> QED BY <1>1, <2>1, <2>2 DEF Sized, Filling
<1>8. CASE Release
  <2>1. mine[Main] \in Containers
    BY <1>1, <1>8, MineTyped DEF Release
  <2>2. /\ UNCHANGED <<ready, filled, closed, growth>> /\ pc[Main] = "using"
        /\ Len(tasks') = Len(tasks) + 1 /\ Goto(Main, "idle")
    BY <1>1, <1>8, <2>1 DEF Release
  <2>3. Replacing' = Replacing /\ pc'[Main] = "idle"
    BY <1>3, <2>2
  <2> QED BY <1>1, <2>2, <2>3 DEF Sized, Filling
<1>9. CASE EndRun \/ Close \/ Join \/ Finish
  <2>1. /\ UNCHANGED <<ready, tasks, filled, growth>> /\ (closed => closed')
        /\ \E label \in {"closing", "joining", "draining", "closed"} : Goto(Main, label)
    BY <1>1, <1>9 DEF EndRun, Close, Join, Finish
  <2>2. /\ Replacing' = Replacing
        /\ pc'[Main] \in {"closing", "joining", "draining", "closed"}
    BY <1>3, <2>1
  <2> QED BY <1>1, <2>1, <2>2 DEF Sized, Filling
<1>10. CASE Drain
  <2>1. closed /\ closed' /\ pc[Main] = "draining"
    BY <1>1, <1>10 DEF Drain, Pool, Shutdown
  <2>2. pc'[Main] \in {"draining", "closed"}
    BY <1>1, <1>10, <2>1 DEF Drain, Goto
  <2> QED BY <2>1, <2>2 DEF Sized
<1>11. CASE UNCHANGED vars
  BY <1>11 DEF vars, Sized, Filling, Replacing
<1> QED BY <1>2, <1>4, <1>5, <1>6, <1>7, <1>8, <1>9, <1>10, <1>11
    DEF Next, MainStep, Stopped

(* With any number of workers and whatever Docker or the connection to it  *)
(* fails to do, the open pool is as large as it was filled, plus the cold  *)
(* fallbacks, less the replacements that failed or, behind a removal that  *)
(* raised, were never tried.                                               *)
THEOREM PoolIsRefilled == Spec => []PoolKeepsItsSize
<1>1. Init => Sized
  <2> SUFFICES ASSUME Init PROVE Sized
    OBVIOUS
  <2>1. Main \in Threads /\ Size \in Nat
    BY PoolAssumption DEF Threads
  <2>2. /\ pc[Main] = IF Size > 0 THEN "creating" ELSE "idle"
        /\ ready = <<>> /\ tasks = <<>> /\ filled = 0 /\ growth = 0
    BY <2>1 DEF Init
  <2>3. Replacing = {}
    BY PoolAssumption DEF Init, Replacing, Threads
  <2>4. Cardinality(Replacing) = 0 /\ Len(ready) = 0 /\ Len(tasks) = 0
    BY <2>2, <2>3, FS_EmptySet
  <2> QED BY <2>1, <2>2, <2>3, <2>4 DEF Sized, Filling
<1>2. Sized => PoolKeepsItsSize
  BY DEF Sized, PoolKeepsItsSize
<1> QED BY <1>1, <1>2, AlwaysPool, SizedStep, PTL DEF Spec
-----------------------------------------------------------------------------
(* The refinement.                                                         *)

(* What served an evaluation was running, and may be gone.                 *)
Served == \A container \in handed : status[container] \in {"running", "gone"}

\* A container handed out is never rebuilt.
LEMMA ServedStep == Pool /\ Served /\ [Next]_vars => Served'
<1> SUFFICES ASSUME Pool, Served, [Next]_vars PROVE Served'
  OBVIOUS
<1>1. TypeOK /\ Kept /\ Unnumbered /\ Separate
  BY DEF Pool
<1>2. /\ status \in [Containers -> {"absent", "created", "running", "gone"}]
      /\ handed \subseteq Containers
  BY <1>1 DEF TypeOK
<1>3. ASSUME NEW thread \in Threads, Create(thread) PROVE Served'
  <2>1. counter + 1 \in Containers /\ counter + 1 > counter /\ UNCHANGED handed
    BY <1>1, <1>3, PoolAssumption DEF Create, TypeOK, Containers
  <2>2. counter + 1 \notin handed
    BY <1>1, <2>1 DEF Unnumbered
  <2> QED BY <1>2, <1>3, <2>1, <2>2 DEF Create, LeftBehind, Served
<1>4. ASSUME NEW thread \in Threads, Start(thread) PROVE Served'
  <2>1. mine[thread] \in Containers
    BY <1>4, MineTyped DEF Start
  <2>2. handed' \subseteq handed \cup {mine[thread]}
    BY <1>4 DEF Start, Deliver, Put
  <2>3. CASE status' = [status EXCEPT ![mine[thread]] = "running"]
    BY <1>2, <2>1, <2>2, <2>3 DEF Served
  <2>4. CASE UNCHANGED <<status, handed>>
    BY <2>4 DEF Served
  <2> QED BY <1>4, <2>3, <2>4 DEF Start, LeftBehind
<1>5. ASSUME NEW container \in Containers, Ends(container), UNCHANGED handed
      PROVE  Served'
  BY <1>2, <1>5 DEF Ends, Removed, LeftBehind, Served
<1>6. CASE Drain
  <2>1. Head(ready) \in Containers
    BY <1>1, <1>6, TakeMembers DEF Drain, TypeOK, Separate
  <2> QED BY <1>5, <1>6, <2>1 DEF Drain, Destroy, DestroyRaises, Ends
<1>7. ASSUME NEW worker \in Workers, Retire(worker) PROVE Served'
  <2>1. mine[worker] \in Containers
    BY <1>7, MineTyped DEF Retire, Threads
  <2> QED BY <1>5, <1>7, <2>1 DEF Retire, Destroy, DestroyRaises, Ends
<1>8. CASE TakeReady
  <2>1. Head(ready) \in Members(ready)
    BY <1>1, <1>8, TakeMembers DEF TakeReady, TypeOK, Separate
  <2>2. status[Head(ready)] = "running"
    BY <1>1, <2>1 DEF Kept, Fresh, Living
  <2> QED BY <1>8, <2>2 DEF TakeReady, Served
<1>9. CASE BeginAcquire \/ AcquireTimesOut \/ Release \/ EndRun \/ Close \/ Join \/ Finish
  BY <1>9
  DEF BeginAcquire, AcquireTimesOut, Release, EndRun, Close, Join, Finish, Served
<1>10. ASSUME NEW worker \in Workers, TakeTask(worker) \/ Check(worker) PROVE Served'
  BY <1>10 DEF TakeTask, Check, Served
<1>11. CASE UNCHANGED vars
  BY <1>11 DEF vars, Served
<1> QED BY <1>3, <1>4, <1>6, <1>7, <1>8, <1>9, <1>10, <1>11
    DEF Next, MainStep, WorkerStep, Stopped, Threads

Busy(container) == pc[Main] = "using" /\ mine[Main] = container

(* A container's life is told by four facts.                               *)
LEMMA SameLife ==
  ASSUME TypeOK, NEW container \in Containers,
         status'[container] = status[container],
         container \in handed' <=> container \in handed,
         container \in abandoned' <=> container \in abandoned,
         Busy(container)' <=> Busy(container)
  PROVE  Life(container)' = Life(container)
<1>1. status[container] \in {"absent", "created", "running", "gone"}
  BY DEF TypeOK
<1>2. CASE container \in abandoned
  BY <1>2 DEF Life
<1>3. CASE container \notin abandoned /\ status[container] \in {"absent", "gone"}
  BY <1>3 DEF Life
<1>4. CASE container \notin abandoned /\ status[container] \in {"created", "running"}
  <2>1. CASE container \in handed
    BY <1>4, <2>1 DEF Life, Busy
  <2>2. CASE container \notin handed
    BY <1>4, <2>2 DEF Life
  <2> QED BY <2>1, <2>2
<1> QED BY <1>1, <1>2, <1>3, <1>4

\* A created container, as the abstract life sees it.
LEMMA LifeOfMade ==
  ASSUME NEW container \in Made
  PROVE  Life(container) = "created"
BY DEF Life, Made, Living

\* A started one nobody had.
LEMMA LifeOfFresh ==
  ASSUME NEW container \in Fresh
  PROVE  Life(container) = "fresh"
BY DEF Life, Fresh, Living

\* And one the run had.
LEMMA LifeOfSpent ==
  ASSUME NEW container \in Spent
  PROVE  Life(container) = IF Busy(container) THEN "busy" ELSE "used"
BY DEF Life, Spent, Living, Busy

(* No thread has it, no queue has it: it is not made, removed or lost.     *)
LEMMA LifeOfOthers ==
  ASSUME TypeOK, Served, NEW container \in Containers,
         container \notin Made \cup Fresh \cup Spent
  PROVE  Life(container) \in {"absent", "gone", "lost"}
<1>1. CASE container \in abandoned
  BY <1>1 DEF Life
<1>2. CASE container \notin abandoned
  <2>1. status[container] \in {"absent", "gone"}
    BY <1>2 DEF TypeOK, Served, Made, Fresh, Spent, Living
  <2> QED BY <1>2, <2>1 DEF Life
<1> QED BY <1>1, <1>2

(* The busy container is the one in the main thread's hand.                *)
LEMMA BusyIsHeld ==
  ASSUME TypeOK, Served, NEW container \in Containers, Life(container) = "busy"
  PROVE  Busy(container)
<1>1. container \notin Made /\ container \notin Fresh
  BY LifeOfMade, LifeOfFresh
<1>2. container \in Spent
  BY <1>1, LifeOfOthers
<1> QED BY <1>2, LifeOfSpent

\* Only closing the pool changes the stage.
LEMMA StageStays ==
  ASSUME UNCHANGED closed, pc'[Main] = "closed" <=> pc[Main] = "closed"
  PROVE  Stage' = Stage
BY DEF Stage

(* A step in which one container moves on, or none.                        *)
LEMMA OneLife ==
  ASSUME NEW container \in Containers,
         \A other \in Containers \ {container} : Life(other)' = Life(other),
         NEW next, Life(container)' = next
  PROVE  Lives!Becomes(container, next)
BY DEF Lives!Becomes

\* A step that changes no life is a stutter of the abstract specification.
LEMMA NoLife ==
  ASSUME \A container \in Containers : Life(container)' = Life(container),
         Stage' = Stage
  PROVE  UNCHANGED Lives!lifeVars
BY DEF Lives!lifeVars
(* A worker's step, or one that only moves a container or a thread, leaves *)
(* the other containers as they were.                                      *)
LEMMA OthersStay ==
  ASSUME TypeOK, NEW container \in Containers,
         \A other \in Containers \ {container} :
           /\ status'[other] = status[other]
           /\ other \in handed' <=> other \in handed
           /\ other \in abandoned' <=> other \in abandoned
           /\ Busy(other)' <=> Busy(other)
  PROVE  \A other \in Containers \ {container} : Life(other)' = Life(other)
BY SameLife

(* The disposable container a step destroys is removed, or lost.           *)
LEMMA DestroyRefines ==
  ASSUME Pool, Served, NEW container \in Containers, Ends(container),
         UNCHANGED <<handed, closed>>, pc[Main] # "closed", pc'[Main] # "closed",
         \A other \in Containers : Busy(other)' <=> Busy(other),
         \/ Life(container) = "used"
         \/ Life(container) = "fresh" /\ closed
  PROVE  Lives!LifeNext
<1>1. TypeOK
  BY DEF Pool
<1>2. Stage' = Stage /\ Stage # "over"
  BY DEF Stage
<1>3. Lives!Disposable(container)
  BY <1>2 DEF Lives!Disposable, Stage
<1>4. \A other \in Containers \ {container} : Life(other)' = Life(other)
  <2>1. \A other \in Containers \ {container} :
          /\ status'[other] = status[other]
          /\ other \in abandoned' <=> other \in abandoned
    BY <1>1 DEF Ends, Removed, LeftBehind, TypeOK
  <2> QED BY <1>1, <2>1, OthersStay
<1>5. container \notin abandoned
  BY DEF Life
<1>6. CASE status' = [status EXCEPT ![container] = "gone"] /\ UNCHANGED abandoned
  <2>1. status'[container] = "gone" /\ container \notin abandoned'
    BY <1>1, <1>5, <1>6 DEF TypeOK
  <2>2. Life(container)' = "gone"
    BY <2>1 DEF Life
  <2>3. Lives!Remove(container)
    BY <1>2, <1>3, <1>4, <2>2, OneLife DEF Lives!Remove
  <2> QED BY <2>3 DEF Lives!LifeNext
<1>7. CASE abandoned' = abandoned \cup {container}
  <2>1. Life(container)' = "lost"
    BY <1>7 DEF Life
  <2>2. Lives!Lose(container)
    BY <1>2, <1>3, <1>4, <2>1, OneLife DEF Lives!Lose
  <2> QED BY <2>2 DEF Lives!LifeNext
<1> QED BY <1>6, <1>7 DEF Ends, Removed, LeftBehind

\* Creating a container is the abstract creation.
LEMMA CreateRefines ==
  ASSUME Pool, Served, NEW thread \in Threads, Create(thread)
  PROVE  [Lives!LifeNext]_(Lives!lifeVars)
<1>1. /\ TypeOK /\ Unnumbered /\ Roles /\ Shutdown
      /\ pc \in [Threads -> Labels] /\ mine \in [Threads -> Containers \cup {None}]
      /\ status \in [Containers -> {"absent", "created", "running", "gone"}]
  BY DEF Pool, TypeOK
<1>2. pc[Main] # "using" \/ thread # Main
  BY DEF Create
<1>3. /\ UNCHANGED <<closed, handed>>
      /\ pc'[Main] # "closed" /\ pc[Main] # "closed"
  <2>1. pc[Main] # "closed"
    BY <1>1, PoolAssumption DEF Create, Shutdown, Threads
  <2>2. UNCHANGED <<closed, handed>>
    BY DEF Create
  <2>3. pc'[Main] \in {pc[Main], "starting", "closing", "idle"}
    BY <1>1 DEF Create, Goto, Fail, Threads
  <2> QED BY <2>1, <2>2, <2>3
<1>4. Stage' = Stage /\ Stage # "over"
  BY <1>3 DEF Stage
<1>5. \A container \in Containers : Busy(container)' <=> Busy(container)
  <2>1. CASE thread = Main
    BY <1>1, <2>1 DEF Create, Goto, Fail, Busy
  <2>2. CASE thread # Main
    BY <1>1, <2>2 DEF Create, Goto, Fail, Busy, Threads
  <2> QED BY <2>1, <2>2
<1>0. counter \in 0 .. MaxContainers /\ counter < MaxContainers
  BY <1>1 DEF Create, TypeOK
<1>6. CASE UNCHANGED <<status, abandoned>>
  <2>1. \A container \in Containers : Life(container)' = Life(container)
    BY <1>1, <1>3, <1>5, <1>6, SameLife
  <2> QED BY <1>4, <2>1, NoLife
<1>7. PICK new \in Containers : new = counter + 1 /\ new > counter
  <2>1. counter + 1 \in 1 .. MaxContainers /\ counter + 1 > counter
    BY <1>0, PoolAssumption
  <2> QED BY <2>1 DEF Containers
<1>8. status[new] = "absent" /\ new \notin handed \cup abandoned
  BY <1>1, <1>7 DEF Unnumbered
<1>9. Life(new) = "absent"
  BY <1>8 DEF Life
<1>10. CASE status' = [status EXCEPT ![counter + 1] = "created"] /\ UNCHANGED abandoned
  <2>1. status' = [status EXCEPT ![new] = "created"]
    BY <1>7, <1>10
  <2>2. status'[new] = "created" /\ new \notin handed' /\ new \notin abandoned'
    BY <1>1, <1>3, <1>7, <1>8, <1>10, <2>1
  <2>3. Life(new)' = "created"
    BY <2>2 DEF Life
  <2>4. \A other \in Containers \ {new} : Life(other)' = Life(other)
    <3>1. \A other \in Containers \ {new} : status'[other] = status[other]
      BY <1>1, <1>7, <2>1
    <3> QED BY <1>1, <1>3, <1>5, <1>7, <1>10, <3>1, OthersStay
  <2>5. Lives!Make(new)
    BY <1>4, <1>7, <1>9, <2>3, <2>4, OneLife DEF Lives!Make
  <2> QED BY <1>7, <2>5 DEF Lives!LifeNext
<1>11. CASE UNCHANGED status /\ abandoned' = abandoned \cup {new}
  <2>1. Life(new)' = "lost"
    BY <1>11 DEF Life
  <2>2. \A other \in Containers \ {new} : Life(other)' = Life(other)
    BY <1>1, <1>3, <1>5, <1>7, <1>11, OthersStay
  <2>3. Lives!Lose(new)
    BY <1>4, <1>7, <1>9, <2>1, <2>2, OneLife DEF Lives!Lose
  <2> QED BY <1>7, <2>3 DEF Lives!LifeNext
<1> QED BY <1>6, <1>7, <1>10, <1>11 DEF Create, LeftBehind

\* Starting one is the abstract start, its service or its loss.
LEMMA StartRefines ==
  ASSUME Pool, Served, NEW thread \in Threads, Start(thread)
  PROVE  [Lives!LifeNext]_(Lives!lifeVars)
<1>1. /\ TypeOK /\ Kept /\ Separate /\ Roles /\ Shutdown /\ Main \in Threads
      /\ pc \in [Threads -> Labels] /\ mine \in [Threads -> Containers \cup {None}]
      /\ status \in [Containers -> {"absent", "created", "running", "gone"}]
  BY DEF Pool, TypeOK, Threads
<1>2. PICK new \in Containers :
        /\ new = mine[thread] /\ new \in Made /\ new # None
        /\ pc[thread] = "starting" /\ UNCHANGED closed
  BY <1>1, Places DEF Start, Kept
<1>3. Life(new) = "created" /\ new \notin handed /\ new \notin abandoned
  BY <1>2, LifeOfMade DEF Made, Living
<1>4. pc[Main] # "closed" /\ pc'[Main] # "closed"
  <2>1. pc[Main] # "closed"
    BY <1>1, <1>2, PoolAssumption DEF Shutdown, Threads
  <2> QED BY <1>1, <2>1 DEF Start, Deliver, Goto, Fail
<1>5. Stage' = Stage /\ Stage # "over"
  BY <1>2, <1>4 DEF Stage
<1>6. \A container \in Containers :
        ~(pc'[Main] = "using" /\ thread = Main) =>
          (Busy(container)' <=> Busy(container))
  <2>1. CASE thread = Main
    BY <1>2, <2>1 DEF Busy
  <2>2. CASE thread # Main
    BY <1>1, <2>2 DEF Start, Deliver, Put, Goto, Fail, Busy
  <2> QED BY <2>1, <2>2
<1>7. CASE /\ status' = [status EXCEPT ![new] = "running"]
           /\ UNCHANGED <<handed, abandoned>>
           /\ ~(pc'[Main] = "using" /\ thread = Main)
  <2>1. status'[new] = "running"
    BY <1>1, <1>2, <1>7
  <2>2. Life(new)' = "fresh"
    BY <1>3, <1>7, <2>1 DEF Life
  <2>3. \A other \in Containers \ {new} : Life(other)' = Life(other)
    <3>1. \A other \in Containers \ {new} : status'[other] = status[other]
      BY <1>1, <1>2, <1>7
    <3> QED BY <1>1, <1>2, <1>6, <1>7, <3>1, OthersStay
  <2>4. Lives!StartUp(new)
    BY <1>2, <1>3, <1>5, <2>2, <2>3, OneLife DEF Lives!StartUp
  <2> QED BY <1>2, <2>4 DEF Lives!LifeNext
<1>8. CASE /\ status' = [status EXCEPT ![new] = "running"]
           /\ thread = Main /\ handed' = handed \cup {new} /\ pc'[Main] = "using"
           /\ UNCHANGED <<mine, abandoned>>
  <2>1. \A other \in Containers : Busy(other)' <=> other = new
    BY <1>1, <1>2, <1>8 DEF Busy
  <2>2. \A other \in Containers : ~Busy(other)
    BY <1>2, <1>8 DEF Busy
  <2>3. ~closed
    BY <1>1, <1>2, <1>8 DEF Shutdown
  <2>4. status'[new] = "running" /\ new \in handed' /\ new \notin abandoned'
        /\ Busy(new)'
    BY <1>1, <1>2, <1>3, <1>8, <2>1
  <2>5. Life(new)' = "busy"
    BY <2>4 DEF Life, Busy
  <2>6. \A other \in Containers \ {new} : Life(other)' = Life(other)
    <3>1. \A other \in Containers \ {new} :
            /\ status'[other] = status[other]
            /\ other \in handed' <=> other \in handed
            /\ Busy(other)' <=> Busy(other)
      BY <1>1, <1>2, <1>8, <2>1, <2>2
    <3> QED BY <1>1, <1>2, <1>8, <3>1, OthersStay
  <2>7. \A other \in Containers : Life(other) # "busy"
    BY <1>1, <2>2, BusyIsHeld
  <2>8. Stage = "open"
    BY <1>4, <2>3 DEF Stage
  <2>9. Lives!Serve(new)
    BY <1>2, <1>3, <1>5, <2>5, <2>6, <2>7, <2>8, OneLife DEF Lives!Serve
  <2> QED BY <1>2, <2>9 DEF Lives!LifeNext
<1>9. CASE /\ abandoned' = abandoned \cup {new} /\ UNCHANGED <<status, handed>>
           /\ ~(pc'[Main] = "using" /\ thread = Main)
  <2>1. Life(new)' = "lost"
    BY <1>9 DEF Life
  <2>2. \A other \in Containers \ {new} : Life(other)' = Life(other)
    BY <1>1, <1>2, <1>6, <1>9, OthersStay
  <2>3. Lives!Lose(new)
    BY <1>2, <1>3, <1>5, <2>1, <2>2, OneLife DEF Lives!Lose
  <2> QED BY <1>2, <2>3 DEF Lives!LifeNext
<1>10. CASE /\ Fail(thread) /\ abandoned' = abandoned \cup {mine[thread]}
            /\ UNCHANGED <<status, ready, filled, handed>>
  <2>1. ~(pc'[Main] = "using" /\ thread = Main)
    BY <1>1, <1>10 DEF Fail, Goto
  <2> QED BY <1>2, <1>9, <1>10, <2>1
<1>11. CASE /\ status' = [status EXCEPT ![mine[thread]] = "running"]
            /\ Deliver(thread) /\ UNCHANGED abandoned
  <2>1. CASE thread # Main /\ UNCHANGED handed
    BY <1>2, <1>7, <1>11, <2>1
  <2>2. CASE thread = Main /\ UNCHANGED handed
             /\ Goto(Main, IF filled + 1 = Size THEN "idle" ELSE "creating")
    BY <1>1, <1>2, <1>7, <1>11, <2>2 DEF Goto
  <2>3. CASE /\ thread = Main /\ handed' = handed \cup {mine[Main]}
             /\ Goto(Main, "using") /\ UNCHANGED mine
    BY <1>1, <1>2, <1>8, <1>11, <2>3 DEF Goto
  <2> QED BY <1>11, <2>1, <2>2, <2>3 DEF Deliver, Put
<1> QED BY <1>10, <1>11 DEF Start, LeftBehind
\* Taking a queued container serves it.
LEMMA TakeReadyRefines ==
  ASSUME Pool, Served, TakeReady
  PROVE  [Lives!LifeNext]_(Lives!lifeVars)
<1>1. /\ TypeOK /\ Kept /\ Separate /\ Roles /\ Shutdown /\ Main \in Threads
      /\ pc \in [Threads -> Labels] /\ mine \in [Threads -> Containers \cup {None}]
  BY DEF Pool, TypeOK, Threads
<1>2. Head(ready) \in Containers /\ Head(ready) \in Members(ready)
  BY <1>1, TakeMembers DEF TakeReady, TypeOK, Separate
<1>3. PICK first \in Containers : first = Head(ready) /\ first \in Fresh
  BY <1>1, <1>2 DEF Kept
<1>4. /\ mine' = [mine EXCEPT ![Main] = first] /\ handed' = handed \cup {first}
      /\ pc' = [pc EXCEPT ![Main] = "using"] /\ pc[Main] = "acquiring"
      /\ UNCHANGED <<status, closed, abandoned>>
  BY <1>3 DEF TakeReady, Goto
<1>5. \A other \in Containers : ~Busy(other) /\ (Busy(other)' <=> other = first)
  BY <1>1, <1>4 DEF Busy
<1>6. Life(first) = "fresh"
  BY <1>3, LifeOfFresh
<1>7. Life(first)' = "busy"
  <2>1. status'[first] = "running" /\ first \notin abandoned' /\ first \in handed'
    BY <1>3, <1>4 DEF Fresh, Living
  <2> QED BY <1>5, <2>1 DEF Life, Busy
<1>8. \A other \in Containers \ {first} : Life(other)' = Life(other)
  BY <1>1, <1>4, <1>5, OthersStay
<1>9. \A other \in Containers : Life(other) # "busy"
  BY <1>1, <1>5, BusyIsHeld
<1>10. Stage = "open" /\ Stage' = Stage
  BY <1>1, <1>4 DEF Stage, Shutdown
<1>11. Lives!Serve(first)
  BY <1>6, <1>7, <1>8, <1>9, <1>10, OneLife DEF Lives!Serve
<1> QED BY <1>11 DEF Lives!LifeNext

\* Releasing it ends its use.
LEMMA ReleaseRefines ==
  ASSUME Pool, Served, Release
  PROVE  [Lives!LifeNext]_(Lives!lifeVars)
<1>1. /\ TypeOK /\ Kept /\ Shutdown /\ Main \in Threads
      /\ pc \in [Threads -> Labels] /\ mine \in [Threads -> Containers \cup {None}]
  BY DEF Pool, TypeOK, Threads
<1>2. PICK used \in Containers : used = mine[Main] /\ used \in Spent
  BY <1>1, Places DEF Release, Kept
<1>3. /\ pc[Main] = "using" /\ pc' = [pc EXCEPT ![Main] = "idle"]
      /\ UNCHANGED <<status, closed, handed, abandoned>>
  BY DEF Release, Goto
<1>4. \A other \in Containers : ~Busy(other)' /\ (Busy(other) <=> other = used)
  BY <1>1, <1>2, <1>3 DEF Busy
<1>5. Life(used) = "busy"
  BY <1>2, <1>4, LifeOfSpent
<1>6. Life(used)' = "used"
  <2>1. status'[used] = "running" /\ used \notin abandoned' /\ used \in handed'
    BY <1>2, <1>3 DEF Spent, Living
  <2> QED BY <1>4, <2>1 DEF Life, Busy
<1>7. \A other \in Containers \ {used} : Life(other)' = Life(other)
  BY <1>1, <1>3, <1>4, OthersStay
<1>8. Stage = "open" /\ Stage' = Stage
  BY <1>1, <1>3 DEF Stage, Shutdown
<1>9. Lives!GiveBack(used)
  BY <1>5, <1>6, <1>7, <1>8, OneLife DEF Lives!GiveBack
<1> QED BY <1>9 DEF Lives!LifeNext

\* Draining ends the life of one container nobody had, after the close.
LEMMA DrainRefines ==
  ASSUME Pool, Served, Drain
  PROVE  [Lives!LifeNext]_(Lives!lifeVars)
<1>1. TypeOK /\ Roles /\ Kept /\ Separate /\ Owned /\ Shutdown
  BY DEF Pool
<1>2. Head(ready) \in Containers /\ Head(ready) \in Members(ready)
  BY <1>1, TakeMembers DEF Drain, TypeOK, Separate
<1>3. PICK first \in Containers : first = Head(ready) /\ first \in Fresh
  BY <1>1, <1>2 DEF Kept
<1>4. /\ Ends(first) /\ UNCHANGED <<mine, handed, closed>> /\ pc[Main] = "draining"
      /\ ready' = Tail(ready)
      /\ (UNCHANGED pc \/ Goto(Main, "closed"))
  BY <1>3 DEF Drain, Destroy, DestroyRaises, Ends
<1>5. closed /\ Life(first) = "fresh"
  BY <1>1, <1>3, <1>4, LifeOfFresh DEF Shutdown
<1>6. \A other \in Containers : ~Busy(other) /\ ~Busy(other)'
  BY <1>1, <1>4 DEF Busy, Goto, TypeOK
<1>7. CASE UNCHANGED pc
  BY <1>4, <1>5, <1>6, <1>7, DestroyRefines
<1>8. CASE Goto(Main, "closed")
  <2>1. Stage = "closing" /\ Stage' = "over"
    BY <1>1, <1>4, <1>5, <1>8 DEF Stage, Goto, TypeOK, Threads
  <2>2. \A other \in Containers \ {first} : Life(other)' = Life(other)
    BY <1>1, <1>4, <1>6, OthersStay DEF Ends, Removed, LeftBehind, TypeOK
  <2>3. Life(first)' = "gone" \/ Life(first)' = "lost"
    <3>1. first \notin abandoned
      BY <1>3 DEF Fresh, Living
    <3>2. CASE Removed(first)
      <4>1. status'[first] = "gone" /\ first \notin abandoned'
        BY <1>1, <3>1, <3>2 DEF Removed, TypeOK
      <4> QED BY <4>1 DEF Life
    <3>3. CASE LeftBehind(first)
      BY <3>3 DEF LeftBehind, Life
    <3> QED BY <1>4, <3>2, <3>3 DEF Ends
  <2>4. \A other \in Containers : Life(other) \in {"absent", "fresh", "gone", "lost"}
    <3>1. \A thread \in Threads : mine[thread] = None
      BY <1>1, <1>4 DEF Shutdown, Roles, Threads
    <3>2. Made \cup Spent \subseteq Members(ready)
      <4>1. Members(tasks) = {} /\ Held \subseteq {None}
        BY <1>1, <1>4, <3>1, EmptyMembers DEF Shutdown, Held
      <4> QED BY <1>1, <4>1, Places DEF Owned
    <3>3. Made = {} /\ Spent = {}
      BY <1>1, <3>2, Places DEF Kept
    <3> QED BY <1>1, <3>3, LifeOfFresh, LifeOfOthers
  <2>5. Lives!CutShort(first)
    <3>1. Lives!Disposable(first)
      BY <1>5, <2>1 DEF Lives!Disposable
    <3>2. Lives!Becomes(first, "gone") \/ Lives!Becomes(first, "lost")
      BY <2>2, <2>3, OneLife
    <3> QED BY <2>1, <2>4, <3>1, <3>2 DEF Lives!CutShort
  <2> QED BY <1>3, <2>5 DEF Lives!LifeNext
<1> QED BY <1>4, <1>7, <1>8

\* Retiring is one abstract end.
LEMMA RetireRefines ==
  ASSUME Pool, Served, NEW worker \in Workers, Retire(worker)
  PROVE  [Lives!LifeNext]_(Lives!lifeVars)
<1>1. /\ TypeOK /\ Kept /\ Separate /\ Shutdown /\ Main \in Threads
      /\ worker \in Threads /\ worker # Main
      /\ pc \in [Threads -> Labels] /\ mine \in [Threads -> Containers \cup {None}]
  BY PoolAssumption DEF Pool, TypeOK, Threads
<1>2. PICK used \in Containers :
        used = mine[worker] /\ used \in Spent /\ used # None /\ mine[Main] # used
  BY <1>1, Places DEF Retire, Kept, Separate
<1>3. /\ Ends(used) /\ UNCHANGED <<handed, closed>>
      /\ pc'[Main] = pc[Main] /\ mine'[Main] = mine[Main]
  BY <1>1, <1>2 DEF Retire, Goto, Destroy, DestroyRaises, Ends
<1>4. pc[Main] # "closed" /\ pc'[Main] # "closed"
  BY <1>1, <1>3 DEF Retire, Shutdown
<1>5. Life(used) = "used"
  BY <1>2, LifeOfSpent DEF Busy
<1>6. \A other \in Containers : Busy(other)' <=> Busy(other)
  BY <1>3 DEF Busy
<1> QED BY <1>3, <1>4, <1>5, <1>6, DestroyRefines

\* Closing and finishing the pool move the abstract stage.
LEMMA CloseRefines ==
  ASSUME Pool, Served, Close \/ Finish
  PROVE  [Lives!LifeNext]_(Lives!lifeVars)
<1>1. /\ TypeOK /\ Roles /\ Kept /\ Owned /\ Shutdown /\ Main \in Threads
      /\ pc \in [Threads -> Labels] /\ Threads = Workers \cup {Main}
  BY DEF Pool, TypeOK, Threads
<1>2. UNCHANGED <<mine, status, handed, abandoned>>
      /\ pc[Main] # "using" /\ pc'[Main] # "using"
  BY <1>1 DEF Close, Finish, Goto
<1>3. \A container \in Containers : Life(container)' = Life(container)
  BY <1>1, <1>2, SameLife DEF Busy
<1>4. CASE Close
  <2>1. Stage = "open" /\ Stage' = "closing"
    BY <1>1, <1>4 DEF Close, Goto, Shutdown, Stage
  <2>2. \A container \in Containers : Life(container) # "busy"
    BY <1>1, <1>2, BusyIsHeld DEF Busy
  <2>3. Lives!CloseRun
    BY <1>3, <2>1, <2>2 DEF Lives!CloseRun
  <2> QED BY <2>3 DEF Lives!LifeNext
<1>5. CASE Finish
  <2>1. Stage = "closing" /\ Stage' = "over"
    BY <1>1, <1>5 DEF Finish, Goto, Shutdown, Stage
  <2>2. ready = <<>> /\ tasks = <<>>
    BY <1>1, <1>5 DEF Finish, Shutdown
  <2>3. Members(ready) = {} /\ Members(tasks) = {}
    BY <2>2, EmptyMembers
  <2>4. \A thread \in Threads : mine[thread] = None
    BY <1>1, <1>5 DEF Finish, Shutdown, Roles
  <2>5. Held \subseteq {None}
    BY <2>4 DEF Held
  <2>6. Made \cup Fresh \cup Spent = {}
    BY <1>1, <2>3, <2>5, Places DEF Owned
  <2>7. \A container \in Containers : Life(container) \in {"absent", "gone", "lost"}
    BY <1>1, <2>6, LifeOfOthers
  <2>8. Lives!EndOfRun
    BY <1>3, <2>1, <2>7 DEF Lives!EndOfRun
  <2> QED BY <2>8 DEF Lives!LifeNext
<1> QED BY <1>4, <1>5

(* The other steps are invisible outside the pool.                         *)
LEMMA QuietRefines ==
  ASSUME TypeOK, UNCHANGED <<status, handed, abandoned, closed>>,
         pc'[Main] = "using" <=> pc[Main] = "using",
         pc[Main] = "using" => mine'[Main] = mine[Main],
         pc'[Main] = "closed" <=> pc[Main] = "closed"
  PROVE  [Lives!LifeNext]_(Lives!lifeVars)
<1>1. \A container \in Containers : Life(container)' = Life(container)
  BY SameLife DEF Busy
<1> QED BY <1>1, StageStays, NoLife

\* Every step of the pool is a step of the abstract lives, or a stutter.
LEMMA LifeStep ==
  Pool /\ Served /\ [Next]_vars => [Lives!LifeNext]_(Lives!lifeVars)
<1> SUFFICES ASSUME Pool, Served, [Next]_vars
             PROVE  [Lives!LifeNext]_(Lives!lifeVars)
  OBVIOUS
<1>1. /\ TypeOK /\ Main \in Threads /\ Workers \subseteq Threads
      /\ Main \notin Workers
      /\ pc \in [Threads -> Labels] /\ mine \in [Threads -> Containers \cup {None}]
  BY PoolAssumption DEF Pool, TypeOK, Threads
<1>2. CASE BeginAcquire \/ AcquireTimesOut \/ EndRun \/ Join
  <2>1. /\ UNCHANGED <<mine, status, handed, abandoned, closed>>
        /\ pc[Main] \notin {"using", "closed"} /\ pc'[Main] \notin {"using", "closed"}
    BY <1>1, <1>2 DEF BeginAcquire, AcquireTimesOut, EndRun, Join, Goto
  <2> QED BY <1>1, <2>1, QuietRefines
<1>3. ASSUME NEW worker \in Workers, TakeTask(worker) \/ Check(worker)
      PROVE  [Lives!LifeNext]_(Lives!lifeVars)
  <2>1. /\ UNCHANGED <<status, handed, abandoned, closed>>
        /\ pc'[Main] = pc[Main] /\ mine'[Main] = mine[Main]
    BY <1>1, <1>3 DEF TakeTask, Check, Goto
  <2> QED BY <1>1, <2>1, QuietRefines
<1>4. CASE UNCHANGED vars
  <2>1. UNCHANGED <<pc, mine, status, handed, abandoned, closed>>
    BY <1>4 DEF vars
  <2> QED BY <1>1, <2>1, QuietRefines
<1> QED BY <1>1, <1>2, <1>3, <1>4, CreateRefines, StartRefines, TakeReadyRefines,
           ReleaseRefines, DrainRefines, RetireRefines, CloseRefines
    DEF Next, MainStep, WorkerStep, Stopped

(* The pool's threads and queues implement the life of a container: for    *)
(* any number of workers, pool size and faults, each is started once,      *)
(* serves at most one evaluation, alone, and by the end is removed, lost   *)
(* to a failed command or, behind a shutdown() that raised, never used.    *)
THEOREM ContainersLiveOnce == Spec => ImplementsContainerLife
<1>1. Init => Lives!LifeInit /\ Served
  <2> SUFFICES ASSUME Init PROVE Lives!LifeInit /\ Served
    OBVIOUS
  <2>1. \A container \in Containers : Life(container) = "absent"
    BY DEF Init, Life
  <2>2. Stage = "open"
    BY PoolAssumption DEF Init, Stage, Threads
  <2>3. Served
    BY DEF Init, Served
  <2> QED BY <2>1, <2>2, <2>3 DEF Lives!LifeInit
<1> QED BY <1>1, AlwaysPool, ServedStep, LifeStep, PTL
       DEF Spec, ImplementsContainerLife

-----------------------------------------------------------------------------
(***************************************************************************)
(* Part 2: RunLifecycle.  Its one inductive invariant says how deep the    *)
(* ExitStack is in each phase, that whatever is open is released by a      *)
(* callback still on it, and where the log stands.                         *)
(***************************************************************************)

CallbackNames == {"log", "run.end", "router", "docker", "pool"}
EventNames == {"run.start", "work", "run.end", "run.end.ok"}

\* The callbacks in the order they are registered.
Callbacks == <<"log", "run.end", "router", "docker", "pool">>

\* How many are registered when a phase begins.
Depth(p) ==
  CASE p \in {"preflight", "open_log"} -> 0
    [] p = "start_event" -> 1
    [] p = "router" -> 2
    [] p \in {"copy", "discover", "docker"} -> 3
    [] p \in {"image", "pool"} -> 4
    [] p \in {"fill", "seed", "graph"} -> 5

PhaseNames == {"preflight", "open_log", "start_event", "router", "copy", "discover",
               "docker", "image", "pool", "fill", "seed", "graph"}

\* The stack is the callbacks up to some depth, the phase's own while it runs.
StackInOrder ==
  /\ Len(stack) <= Len(Callbacks)
  /\ \A i \in 1..Len(stack) : stack[i] = Callbacks[i]
  /\ Running => Len(stack) = Depth(phase)
  /\ phase \in {"report", "finalize", "exited"} => stack = <<>>

\* What is held is released by a callback still to come, or failed to be.
HeldIsRegistered ==
  \A resource \in open \ failed :
    \E i \in 1..Len(stack) : resource \in Releases(stack[i])

\* Where a log ends.
EndsOf(events) == {i \in DOMAIN events : events[i] \in {"run.end", "run.end.ok"}}

\* Until its end is logged the log is open; then it stays as it is.
LogEnds ==
  /\ Len(stack) >= 2 => EndsOf(log) = {}
  /\ Len(stack) < 2 =>
       IF Running THEN log = <<>> ELSE log = <<>> \/ EndsOf(log) = {Len(log)}
  /\ \A i \in EndsOf(log) :
       log[i] = IF verdict = "approve" THEN "run.end.ok" ELSE "run.end"

\* A verdict is the graph's, and what follows it needs one and no error.
VerdictIsReached ==
  /\ Running => verdict = Unset
  /\ verdict # Unset => log # <<>>
  /\ phase \in {"report", "finalize"} => error = Unset
  /\ phase = "finalize" => cost
  /\ exit = 0 => verdict = "approve" /\ squashed /\ cost /\ error = Unset

ProcessTyped ==
  /\ stack \in Seq(CallbackNames)
  /\ log \in Seq(EventNames)
  /\ phase \in PhaseNames \cup {"unwind", "report", "finalize", "exited", "killed"}
  /\ open \subseteq Resources
  /\ failed \subseteq {"router", "docker", "containers"}
  /\ verdict \in {Unset, "approve", "escalate"}
  /\ error \in {Unset, "exit_2", "error"}
  /\ cost \in BOOLEAN
  /\ squashed \in BOOLEAN
  /\ exit \in {Unset, 0, 1, 2}
  /\ phase = "exited" <=> exit # Unset

Process ==
  /\ ProcessTyped
  /\ StackInOrder
  /\ HeldIsRegistered
  /\ LogEnds
  /\ VerdictIsReached

PhaseIndices == {1, 2, 3, 4, 5, 6, 7, 8, 9, 10, 11, 12}

\* The phases, spelled out.
LEMMA PhaseAt ==
  /\ Len(Phases) = 12 /\ DOMAIN Phases = PhaseIndices
  /\ Phases[1] = "preflight" /\ Phases[2] = "open_log"
  /\ Phases[3] = "start_event" /\ Phases[4] = "router"
  /\ Phases[5] = "copy" /\ Phases[6] = "discover"
  /\ Phases[7] = "docker" /\ Phases[8] = "image"
  /\ Phases[9] = "pool" /\ Phases[10] = "fill"
  /\ Phases[11] = "seed" /\ Phases[12] = "graph"
<1>1. Len(Phases) = 12 /\ DOMAIN Phases = 1..12
  BY DEF Phases
<1>2. 1..12 = PhaseIndices
  BY DEF PhaseIndices
<1>3. QED
  BY <1>1, <1>2 DEF Phases

\* The phases as a set.
LEMMA PhasesAre == ToSet(Phases) = PhaseNames
<1>1. ToSet(Phases) = {Phases[i] : i \in PhaseIndices}
  BY PhaseAt DEF ToSet
<1>2. ASSUME NEW i \in PhaseIndices PROVE Phases[i] \in PhaseNames
  BY PhaseAt DEF PhaseIndices, PhaseNames
<1>3. ASSUME NEW name \in PhaseNames
      PROVE  \E i \in PhaseIndices : name = Phases[i]
  BY PhaseAt DEF PhaseIndices, PhaseNames
<1>4. QED
  BY <1>1, <1>2, <1>3

\* The phase after each.
LEMMA FollowingAt ==
  /\ Following(1) = "open_log" /\ Following(2) = "start_event"
  /\ Following(3) = "router" /\ Following(4) = "copy"
  /\ Following(5) = "discover" /\ Following(6) = "docker"
  /\ Following(7) = "image" /\ Following(8) = "pool"
  /\ Following(9) = "fill" /\ Following(10) = "seed"
  /\ Following(11) = "graph" /\ Following(12) = "unwind"
BY PhaseAt DEF Following

\* How many callbacks are registered when each phase begins.
LEMMA DepthAt ==
  /\ Depth("preflight") = 0 /\ Depth("open_log") = 0
  /\ Depth("start_event") = 1 /\ Depth("router") = 2
  /\ Depth("copy") = 3 /\ Depth("discover") = 3
  /\ Depth("docker") = 3 /\ Depth("image") = 4
  /\ Depth("pool") = 4 /\ Depth("fill") = 5
  /\ Depth("seed") = 5 /\ Depth("graph") = 5
BY DEF Depth

\* What each phase registers.
LEMMA RegisteredAt ==
  /\ Registered("preflight") = <<>> /\ Registered("open_log") = <<"log">>
  /\ Registered("start_event") = <<"run.end">> /\ Registered("router") = <<"router">>
  /\ Registered("copy") = <<>> /\ Registered("discover") = <<>>
  /\ Registered("docker") = <<"docker">> /\ Registered("image") = <<>>
  /\ Registered("pool") = <<"pool">> /\ Registered("fill") = <<>>
  /\ Registered("seed") = <<>> /\ Registered("graph") = <<>>
<1>1. \A p \in PhaseNames : Registered(p) =
        CASE p = "open_log"    -> <<"log">>
          [] p = "start_event" -> <<"run.end">>
          [] p = "router"      -> <<"router">>
          [] p = "docker"      -> <<"docker">>
          [] p = "pool"        -> <<"pool">>
          [] OTHER             -> <<>>
  BY PhasesAre DEF Registered, Registers
<1>2. QED
  BY <1>1 DEF PhaseNames

\* The callbacks, spelled out.
LEMMA CallbackAt ==
  /\ Callbacks[1] = "log" /\ Callbacks[2] = "run.end" /\ Callbacks[3] = "router"
  /\ Callbacks[4] = "docker" /\ Callbacks[5] = "pool"
  /\ Len(Callbacks) = 5
BY DEF Callbacks

\* The phases that take hold of something.
Takers == {"open_log", "start_event", "router", "docker", "pool"}

\* Each registers the next callback of the order; the others none.
LEMMA TakersRegister ==
  ASSUME NEW p \in Takers
  PROVE  /\ Registered(p) \in Seq(CallbackNames)
         /\ Len(Registered(p)) = 1
         /\ Depth(p) < 5
         /\ Registered(p)[1] = Callbacks[Depth(p) + 1]
<1>1. PICK name \in CallbackNames : /\ Registered(p) = <<name>>
                                    /\ name = Callbacks[Depth(p) + 1]
                                    /\ Depth(p) < 5
  <2>1. CASE p = "open_log"
    BY <2>1, RegisteredAt, DepthAt, CallbackAt DEF CallbackNames
  <2>2. CASE p = "start_event"
    BY <2>2, RegisteredAt, DepthAt, CallbackAt DEF CallbackNames
  <2>3. CASE p = "router"
    BY <2>3, RegisteredAt, DepthAt, CallbackAt DEF CallbackNames
  <2>4. CASE p = "docker"
    BY <2>4, RegisteredAt, DepthAt, CallbackAt DEF CallbackNames
  <2>5. CASE p = "pool"
    BY <2>5, RegisteredAt, DepthAt, CallbackAt DEF CallbackNames
  <2>6. QED
    BY <2>1, <2>2, <2>3, <2>4, <2>5 DEF Takers
<1>2. /\ <<name>> \in Seq(CallbackNames)
      /\ Len(<<name>>) = 1
      /\ <<name>>[1] = name
  OBVIOUS
<1>3. QED
  BY <1>1, <1>2

\* The other phases register nothing.
LEMMA OthersDoNot ==
  ASSUME NEW p \in PhaseNames \ Takers
  PROVE  Registered(p) = <<>>
BY RegisteredAt DEF PhaseNames, Takers

\* The depth grows by what is registered.
LEMMA PhasesFollow ==
  ASSUME NEW i \in PhaseIndices
  PROVE  /\ Phases[i] \in PhaseNames
         /\ Depth(Phases[i]) \in 0..5
         /\ i # 12 => /\ Following(i) \in PhaseNames
                      /\ Depth(Following(i)) = IF Phases[i] \in Takers
                                               THEN Depth(Phases[i]) + 1
                                               ELSE Depth(Phases[i])
         /\ i = 12 => Phases[i] = "graph" /\ Following(i) = "unwind"
<1>1. CASE i \in {1, 2, 3, 4}
  BY <1>1, PhaseAt, FollowingAt, DepthAt DEF PhaseNames, Takers
<1>2. CASE i \in {5, 6, 7, 8}
  BY <1>2, PhaseAt, FollowingAt, DepthAt DEF PhaseNames, Takers
<1>3. CASE i \in {9, 10, 11, 12}
  BY <1>3, PhaseAt, FollowingAt, DepthAt DEF PhaseNames, Takers
<1>4. QED
  BY <1>1, <1>2, <1>3 DEF PhaseIndices

\* Taking the last callback off leaves the others.
LEMMA Popped ==
  ASSUME NEW S, NEW s \in Seq(S), s # <<>>
  PROVE  /\ RemoveAt(s, Len(s)) \in Seq(S)
         /\ Len(RemoveAt(s, Len(s))) = Len(s) - 1
         /\ \A i \in 1..Len(s) - 1 : RemoveAt(s, Len(s))[i] = s[i]
<1> DEFINE n == Len(s) - 1
           front == SubSeq(s, 1, n)
           back == SubSeq(s, Len(s) + 1, Len(s))
<1>1. Len(s) \in Nat \ {0}
  OBVIOUS
<1>2. \A i \in 1..Len(s) - 1 : s[i] \in S
  BY <1>1
<1>3. n \in Nat /\ n + 1 = Len(s)
  BY <1>1
<1>4. RemoveAt(s, Len(s)) = front \o back
  BY DEF RemoveAt
<1>5. back = <<>>
  BY <1>1, SubSeqProperties
<1> HIDE DEF n, back
<1>6. /\ front \in Seq(S)
      /\ Len(front) = n
      /\ \A i \in 1..n : front[i] = s[i]
  <2>1. 1 \in Int /\ n \in Int /\ \A i \in 1..n : s[i] \in S
    BY <1>2, <1>3
  <2>2. /\ front \in Seq(S)
        /\ Len(front) = IF 1 <= n THEN n - 1 + 1 ELSE 0
        /\ \A i \in 1..n - 1 + 1 : front[i] = s[1 + i - 1]
    BY <2>1, SubSeqProperties
  <2> HIDE DEF front
  <2>3. ASSUME NEW i \in 1..n PROVE front[i] = s[i]
    <3>1. i \in 1..n - 1 + 1 /\ 1 + i - 1 = i
      BY <1>3
    <3>2. QED
      BY <2>2, <3>1
  <2>4. Len(front) = n
    BY <1>3, <2>2
  <2>5. QED
    BY <2>2, <2>3, <2>4
<1> HIDE DEF front
<1>7. front \o <<>> = front
  BY <1>6, ConcatEmptySeq
<1>8. QED
  BY <1>3, <1>4, <1>5, <1>6, <1>7

\* An event is added at the end of the log.
LEMMA Logged ==
  ASSUME NEW S, NEW s \in Seq(S), NEW e \in S
  PROVE  /\ Append(s, e) \in Seq(S)
         /\ Len(Append(s, e)) = Len(s) + 1
         /\ \A i \in 1..Len(s) : Append(s, e)[i] = s[i]
         /\ Append(s, e)[Len(s) + 1] = e
OBVIOUS
\* Where the log ends after one more event.
LEMMA EndsOfAppend ==
  ASSUME NEW events \in Seq(EventNames), NEW event \in EventNames
  PROVE  EndsOf(Append(events, event)) =
           EndsOf(events) \cup (IF event \in {"run.end", "run.end.ok"}
                                THEN {Len(events) + 1} ELSE {})
<1> DEFINE more == Append(events, event)
<1>1. /\ more \in Seq(EventNames)
      /\ Len(more) = Len(events) + 1
      /\ \A i \in 1..Len(events) : more[i] = events[i]
      /\ more[Len(events) + 1] = event
  BY Logged
<1>2. DOMAIN events = 1..Len(events) /\ Len(events) \in Nat
  OBVIOUS
<1> HIDE DEF more
<1>3. DOMAIN more = 1..Len(events) + 1
  BY <1>1
<1>4. ASSUME NEW i
      PROVE  i \in EndsOf(more) <=>
               \/ i \in EndsOf(events)
               \/ i = Len(events) + 1 /\ event \in {"run.end", "run.end.ok"}
  BY <1>1, <1>2, <1>3 DEF EndsOf
<1>5. QED
  BY <1>4 DEF more

\* An empty log has no end.
LEMMA EndsOfEmpty == EndsOf(<<>>) = {}
BY DEF EndsOf

\* A process starts with nothing.
LEMMA ProcessStart == ProcessInit => Process
<1> SUFFICES ASSUME ProcessInit PROVE Process
  OBVIOUS
<1>1. stack = <<>> /\ Len(stack) = 0 /\ log = <<>> /\ phase = "preflight"
  BY DEF ProcessInit
<1>2. stack \in Seq(CallbackNames) /\ log \in Seq(EventNames)
  BY <1>1
<1>3. ProcessTyped
  BY <1>2, LifecycleAssumption DEF ProcessInit, ProcessTyped, PhaseNames, Resources
<1>4. StackInOrder
  BY <1>1, CallbackAt, DepthAt DEF StackInOrder
<1>5. HeldIsRegistered
  BY DEF ProcessInit, HeldIsRegistered
<1>6. LogEnds
  BY <1>1, EndsOfEmpty DEF LogEnds
<1>7. VerdictIsReached
  BY LifecycleAssumption DEF ProcessInit, VerdictIsReached
<1>8. QED
  BY <1>3, <1>4, <1>5, <1>6, <1>7 DEF Process

\* Running, by the phase's name.
LEMMA RunningIs == Running <=> phase \in PhaseNames
BY PhasesAre DEF Running

\* The same of the next state.
LEMMA RunningThen == Running' <=> phase' \in PhaseNames
BY PhasesAre DEF Running

\* A phase that goes through pushes its callback, if it has one.
LEMMA GoOnStack ==
  ASSUME Process, GoOn
  PROVE  /\ phase \in PhaseNames
         /\ Len(stack) = Depth(phase)
         /\ stack' \in Seq(CallbackNames)
         /\ \A i \in 1..Len(stack) : stack'[i] = stack[i]
         /\ IF phase \in Takers
            THEN /\ Len(stack') = Len(stack) + 1
                 /\ stack'[Len(stack')] = Registered(phase)[1]
                 /\ stack'[Len(stack')] = Callbacks[Len(stack')]
            ELSE stack' = stack
         /\ IF phase = "graph" THEN phase' = "unwind"
            ELSE phase' \in PhaseNames /\ Len(stack') = Depth(phase')
<1>1. PICK i \in DOMAIN Phases : phase = Phases[i] /\ phase' = Following(i)
  BY DEF GoOn
<1>2. i \in PhaseIndices
  BY PhaseAt
<1>3. /\ phase \in PhaseNames
      /\ Depth(phase) \in 0..5
      /\ i # 12 => /\ phase' \in PhaseNames
                   /\ Depth(phase') = IF phase \in Takers THEN Depth(phase) + 1
                                                          ELSE Depth(phase)
      /\ i = 12 => phase = "graph" /\ phase' = "unwind"
  BY <1>1, <1>2, PhasesFollow
<1>4. stack \in Seq(CallbackNames) /\ Len(stack) \in Nat
  BY DEF Process, ProcessTyped
<1>5. Len(stack) = Depth(phase)
  BY <1>3, RunningIs DEF Process, StackInOrder
<1>6. stack' = stack \o Registered(phase)
  BY DEF GoOn
<1>7. phase = "graph" => i = 12
  BY <1>1, <1>2, PhaseAt DEF PhaseIndices
<1>8. CASE phase \in Takers
  <2>1. /\ Registered(phase) \in Seq(CallbackNames)
        /\ Len(Registered(phase)) = 1
        /\ Registered(phase)[1] = Callbacks[Depth(phase) + 1]
    BY <1>8, TakersRegister
  <2>2. /\ stack' \in Seq(CallbackNames)
        /\ Len(stack') = Len(stack) + 1
        /\ \A k \in 1..Len(stack) + 1 :
             stack'[k] = IF k <= Len(stack) THEN stack[k]
                                            ELSE Registered(phase)[k - Len(stack)]
    <3>1. /\ stack' \in Seq(CallbackNames)
          /\ Len(stack') = Len(stack) + Len(Registered(phase))
          /\ \A k \in 1..Len(stack) + Len(Registered(phase)) :
               stack'[k] = IF k <= Len(stack) THEN stack[k]
                                              ELSE Registered(phase)[k - Len(stack)]
      BY <1>4, <1>6, <2>1, ConcatProperties
    <3>2. QED
      BY <2>1, <3>1
  <2>3. stack'[Len(stack) + 1] = Registered(phase)[1]
    <3>1. Len(stack) + 1 \in 1..Len(stack) + 1 /\ ~(Len(stack) + 1 <= Len(stack))
          /\ Len(stack) + 1 - Len(stack) = 1
      BY <1>4
    <3>2. QED
      BY <2>2, <3>1
  <2>4. \A k \in 1..Len(stack) : stack'[k] = stack[k]
    BY <1>4, <2>2
  <2>5. phase # "graph"
    BY <1>8 DEF Takers
  <2>6. i # 12
    BY <1>3, <2>5
  <2>7. QED
    BY <1>3, <1>5, <1>8, <2>1, <2>2, <2>3, <2>4, <2>5, <2>6
<1>9. CASE phase \notin Takers
  <2>1. Registered(phase) = <<>>
    BY <1>3, <1>9, OthersDoNot
  <2>2. stack' = stack
    BY <1>4, <1>6, <2>1, ConcatEmptySeq
  <2>3. QED
    BY <1>3, <1>4, <1>5, <1>7, <1>9, <2>2
<1>10. QED
  BY <1>8, <1>9

\* What a phase takes hold of, its callback lets go of.
LEMMA TakenIsReleased ==
  ASSUME Process, GoOn, NEW resource \in Acquired(phase)
  PROVE  /\ resource \in Resources
         /\ \E i \in 1..Len(stack') : resource \in Releases(stack'[i])
<1>1. /\ phase \in PhaseNames /\ Len(stack) = Depth(phase) /\ Len(stack) \in Nat
      /\ \A i \in 1..Len(stack) : stack'[i] = stack[i]
      /\ IF phase \in Takers
         THEN /\ Len(stack') = Len(stack) + 1
              /\ stack'[Len(stack')] = Registered(phase)[1]
         ELSE stack' = stack
  BY GoOnStack DEF Process, ProcessTyped
<1>2. CASE phase \in {"open_log", "router", "docker", "pool"}
  <2>1. PICK name \in {"log", "router", "docker", "pool"} : Registered(phase) = <<name>>
    BY <1>2, RegisteredAt
  <2>2. resource = name
    <3>1. resource \in ToSet(<<name>>)
      BY <1>2, <2>1 DEF Acquired, Registered
    <3>2. QED
      BY <3>1 DEF ToSet
  <2>3. Len(stack') \in 1..Len(stack') /\ stack'[Len(stack')] = name
    BY <1>1, <1>2, <2>1 DEF Takers
  <2>4. name \in Releases(name) /\ name \in Resources
    BY DEF Releases, Resources
  <2>5. QED
    BY <2>2, <2>3, <2>4
<1>3. CASE phase = "fill"
  <2>1. resource = "containers"
    BY <1>3 DEF Acquired
  <2>2. 5 \in 1..Len(stack') /\ stack'[5] = Callbacks[5]
    BY <1>1, <1>3, DepthAt, CallbackAt DEF Takers, Process, StackInOrder
  <2>3. QED
    BY <2>1, <2>2, CallbackAt DEF Releases, Resources
<1>4. CASE phase \notin {"open_log", "router", "docker", "pool", "fill"}
  BY <1>4 DEF Acquired
<1>5. QED
  BY <1>2, <1>3, <1>4

\* A phase that goes through keeps the invariant.
LEMMA GoOnKeeps == ASSUME Process, GoOn PROVE Process'
<1>1. /\ phase \in PhaseNames
      /\ Len(stack) = Depth(phase)
      /\ stack' \in Seq(CallbackNames)
      /\ \A i \in 1..Len(stack) : stack'[i] = stack[i]
      /\ IF phase \in Takers
         THEN /\ Len(stack') = Len(stack) + 1
              /\ stack'[Len(stack')] = Registered(phase)[1]
              /\ stack'[Len(stack')] = Callbacks[Len(stack')]
         ELSE stack' = stack
      /\ IF phase = "graph" THEN phase' = "unwind"
         ELSE phase' \in PhaseNames /\ Len(stack') = Depth(phase')
  BY GoOnStack
<1>2. Running /\ (Running' <=> phase # "graph")
  BY <1>1, RunningIs, RunningThen DEF PhaseNames
<1>3. /\ open' = open \cup Acquired(phase)
      /\ log' = CASE phase = "start_event" -> Append(log, "run.start")
                  [] phase = "graph"       -> Append(log, "work")
                  [] OTHER                 -> log
      /\ verdict' \in IF phase = "graph" THEN {"approve", "escalate"} ELSE {verdict}
      /\ UNCHANGED <<failed, error, cost, squashed, exit>>
  BY DEF GoOn
<1>4. /\ ProcessTyped /\ StackInOrder /\ HeldIsRegistered /\ LogEnds /\ VerdictIsReached
      /\ Len(stack) \in Nat /\ Len(stack) <= 5
  BY CallbackAt DEF Process, ProcessTyped, StackInOrder
<1>5. log' \in Seq(EventNames)
  BY <1>3, <1>4, Logged DEF ProcessTyped, EventNames
<1>6. ProcessTyped'
  <2>1. open' \subseteq Resources
    BY <1>3, <1>4, TakenIsReleased DEF ProcessTyped
  <2>2. verdict' \in {Unset, "approve", "escalate"}
    BY <1>3, <1>4 DEF ProcessTyped
  <2>3. phase # "exited" /\ phase' # "exited"
    BY <1>1 DEF PhaseNames
  <2>4. QED
    BY <1>1, <1>3, <1>4, <1>5, <2>1, <2>2, <2>3 DEF ProcessTyped
<1>7. StackInOrder'
  <2>1. Len(stack') <= Len(Callbacks)
    BY <1>1, <1>4, DepthAt, CallbackAt DEF Takers
  <2>2. ASSUME NEW i \in 1..Len(stack') PROVE stack'[i] = Callbacks[i]
    <3>1. i \in 1..Len(stack) \/ (phase \in Takers /\ i = Len(stack'))
      BY <1>1, <1>4
    <3>2. QED
      BY <1>1, <1>4, <3>1 DEF StackInOrder
  <2>3. phase' \notin {"report", "finalize", "exited"}
    BY <1>1 DEF PhaseNames
  <2>4. Running' => Len(stack') = Depth(phase')
    BY <1>1, <1>2
  <2>5. QED
    BY <2>1, <2>2, <2>3, <2>4 DEF StackInOrder
<1>8. HeldIsRegistered'
  <2>1. ASSUME NEW resource \in open' \ failed'
        PROVE  \E i \in 1..Len(stack') : resource \in Releases(stack'[i])
    <3>1. CASE resource \in Acquired(phase)
      BY <3>1, TakenIsReleased
    <3>2. CASE resource \in open \ failed
      <4>1. PICK i \in 1..Len(stack) : resource \in Releases(stack[i])
        BY <1>4, <3>2 DEF HeldIsRegistered
      <4>2. i \in 1..Len(stack') /\ stack'[i] = stack[i]
        BY <1>1, <1>4
      <4>3. QED
        BY <4>1, <4>2
    <3>3. QED
      BY <1>3, <2>1, <3>1, <3>2
  <2>2. QED
    BY <2>1 DEF HeldIsRegistered
<1>9. LogEnds'
  <2>1. CASE phase = "start_event"
    <3>1. log = <<>> /\ log' = Append(log, "run.start")
      BY <1>1, <1>2, <1>3, <1>4, <2>1, DepthAt DEF LogEnds
    <3>2. EndsOf(log') = {}
      BY <1>4, <3>1, EndsOfAppend, EndsOfEmpty DEF ProcessTyped, EventNames
    <3>3. Len(stack') = 2
      BY <1>1, <2>1, DepthAt DEF Takers
    <3>4. QED
      BY <3>2, <3>3 DEF LogEnds
  <2>2. CASE phase = "graph"
    <3>1. Len(stack) = 5 /\ stack' = stack
      BY <1>1, <2>2, DepthAt DEF Takers
    <3>2. EndsOf(log) = {} /\ log' = Append(log, "work")
      BY <1>3, <1>4, <2>2, <3>1 DEF LogEnds
    <3>3. EndsOf(log') = {}
      BY <1>4, <3>2, EndsOfAppend DEF ProcessTyped, EventNames
    <3>4. QED
      BY <3>1, <3>3 DEF LogEnds
  <2>3. CASE phase \notin {"start_event", "graph"}
    <3>1. log' = log /\ verdict' = verdict /\ Running'
      BY <1>2, <1>3, <2>3
    <3>2. CASE Len(stack) >= 2
      <4>1. Len(stack') >= 2
        BY <1>1, <1>4, <3>2
      <4>2. QED
        BY <1>4, <3>1, <3>2, <4>1 DEF LogEnds
    <3>3. CASE Len(stack) < 2
      <4>1. Len(stack') < 2
        BY <1>1, <1>4, <2>3, <3>3, DepthAt DEF PhaseNames, Takers
      <4>2. log = <<>>
        BY <1>2, <1>4, <3>3 DEF LogEnds
      <4>3. EndsOf(log') = {}
        BY <3>1, <4>2, EndsOfEmpty
      <4>4. QED
        BY <1>4, <3>1, <4>1, <4>2, <4>3 DEF LogEnds
    <3>4. QED
      BY <1>4, <3>2, <3>3
  <2>4. QED
    BY <2>1, <2>2, <2>3
<1>10. VerdictIsReached'
  <2>1. Running' => verdict' = Unset
    BY <1>2, <1>3, <1>4 DEF VerdictIsReached
  <2>2. verdict' # Unset => log' # <<>>
    <3>1. CASE phase = "graph"
      <4>1. log' = Append(log, "work")
        BY <1>3, <3>1
      <4>2. Len(log') = Len(log) + 1 /\ Len(log) \in Nat
        BY <1>4, <4>1, Logged DEF ProcessTyped, EventNames
      <4>3. QED
        BY <4>2
    <3>2. CASE phase # "graph"
      BY <1>2, <1>3, <1>4, <3>2 DEF VerdictIsReached
    <3>3. QED
      BY <3>1, <3>2
  <2>3. phase' \notin {"report", "finalize"}
    BY <1>1 DEF PhaseNames
  <2>4. exit' # 0
    <3>1. phase # "exited"
      BY <1>1 DEF PhaseNames
    <3>2. QED
      BY <1>3, <1>4, <3>1, LifecycleAssumption DEF ProcessTyped
  <2>5. QED
    BY <2>1, <2>2, <2>3, <2>4 DEF VerdictIsReached
<1>11. QED
  BY <1>6, <1>7, <1>8, <1>9, <1>10 DEF Process

\* So does a phase that raises.
LEMMA RaiseKeeps == ASSUME Process, Raise PROVE Process'
<1>1. /\ ProcessTyped /\ StackInOrder /\ HeldIsRegistered /\ LogEnds /\ VerdictIsReached
      /\ Running /\ phase \in PhaseNames /\ ~Running' /\ phase' = "unwind"
      /\ Len(stack) = Depth(phase)
  BY RunningIs, RunningThen DEF Process, Raise, StackInOrder, PhaseNames
<1>2. /\ UNCHANGED <<stack, failed, verdict, cost, squashed, exit>>
      /\ error' \in {"error", "exit_2"}
      /\ open' = open \/ (phase = "fill" /\ open' = open \cup {"containers"})
      /\ log' = log \/ (phase = "graph" /\ log' = Append(log, "work"))
  <2>1. UNCHANGED <<stack, failed, verdict, cost, squashed, exit>>
    BY DEF Raise
  <2>2. error' \in {"error", "exit_2"}
    BY DEF Raise
  <2>3. open' = open \/ (phase = "fill" /\ open' = open \cup {"containers"})
    BY DEF Raise
  <2>4. log' = log \/ (phase = "graph" /\ log' = Append(log, "work"))
    BY DEF Raise
  <2>5. QED
    BY <2>1, <2>2, <2>3, <2>4
<1>3. log \in Seq(EventNames) /\ "work" \in EventNames
  BY <1>1 DEF ProcessTyped, EventNames
<1>4. log' \in Seq(EventNames)
  BY <1>2, <1>3, Logged
<1>5. ProcessTyped'
  <2>1. open' \subseteq Resources
    BY <1>1, <1>2 DEF ProcessTyped, Resources
  <2>2. phase # "exited"
    BY <1>1 DEF PhaseNames
  <2>3. QED
    BY <1>1, <1>2, <1>4, <2>1, <2>2 DEF ProcessTyped
<1>6. StackInOrder'
  BY <1>1, <1>2 DEF StackInOrder
<1>7. HeldIsRegistered'
  <2>1. ASSUME NEW resource \in open' \ failed'
        PROVE  \E i \in 1..Len(stack') : resource \in Releases(stack'[i])
    <3>1. CASE resource \in open
      <4>1. PICK i \in 1..Len(stack) : resource \in Releases(stack[i])
        BY <1>1, <1>2, <2>1, <3>1 DEF HeldIsRegistered
      <4>2. QED
        BY <1>2, <4>1
    <3>2. CASE resource \notin open
      <4>1. phase = "fill" /\ resource = "containers"
        BY <1>2, <2>1, <3>2
      <4>2. 5 \in 1..Len(stack') /\ stack'[5] = "pool"
        BY <1>1, <1>2, <4>1, DepthAt, CallbackAt DEF StackInOrder
      <4>3. QED
        BY <4>1, <4>2 DEF Releases
    <3>3. QED
      BY <3>1, <3>2
  <2>2. QED
    BY <2>1 DEF HeldIsRegistered
<1>8. LogEnds'
  <2>1. CASE log' = log
    BY <1>1, <1>2, <2>1 DEF LogEnds
  <2>2. CASE phase = "graph" /\ log' = Append(log, "work")
    <3>1. Len(stack) = 5
      BY <1>1, <2>2, DepthAt
    <3>2. EndsOf(log) = {}
      BY <1>1, <3>1 DEF LogEnds
    <3>3. EndsOf(log') = {}
      BY <1>3, <2>2, <3>2, EndsOfAppend
    <3>4. QED
      BY <1>2, <3>1, <3>3 DEF LogEnds
  <2>3. QED
    BY <1>2, <2>1, <2>2
<1>9. VerdictIsReached'
  <2>1. verdict' = Unset
    BY <1>1, <1>2 DEF VerdictIsReached
  <2>2. exit' # 0
    <3>1. phase # "exited"
      BY <1>1 DEF PhaseNames
    <3>2. QED
      BY <1>1, <1>2, <3>1, LifecycleAssumption DEF ProcessTyped
  <2>3. QED
    BY <1>1, <2>1, <2>2 DEF VerdictIsReached
<1>10. QED
  BY <1>5, <1>6, <1>7, <1>8, <1>9 DEF Process

\* The depths an unwinding stack can have.
LEMMA UpToFive ==
  ASSUME NEW n \in Nat \ {0}, n <= 5
  PROVE  n \in 1..5 /\ n \in {1, 2, 3, 4, 5} /\ (n = 1 \/ n = 2 \/ n > 2)
OBVIOUS

\* So does a callback, whether it succeeds or raises.
LEMMA UnwindKeeps == ASSUME Process, Unwind PROVE Process'
<1> DEFINE callback == stack[Len(stack)]
<1>1. /\ ProcessTyped /\ StackInOrder /\ HeldIsRegistered /\ LogEnds /\ VerdictIsReached
      /\ phase = "unwind" /\ phase' = "unwind" /\ ~Running /\ ~Running'
      /\ UNCHANGED <<verdict, cost, squashed, exit>>
  BY RunningIs, RunningThen DEF Process, Unwind, PhaseNames
<1>2. stack \in Seq(CallbackNames) /\ stack # <<>> /\ stack' = RemoveAt(stack, Len(stack))
  BY DEF Process, ProcessTyped, Unwind, Top
<1>3. /\ Len(stack) \in 1..5 /\ Len(stack) \in {1, 2, 3, 4, 5}
      /\ Len(stack) = 1 \/ Len(stack) = 2 \/ Len(stack) > 2
  <2>1. Len(stack) \in Nat \ {0}
    BY <1>2
  <2>2. QED
    <3>1. Len(stack) <= 5
      BY <1>1, CallbackAt DEF StackInOrder
    <3>2. QED
      BY <2>1, <3>1, UpToFive
<1>4. /\ stack' \in Seq(CallbackNames)
      /\ Len(stack') = Len(stack) - 1
      /\ \A i \in 1..Len(stack) - 1 : stack'[i] = stack[i]
  BY <1>2, Popped
<1>5. callback = Callbacks[Len(stack)]
  BY <1>1, <1>3 DEF StackInOrder
<1>6. callback = "run.end" <=> Len(stack) = 2
  <2> HIDE DEF callback
  <2>1. QED
    BY <1>3, <1>5, CallbackAt
<1>7. Call(callback)
  BY DEF Unwind, Top
<1> HIDE DEF callback
<1>8. log' = log \/ (callback = "run.end"
                     /\ log' = Append(log, IF verdict = "approve" THEN "run.end.ok"
                                                                 ELSE "run.end"))
  BY <1>7 DEF Call
<1>9. log \in Seq(EventNames)
  BY <1>1 DEF ProcessTyped
<1>10. ProcessTyped'
  <2>1. log' \in Seq(EventNames)
    BY <1>8, <1>9, Logged DEF EventNames
  <2>2. open' \subseteq Resources /\ failed' \subseteq {"router", "docker", "containers"}
        /\ error' \in {Unset, "exit_2", "error"}
    BY <1>1, <1>7 DEF Call, ProcessTyped
  <2>3. QED
    BY <1>1, <1>4, <2>1, <2>2 DEF ProcessTyped
<1>11. StackInOrder'
  <2>1. Len(stack') <= Len(Callbacks) /\ \A i \in 1..Len(stack') : stack'[i] = Callbacks[i]
    BY <1>1, <1>3, <1>4, CallbackAt DEF StackInOrder
  <2>2. QED
    BY <1>1, <2>1 DEF StackInOrder
<1>12. HeldIsRegistered'
  <2>1. ASSUME NEW resource \in open' \ failed'
        PROVE  \E i \in 1..Len(stack') : resource \in Releases(stack'[i])
    <3>1. resource \in open \ failed /\ resource \in Resources
      BY <1>1, <1>7, <2>1 DEF Call, ProcessTyped
    <3>2. PICK i \in 1..Len(stack) : resource \in Releases(stack[i])
      BY <1>1, <3>1 DEF HeldIsRegistered
    <3>3. resource \notin Releases(callback)
      <4>1. CASE callback = "run.end"
        BY <3>1, <4>1 DEF Releases, Resources
      <4>2. CASE callback # "run.end" /\ open' = open \ Releases(callback)
        BY <2>1, <4>2
      <4>3. CASE callback \in {"router", "docker"} /\ failed' = failed \cup {callback}
        BY <2>1, <4>3 DEF Releases
      <4>4. CASE /\ callback = "pool" /\ open' = open \ {"pool"}
                 /\ failed' = failed \cup {"containers"}
        BY <2>1, <4>4 DEF Releases
      <4>5. QED
        BY <1>7, <4>1, <4>2, <4>3, <4>4 DEF Call
    <3>4. i # Len(stack)
      BY <3>2, <3>3 DEF callback
    <3>5. i \in 1..Len(stack') /\ stack'[i] = stack[i]
      BY <1>3, <1>4, <3>2, <3>4
    <3>6. QED
      BY <3>2, <3>5
  <2>2. QED
    BY <2>1 DEF HeldIsRegistered
<1>13. LogEnds'
  <2>1. CASE Len(stack) = 2 /\ log' # log
    <3> DEFINE event == IF verdict = "approve" THEN "run.end.ok" ELSE "run.end"
    <3>1. log' = Append(log, event)
      BY <1>8, <2>1
    <3>2. event \in EventNames /\ event \in {"run.end", "run.end.ok"}
      BY DEF EventNames
    <3> HIDE DEF event
    <3>3. EndsOf(log) = {}
      BY <1>1, <2>1 DEF LogEnds
    <3>4. /\ EndsOf(log') = {Len(log) + 1}
          /\ Len(log') = Len(log) + 1
          /\ log'[Len(log) + 1] = event
      BY <1>9, <3>1, <3>2, <3>3, EndsOfAppend, Logged
    <3>5. Len(stack') = 1
      BY <1>4, <2>1
    <3>6. QED
      BY <1>1, <3>4, <3>5 DEF LogEnds, event
  <2>2. CASE log' = log
    <3>1. CASE Len(stack) = 2
      <4>1. \E event : log' = Append(log, event)
        BY <1>6, <1>7, <3>1 DEF Call
      <4>2. Len(log') = Len(log) + 1 /\ Len(log) \in Nat
        BY <1>9, <4>1
      <4>3. QED
        BY <2>2, <4>2
    <3>2. CASE Len(stack) > 2
      <4>1. Len(stack') >= 2
        BY <1>3, <1>4, <3>2
      <4>2. EndsOf(log') = {}
        BY <1>1, <1>3, <2>2, <3>2 DEF LogEnds
      <4>3. QED
        BY <4>1, <4>2 DEF LogEnds
    <3>3. CASE Len(stack) = 1
      <4>1. Len(stack') = 0
        BY <1>4, <3>3
      <4>2. QED
        BY <1>1, <2>2, <3>3, <4>1 DEF LogEnds
    <3>4. QED
      BY <1>3, <3>1, <3>2, <3>3
  <2>3. QED
    BY <1>6, <1>8, <2>1, <2>2
<1>14. VerdictIsReached'
  <2>1. log # <<>> => log' # <<>>
    <3>1. ASSUME NEW event, log' = Append(log, event) PROVE log' # <<>>
      <4>1. Len(log') = Len(log) + 1 /\ Len(log) \in Nat
        BY <1>9, <3>1
      <4>2. QED
        BY <4>1
    <3>2. QED
      BY <1>8, <3>1
  <2>2. exit' # 0
    BY <1>1, LifecycleAssumption DEF ProcessTyped
  <2>3. QED
    BY <1>1, <2>1, <2>2 DEF VerdictIsReached
<1>15. QED
  BY <1>10, <1>11, <1>12, <1>13, <1>14 DEF Process

\* What comes after the stack touches only the outcome.
LEMMA EndingKeeps ==
  ASSUME Process, Unwound \/ Summarise \/ Finalize \/ Kill \/ UNCHANGED processVars
  PROVE  Process'
<1>1. /\ ProcessTyped /\ StackInOrder /\ HeldIsRegistered /\ LogEnds /\ VerdictIsReached
  BY DEF Process
<1>2. CASE Unwound \/ Summarise \/ Finalize \/ Kill
  <2>1. UNCHANGED <<stack, open, failed, log, verdict, error>>
    BY <1>2 DEF Unwound, Summarise, Finalize, Kill
  <2>2. /\ phase' \in {"report", "finalize", "exited", "killed"}
        /\ phase' # "killed" => phase \in {"unwind", "report", "finalize"}
        /\ phase # "exited"
        /\ phase = "unwind" /\ phase' # "killed" => stack = <<>>
        /\ phase' = "exited" => exit' \in {0, 1, 2}
        /\ phase' # "exited" => exit' = exit
    BY <1>2 DEF Unwound, Summarise, Finalize, Kill, Exit
  <2>3. ~Running' /\ (phase' # "killed" => ~Running)
    BY <2>2, RunningIs, RunningThen DEF PhaseNames
  <2>4. ProcessTyped'
    <3>1. cost' \in BOOLEAN /\ squashed' \in BOOLEAN
      BY <1>1, <1>2 DEF Unwound, Summarise, Finalize, Kill, ProcessTyped
    <3>2. exit = Unset
      BY <1>1, <2>2 DEF ProcessTyped
    <3>3. exit' \in {Unset, 0, 1, 2} /\ (phase' = "exited" <=> exit' # Unset)
      BY <2>2, <3>2, LifecycleAssumption
    <3>4. QED
      BY <1>1, <2>1, <2>2, <3>1, <3>3 DEF ProcessTyped
  <2>5. StackInOrder'
    <3>1. phase' # "killed" => stack = <<>>
      BY <1>1, <2>2 DEF StackInOrder
    <3>2. QED
      BY <1>1, <2>1, <2>2, <2>3, <3>1 DEF StackInOrder
  <2>6. HeldIsRegistered' /\ LogEnds'
    BY <1>1, <2>1, <2>3, EndsOfEmpty DEF HeldIsRegistered, LogEnds
  <2>7. VerdictIsReached'
    <3>1. CASE Kill
      BY <1>1, <2>1, <2>2, <2>3, <3>1 DEF Kill, VerdictIsReached
    <3>2. CASE Unwound
      BY <1>1, <2>1, <2>3, <3>2, LifecycleAssumption
         DEF Unwound, Exit, VerdictIsReached, ProcessTyped
    <3>3. CASE Summarise
      BY <1>1, <2>1, <2>3, <3>3, LifecycleAssumption
         DEF Summarise, Exit, VerdictIsReached, ProcessTyped
    <3>4. CASE Finalize
      BY <1>1, <2>1, <2>3, <3>4 DEF Finalize, Exit, VerdictIsReached
    <3>5. QED
      BY <1>2, <3>1, <3>2, <3>3, <3>4
  <2>8. QED
    BY <2>4, <2>5, <2>6, <2>7 DEF Process
<1>3. CASE UNCHANGED processVars
  BY <1>1, <1>3 DEF processVars, ProcessTyped, StackInOrder, HeldIsRegistered, LogEnds,
     VerdictIsReached, Running, Process
<1>4. QED
  BY <1>2, <1>3

\* The invariant holds in every state of every process.
LEMMA AlwaysProcess == ProcessSpec => []Process
<1>1. Process /\ [ProcessNext]_processVars => Process'
  BY GoOnKeeps, RaiseKeeps, UnwindKeeps, EndingKeeps DEF ProcessNext
<1>2. QED
  BY ProcessStart, <1>1, PTL DEF ProcessSpec

(* Every variable of the process stays in its range.                       *)
THEOREM ProcessIsTyped == ProcessSpec => []ProcessTypeOK
<1>1. ASSUME NEW S, NEW s \in Seq(S) PROVE ToSet(s) \subseteq S
  BY DEF ToSet
<1>2. Process => ProcessTypeOK
  <2> SUFFICES ASSUME Process PROVE ProcessTypeOK
    OBVIOUS
  <2>1. ToSet(stack) \subseteq CallbackNames /\ ToSet(log) \subseteq EventNames
    BY <1>1 DEF Process, ProcessTyped
  <2>2. QED
    BY <2>1, PhasesAre DEF Process, ProcessTyped, ProcessTypeOK, CallbackNames, EventNames
<1>3. QED
  BY AlwaysProcess, <1>2, PTL

\* No teardown is called while the phases run, and one that raises leaves
\* an error no later callback takes back.
FailuresAreErrors ==
  /\ Running => failed = {}
  /\ failed # {} => error = "error"

\* That survives every step.
LEMMA FailuresStay ==
  ASSUME Process, FailuresAreErrors, [ProcessNext]_processVars
  PROVE  FailuresAreErrors'
<1>1. CASE GoOn \/ Raise
  <2>1. Running /\ UNCHANGED failed
    <3>1. CASE GoOn
      <4>1. PICK i \in PhaseIndices : phase = Phases[i]
        BY <3>1, PhaseAt DEF GoOn
      <4>2. QED
        BY <3>1, <4>1, PhasesFollow, RunningIs DEF GoOn
    <3>2. QED
      BY <1>1, <3>1 DEF Raise
  <2>2. QED
    BY <2>1 DEF FailuresAreErrors
<1>2. CASE Unwind
  <2>1. phase' = "unwind" /\ ~Running'
    BY <1>2, RunningThen DEF Unwind, PhaseNames
  <2>2. failed' # {} => error' = "error"
    BY <1>2 DEF Unwind, Call, FailuresAreErrors
  <2>3. QED
    BY <2>1, <2>2 DEF FailuresAreErrors
<1>3. CASE Unwound \/ Summarise \/ Finalize \/ Kill
  <2>1. UNCHANGED <<failed, error>> /\ ~Running'
    <3>1. phase' \in {"report", "finalize", "exited", "killed"}
      BY <1>3 DEF Unwound, Summarise, Finalize, Kill, Exit
    <3>2. QED
      BY <1>3, <3>1, RunningThen DEF PhaseNames, Unwound, Summarise, Finalize, Kill
  <2>2. QED
    BY <2>1 DEF FailuresAreErrors
<1>4. CASE UNCHANGED processVars
  BY <1>4 DEF processVars, FailuresAreErrors, Running
<1>5. QED
  BY <1>1, <1>2, <1>3, <1>4 DEF ProcessNext

\* So it always holds.
LEMMA FailuresAlwaysError == ProcessSpec => []FailuresAreErrors
<1>1. ProcessInit => FailuresAreErrors
  BY DEF ProcessInit, FailuresAreErrors
<1>2. QED
  BY <1>1, AlwaysProcess, FailuresStay, PTL DEF ProcessSpec

(* Past the stack, whatever raised, nothing the process acquired is left   *)
(* but what its own teardown raised over, and then the run is an error.    *)
THEOREM NothingStaysHeld == ProcessSpec => []NothingIsStranded
<1>1. Process /\ FailuresAreErrors => NothingIsStranded
  <2> SUFFICES ASSUME Process, FailuresAreErrors,
                      phase \in {"report", "finalize", "exited"}
               PROVE  open \subseteq failed /\ (failed # {} => error = "error")
    BY DEF NothingIsStranded
  <2>1. Len(stack) = 0
    BY DEF Process, StackInOrder
  <2>2. QED
    BY <2>1 DEF Process, HeldIsRegistered, FailuresAreErrors
<1>2. QED
  BY AlwaysProcess, FailuresAlwaysError, <1>1, PTL

(* A started run's log has one end, nothing after it, and when it is       *)
(* written only the log itself is still held.                              *)
THEOREM RunEndsLast == ProcessSpec => []RunEndIsLast
<1>1. Process => RunEndIsLast
  <2> SUFFICES ASSUME Process PROVE RunEndIsLast
    OBVIOUS
  <2>1. /\ ProcessTyped /\ StackInOrder /\ HeldIsRegistered /\ LogEnds
        /\ Ended = EndsOf(log) /\ Len(stack) \in Nat
    BY DEF Process, ProcessTyped, Ended, EndsOf
  <2>2. Ended \subseteq {Len(log)}
    BY <2>1, EndsOfEmpty DEF LogEnds
  <2>3. Ended # {} => open \subseteq {"log"} \cup failed
    <3> SUFFICES ASSUME Ended # {}, NEW resource \in open, resource \notin failed
                 PROVE  resource = "log"
      OBVIOUS
    <3>1. Len(stack) < 2
      BY <2>1 DEF LogEnds
    <3>2. PICK i \in 1..Len(stack) : resource \in Releases(stack[i])
      BY <2>1 DEF HeldIsRegistered
    <3>3. i = 1 /\ stack[i] = "log"
      BY <2>1, <3>1, <3>2, CallbackAt DEF StackInOrder
    <3>4. QED
      BY <3>2, <3>3 DEF Releases
  <2>4. phase = "exited" /\ log # <<>> => Ended # {}
    <3> SUFFICES ASSUME phase = "exited", log # <<>> PROVE Ended # {}
      OBVIOUS
    <3>1. Len(stack) = 0 /\ ~Running
      BY <2>1, RunningIs DEF StackInOrder, PhaseNames
    <3>2. EndsOf(log) = {Len(log)}
      BY <2>1, <3>1 DEF LogEnds
    <3>3. QED
      BY <2>1, <3>2
  <2>5. QED
    BY <2>2, <2>3, <2>4 DEF RunEndIsLast
<1>2. QED
  BY AlwaysProcess, <1>1, PTL

(* Exit code 0 means an approved, squashed and accounted run without an    *)
(* error, whose log ends with an ok.                                       *)
THEOREM SuccessIsEarned == ProcessSpec => []ExitZeroIsEarned
<1>1. Process => ExitZeroIsEarned
  <2> SUFFICES ASSUME Process, exit = 0 PROVE ExitZeroIsEarned!2
    BY DEF ExitZeroIsEarned
  <2>1. /\ ProcessTyped /\ StackInOrder /\ LogEnds /\ VerdictIsReached
    BY DEF Process
  <2>2. phase = "exited"
    BY <2>1, LifecycleAssumption DEF ProcessTyped
  <2>3. Len(stack) = 0 /\ ~Running
    BY <2>1, <2>2, RunningIs DEF StackInOrder, PhaseNames
  <2>4. verdict = "approve" /\ squashed /\ cost /\ error = Unset
    BY <2>1 DEF VerdictIsReached
  <2>5. EndsOf(log) = {Len(log)}
    BY <2>1, <2>3, <2>4, LifecycleAssumption DEF LogEnds, VerdictIsReached
  <2>6. Last(log) = "run.end.ok"
    BY <2>1, <2>4, <2>5 DEF LogEnds, Last
  <2>7. QED
    BY <2>4, <2>6
<1>2. QED
  BY AlwaysProcess, <1>1, PTL
=============================================================================
