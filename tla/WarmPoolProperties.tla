-------------------------- MODULE WarmPoolProperties --------------------------
(***************************************************************************)
(* What the pool promises: every evaluation runs in a fresh, running       *)
(* container, and, unless shutdown() itself raises, none is forgotten and  *)
(* none outlives the run.                                                  *)
(***************************************************************************)
EXTENDS WarmPool

Labels == {"creating", "starting", "idle", "acquiring", "using", "closing",
           "joining", "draining", "closed", "destroying", "checking"}

(* Every variable stays in its range; numbers are handed out once.         *)
TypeOK ==
  /\ pc \in [Threads -> Labels]
  /\ mine \in [Threads -> Containers \cup {None}]
  /\ status \in [Containers -> {"absent", "created", "running", "gone"}]
  /\ counter \in 0..MaxContainers
  /\ ready \in Seq(Containers)
  /\ tasks \in Seq(Containers)
  /\ closed \in BOOLEAN
  /\ filled \in 0..Size
  /\ evaluations \in 0..MaxEvaluations
  /\ handed \subseteq Containers
  /\ abandoned \subseteq Containers
  /\ growth \in Int

Replacing == {worker \in Workers : pc[worker] # "idle"}

(* The pool keeps its size: while it is open, the containers ready, queued *)
(* for replacement, being replaced or in use are warm_pool_size, plus one  *)
(* for every cold fallback, less one for every replacement not made: one   *)
(* that failed, or one never tried because the removal before it raised.   *)
PoolKeepsItsSize ==
  ~closed /\ ~Filling /\ pc[Main] \in {"idle", "acquiring", "using"} =>
    Len(ready) + Len(tasks) + Cardinality(Replacing)
      + (IF pc[Main] = "using" THEN 1 ELSE 0) = Size + growth

(* A container's life, seen from outside the pool.                         *)
Life(container) ==
  CASE container \in abandoned -> "lost"
    [] container \notin abandoned /\ status[container] \in {"absent", "gone"} ->
         status[container]
    [] container \notin abandoned /\ status[container] \in {"created", "running"} ->
         IF container \in handed
         THEN IF pc[Main] = "using" /\ mine[Main] = container THEN "busy" ELSE "used"
         ELSE IF status[container] = "created" THEN "created" ELSE "fresh"

Stage == IF pc[Main] = "closed" THEN "over" ELSE IF closed THEN "closing" ELSE "open"

Lives == INSTANCE ContainerLife WITH
  life <- [container \in Containers |-> Life(container)],
  stage <- Stage

(* "Containers are destroyed rather than wiped and reused": through every  *)
(* interleaving of the threads and every failure of Docker, no container   *)
(* serves two evaluations or is removed under one, and when the run is     *)
(* over none is left but those Docker failed with and, when a removal      *)
(* raised out of shutdown(), some that never served: its docstring says    *)
(* "Drain and destroy every container - pooled or in flight".              *)
ImplementsContainerLife == Lives!LifeInit /\ [][Lives!LifeNext]_(Lives!lifeVars)

(* An acquire ends with a container in hand or with an error, even if no   *)
(* container is ever put back.                                             *)
AcquiresEnd == pc[Main] = "acquiring" ~> pc[Main] \in {"using", "closing"}

(* Shutdown ends: it waits for workers that wait for nothing.              *)
ShutdownEnds == pc[Main] = "closing" ~> pc[Main] = "closed"
=============================================================================
