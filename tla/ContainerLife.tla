---------------------------- MODULE ContainerLife ----------------------------
(***************************************************************************)
(* What a run does to its containers, with no pool, queue or thread in it: *)
(* each is made and started once, serves at most one evaluation, alone,    *)
(* and is removed when that is over - or, never having served, when the    *)
(* run closes.  Docker may fail to make, start or remove one.  Closing may *)
(* be cut short by a removal; then only containers that never served are   *)
(* left, and otherwise none but those Docker failed with.                  *)
(***************************************************************************)
CONSTANT Containers

VARIABLES
  life,   \* "absent", "created", "fresh", "busy", "used", "gone" or "lost"
  stage   \* of the run: "open", "closing" or "over"

lifeVars == <<life, stage>>

\* A container moves on to the next part of its life.
Becomes(container, next) == life' = [life EXCEPT ![container] = next]

LifeInit ==
  /\ life = [container \in Containers |-> "absent"]
  /\ stage = "open"

Make(container) ==
  /\ stage # "over"
  /\ life[container] = "absent"
  /\ Becomes(container, "created")
  /\ UNCHANGED stage

StartUp(container) ==
  /\ stage # "over"
  /\ life[container] = "created"
  /\ Becomes(container, "fresh")
  /\ UNCHANGED stage

\* To the one evaluation there is: started before, or for it.
Serve(container) ==
  /\ stage = "open"
  /\ life[container] \in {"created", "fresh"}
  /\ \A other \in Containers : life[other] # "busy"
  /\ Becomes(container, "busy")
  /\ UNCHANGED stage

GiveBack(container) ==
  /\ stage = "open"
  /\ life[container] = "busy"
  /\ Becomes(container, "used")
  /\ UNCHANGED stage

Disposable(container) ==
  \/ life[container] = "used"
  \/ life[container] = "fresh" /\ stage = "closing"

Remove(container) ==
  /\ stage # "over"
  /\ Disposable(container)
  /\ Becomes(container, "gone")
  /\ UNCHANGED stage

Lose(container) ==
  /\ stage # "over"
  /\ life[container] \in {"absent", "created"} \/ Disposable(container)
  /\ Becomes(container, "lost")
  /\ UNCHANGED stage

CloseRun ==
  /\ stage = "open"
  /\ \A container \in Containers : life[container] # "busy"
  /\ stage' = "closing"
  /\ UNCHANGED life

EndOfRun ==
  /\ stage = "closing"
  /\ \A container \in Containers : life[container] \in {"absent", "gone", "lost"}
  /\ stage' = "over"
  /\ UNCHANGED life

\* The error of a removal ends the closing.
CutShort(container) ==
  /\ stage = "closing"
  /\ Disposable(container)
  /\ \A other \in Containers \ {container} :
       life[other] \in {"absent", "fresh", "gone", "lost"}
  /\ Becomes(container, "gone") \/ Becomes(container, "lost")
  /\ stage' = "over"

LifeNext ==
  \/ \E container \in Containers :
       \/ Make(container)
       \/ StartUp(container)
       \/ Serve(container)
       \/ GiveBack(container)
       \/ Remove(container)
       \/ Lose(container)
       \/ CutShort(container)
  \/ CloseRun
  \/ EndOfRun

LifeSpec == LifeInit /\ [][LifeNext]_lifeVars
=============================================================================
