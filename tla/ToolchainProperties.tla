------------------------- MODULE ToolchainProperties --------------------------
(***************************************************************************)
(* What the gates may rely on.                                             *)
(***************************************************************************)
EXTENDS Toolchain

Files == {Absent, Torn, Alien}
           \cup {Entry(manifest, proposal) : manifest \in Manifests, proposal \in Proposals}
Installed == [install : Commands, on : Manifests, ok : {TRUE}]

(* Every variable stays in its range; no failed install is ever committed. *)
TypeOK ==
  /\ repo \in Manifests
  /\ cache \in [Manifests -> Files]
  /\ images \in [PyManifests -> Installed \cup {None}]
  /\ pc \in [Runs -> {"idle", "load", "ask", "saving", "writing", "image",
                      "install", "ready", "exit 2", "raised"}]
  /\ worktree \in [Runs -> Manifests]
  /\ toolchain \in [Runs -> Proposals \cup {None}]
  /\ image \in [Runs -> Installed \cup {None}]
  /\ edited \in BOOLEAN

(* What the gates run was validated: whatever two processes write into the *)
(* same cache file at once, and wherever one of them dies, a run that gets *)
(* to its image has commands of the allowlist and something to gate on, as *)
(* long as no user wrote the file.                                         *)
OnlyValidatedToolchains ==
  ~edited => \A run \in Runs :
    pc[run] \in {"image", "install", "ready"} => Valid(toolchain[run])

(* The verdict is the required commands' alone: a pass means each of them  *)
(* ran and exited 0; a failure names the first that did not, and nothing   *)
(* ran after it.                                                           *)
VerdictIsTheFirstFailure ==
  \A run \in Runs : outcome[run] # None =>
    LET gates == outcome[run].gates
        codes == outcome[run].required
        tools == toolchain[run].required
    IN /\ gates.passed <=> \A i \in DOMAIN codes : codes[i] = 0
       /\ gates.passed => IsPrefix(tools, gates.calls)
       /\ ~gates.passed =>
            LET last == Len(gates.calls) IN
            /\ IsPrefix(gates.calls, tools)
            /\ codes[last] # 0
            /\ \A i \in 1..last - 1 : codes[i] = 0
            /\ gates.failed_command = tools[last]
            /\ gates.infrastructure_failure <=> codes[last] = -1

(* The installed image belongs to the Python manifests of the run that     *)
(* uses it, however runs and manifest edits interleave.                    *)
ImageMatchesPythonManifests ==
  \A run \in Runs : image[run] # None => image[run].on.py = worktree[run].py
=============================================================================
