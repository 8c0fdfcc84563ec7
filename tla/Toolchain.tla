------------------------------ MODULE Toolchain -------------------------------
(***************************************************************************)
(* Which commands a run's gates execute, in which image, and what their    *)
(* exit codes decide: adapters/discovery.py (discovery and its cache),     *)
(* prepare_gate_image and _run_install of sandbox/pool.py, graph/gates.py. *)
(*                                                                         *)
(* Several CLI processes work on one repository: they share the cache      *)
(* files under .xeno/discovery and Docker's images, and the user edits     *)
(* manifests and cache files between their steps.                          *)
(***************************************************************************)
EXTENDS Integers, FiniteSets, SequencesExt

CONSTANTS
  Runs,         \* CLI processes
  PyManifests,  \* contents of requirements.txt and pyproject.toml
  JsManifests,  \* contents of the other manifest files
  Commands,     \* argument vectors
  Allowed,      \* those whose executable is in _ALLOWED_EXECUTABLES
  Proposals,    \* toolchains a model or a user may write down
  None          \* no command, toolchain, image or verdict

Manifests == [py : PyManifests, js : JsManifests]

ASSUME ToolchainAssumption ==
  /\ Allowed \subseteq Commands
  /\ None \notin Commands
  /\ \A proposal \in Proposals :
       /\ proposal.install \in Commands \cup {None}
       /\ proposal.required \in Seq(Commands)
       /\ proposal.advisory \in Seq(Commands)

VARIABLES
  repo,       \* the repository's manifests now
  cache,      \* the file of each fingerprint under .xeno/discovery
  images,     \* what each install tag holds: command and manifests, or None
  pc,         \* where each run is
  worktree,   \* the manifests each run copied
  toolchain,  \* each run's toolchain
  image,      \* what is installed in the image each run's gates use
  outcome,    \* GateOutcome of each run's last evaluation
  edited      \* history variable: the user wrote a cache file

shared == <<repo, cache, images, edited>>
own    == <<pc, worktree, toolchain, image, outcome>>
vars   == <<shared, own>>

\* A cache file: no file; bytes that do not decode; JSON that is no object;
\* or a well-formed entry with the fingerprint it was written for.
Absent == [kind |-> "absent"]
Torn   == [kind |-> "torn"]
Alien  == [kind |-> "alien"]
Entry(manifest, proposal) ==
  [kind |-> "entry", fingerprint |-> manifest, toolchain |-> proposal]

\* manifest_fingerprint covers every manifest file, _deps_hash only two.
DepsHash(manifest) == manifest.py

-----------------------------------------------------------------------------
(* Discovery.                                                              *)

At(run, from, to) == pc[run] = from /\ pc' = [pc EXCEPT ![run] = to]

\* The run copies the repository.
Start(run) ==
  /\ At(run, "idle", "load")
  /\ worktree' = [worktree EXCEPT ![run] = repo]
  /\ UNCHANGED <<shared, toolchain, image, outcome>>

\* A well-formed entry for these manifests.
Usable(run) ==
  /\ cache[worktree[run]].kind = "entry"
  /\ cache[worktree[run]].fingerprint = worktree[run]

\* A hit is used as it is; anything else is a miss, but an alien file raises.
Load(run) ==
  /\ \/ /\ Usable(run)
        /\ At(run, "load", "image")
        /\ toolchain' = [toolchain EXCEPT ![run] = cache[worktree[run]].toolchain]
     \/ /\ ~Usable(run)
        /\ At(run, "load",
              IF cache[worktree[run]].kind = "alien" THEN "raised" ELSE "ask")
        /\ UNCHANGED toolchain
  /\ UNCHANGED <<shared, worktree, image, outcome>>

\* Something to gate on, and only executables of the allowlist.
Valid(proposal) ==
  /\ proposal.required # <<>>
  /\ ToSet(proposal.required) \cup ToSet(proposal.advisory) \subseteq Allowed
  /\ proposal.install \in Allowed \cup {None}

\* The proposal is validated only after it is saved.
Mutant_Ask(run) ==
  /\ \/ \E proposal \in Proposals :
          /\ toolchain' = [toolchain EXCEPT ![run] = proposal]
          /\ At(run, "ask", "saving")
     \/ At(run, "ask", "exit 2") /\ UNCHANGED toolchain
  /\ UNCHANGED <<shared, worktree, image, outcome>>

\* The model proposes; DiscoveryError when its chain or format fails, or
\* when the proposal is not valid.
Ask(run) ==
  /\ \/ \E proposal \in Proposals :
          /\ Valid(proposal)
          /\ toolchain' = [toolchain EXCEPT ![run] = proposal]
          /\ At(run, "ask", "saving")
     \/ At(run, "ask", "exit 2") /\ UNCHANGED toolchain
  /\ UNCHANGED <<shared, worktree, image, outcome>>

\* write_text truncates the file, then writes it.
Truncate(run) ==
  /\ At(run, "saving", "writing")
  /\ cache' = [cache EXCEPT ![worktree[run]] = Torn]
  /\ UNCHANGED <<repo, images, edited, worktree, toolchain, image, outcome>>

\* The file as written: over another's bytes it may not decode any more.
WriteCache(run) ==
  LET file == cache[worktree[run]] IN
  /\ At(run, "writing", "image")
  /\ \E written \in {Entry(worktree[run], toolchain[run])}
                      \cup (IF file = Torn THEN {} ELSE {Torn}) :
       cache' = [cache EXCEPT ![worktree[run]] = written]
  /\ UNCHANGED <<repo, images, edited, worktree, toolchain, image, outcome>>

-----------------------------------------------------------------------------
(* The gate image, with sandbox.network = install.                         *)

\* The tag does not depend on the manifests.
Mutant_Tag(run) == CHOOSE hash \in PyManifests : TRUE

Tag(run) == DepsHash(worktree[run])

Use(run, installed) == image' = [image EXCEPT ![run] = installed]

\* The base image without an install command; the tagged one if it exists.
PrepareImage(run) ==
  /\ \/ /\ At(run, "image", "ready")
        /\ toolchain[run].install = None
        /\ Use(run, None)
     \/ /\ At(run, "image", "ready")
        /\ toolchain[run].install # None
        /\ images[Tag(run)] # None
        /\ Use(run, images[Tag(run)])
     \/ /\ At(run, "image", "install")
        /\ toolchain[run].install # None
        /\ images[Tag(run)] = None
        /\ UNCHANGED image
  /\ UNCHANGED <<shared, worktree, toolchain, outcome>>

\* The install command succeeds and its container is committed, or the run
\* fails with a DockerException.
Install(run) ==
  LET installed == [install |-> toolchain[run].install, on |-> worktree[run], ok |-> TRUE] IN
  /\ \/ /\ At(run, "install", "ready")
        /\ images' = [images EXCEPT ![Tag(run)] = installed]
        /\ Use(run, installed)
     \/ /\ At(run, "install", "raised")
        /\ UNCHANGED <<images, image>>
  /\ UNCHANGED <<repo, cache, edited, worktree, toolchain, outcome>>

-----------------------------------------------------------------------------
(* The gates.  A command passes, fails, or never returns (exit code -1).   *)

ExitCodes == {0, 1, -1}

\* An advisory failure turns the verdict.
Mutant_RunGates(tools, required, advisory) ==
  LET commands == tools.required \o tools.advisory
      codes == required \o advisory
      failed == {i \in DOMAIN codes : codes[i] # 0}
  IN IF failed = {}
     THEN [passed |-> TRUE, failed_command |-> "", infrastructure_failure |-> FALSE,
           calls |-> commands]
     ELSE LET first == CHOOSE i \in failed : \A j \in failed : i <= j IN
          [passed |-> FALSE, failed_command |-> commands[first],
           infrastructure_failure |-> codes[first] = -1,
           calls |-> SubSeq(commands, 1, first)]

\* run_gates when the commands would exit with these codes: fail-fast over
\* the required ones, then the advisory ones whatever they exit with.
RunGates(tools, required, advisory) ==
  LET failed == {i \in DOMAIN required : required[i] # 0} IN
  IF failed = {}
  THEN [passed |-> TRUE, failed_command |-> "", infrastructure_failure |-> FALSE,
        calls |-> tools.required \o tools.advisory]
  ELSE LET first == CHOOSE i \in failed : \A j \in failed : i <= j IN
       [passed |-> FALSE, failed_command |-> tools.required[first],
        infrastructure_failure |-> required[first] = -1,
        calls |-> SubSeq(tools.required, 1, first)]

\* The codes a run's commands exit with, with the outcome they lead to.
Evaluate(run) ==
  /\ At(run, "ready", "ready")
  /\ \E required \in [1..Len(toolchain[run].required) -> ExitCodes],
        advisory \in [1..Len(toolchain[run].advisory) -> ExitCodes] :
       outcome' = [outcome EXCEPT ![run] =
         [gates |-> RunGates(toolchain[run], required, advisory),
          required |-> required]]
  /\ UNCHANGED <<shared, worktree, toolchain, image>>

-----------------------------------------------------------------------------
\* The process is killed: what it wrote so far stays.
Crash(run) ==
  /\ pc[run] \notin {"idle", "raised", "exit 2"}
  /\ pc' = [pc EXCEPT ![run] = "raised"]
  /\ UNCHANGED <<shared, worktree, toolchain, image, outcome>>

\* The user changes a manifest.
EditManifest ==
  /\ repo' \in Manifests \ {repo}
  /\ UNCHANGED <<cache, images, edited, own>>

\* "The file is plain JSON: edit it if the model picked wrong."
EditCache ==
  /\ \E manifest, other \in Manifests, proposal \in Proposals :
       /\ cache[manifest].kind # "absent"
       /\ cache' = [cache EXCEPT ![manifest] = Entry(other, proposal)]
  /\ edited' = TRUE
  /\ UNCHANGED <<repo, images, own>>

\* An edit leaves JSON that is no object, or bytes that are no UTF-8.
SpoilCache ==
  /\ \E manifest \in Manifests :
       /\ cache[manifest].kind # "absent"
       /\ cache' = [cache EXCEPT ![manifest] = Alien]
  /\ edited' = TRUE
  /\ UNCHANGED <<repo, images, own>>

Init ==
  /\ repo \in Manifests
  /\ cache = [manifest \in Manifests |-> Absent]
  /\ images = [hash \in PyManifests |-> None]
  /\ pc = [run \in Runs |-> "idle"]
  /\ worktree = [run \in Runs |-> repo]
  /\ toolchain = [run \in Runs |-> None]
  /\ image = [run \in Runs |-> None]
  /\ outcome = [run \in Runs |-> None]
  /\ edited = FALSE

RunStep(run) ==
  \/ Start(run)
  \/ Load(run)
  \/ Ask(run)
  \/ Truncate(run)
  \/ WriteCache(run)
  \/ PrepareImage(run)
  \/ Install(run)
  \/ Evaluate(run)
  \/ Crash(run)

Next ==
  \/ \E run \in Runs : RunStep(run)
  \/ EditManifest
  \/ EditCache
  \/ SpoilCache

Spec == Init /\ [][Next]_vars
=============================================================================
