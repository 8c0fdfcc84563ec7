--------------------------- MODULE Toolchain_proofs ---------------------------
(***************************************************************************)
(* Proofs about Toolchain: for any number of processes, manifests,         *)
(* commands and proposals, only validated commands reach the gates, images *)
(* fit the Python manifests, and a verdict is that of the first required   *)
(* command that fails.                                                     *)
(***************************************************************************)
EXTENDS ToolchainProperties, WellFoundedInduction, TLAPS

-----------------------------------------------------------------------------
(* The inductive invariants.                                               *)

(* A run has a proposal from the time it is saved or loaded, with an       *)
(* install command while that is running.                                  *)
Holding == {"saving", "writing", "image", "install", "ready"}

Held ==
  \A run \in Runs :
    /\ pc[run] \in Holding => toolchain[run] \in Proposals
    /\ pc[run] = "install" => toolchain[run].install # None

Typed == TypeOK /\ Held

(* As long as no user wrote a file, every entry in the cache was validated *)
(* too: a run that loads one does not check it again.                      *)
CacheIsValidated ==
  ~edited => \A manifest \in Manifests :
    cache[manifest].kind = "entry" => Valid(cache[manifest].toolchain)

RunsAreValidated ==
  ~edited => \A run \in Runs : pc[run] \in Holding => Valid(toolchain[run])

Validated == Typed /\ CacheIsValidated /\ RunsAreValidated

(* An image is stored under the Python manifests it was installed from.    *)
ImagesFitTheirTags ==
  \A hash \in PyManifests : images[hash] # None => images[hash].on.py = hash

(* A run without an image yet may be asked for the verdict of none.        *)
ImageIsTaken ==
  \A run \in Runs : pc[run] \in {"idle"} => image[run] = None

Fitting == Typed /\ ImagesFitTheirTags /\ ImageIsTaken /\ ImageMatchesPythonManifests

(* A verdict's run keeps the toolchain it was reached with.                *)
VerdictStays ==
  \A run \in Runs : outcome[run] # None => pc[run] \in {"ready", "raised"}

Judged ==
  Typed /\ DOMAIN outcome = Runs /\ VerdictStays /\ VerdictIsTheFirstFailure

-----------------------------------------------------------------------------
(* Types.                                                                  *)

LEMMA InitTyped == Init => Typed
<1> SUFFICES ASSUME Init PROVE Typed
  OBVIOUS
<1>1. cache \in [Manifests -> Files]
  BY DEF Init, Files
<1>2. TypeOK
  BY <1>1 DEF Init, TypeOK
<1>3. Held
  BY DEF Init, Held, Holding
<1> QED BY <1>2, <1>3 DEF Typed

\* What discovery writes to the cache is a cache file.
LEMMA EntryIsFile ==
  ASSUME NEW manifest \in Manifests, NEW proposal \in Proposals
  PROVE  Entry(manifest, proposal) \in Files
BY DEF Files

(* What a cached entry holds is a proposal.                                *)
LEMMA EntriesHoldProposals ==
  ASSUME NEW file \in Files, file.kind = "entry"
  PROVE  file.toolchain \in Proposals
BY DEF Files, Entry, Absent, Torn, Alien

\* A successful install is one of the images.
LEMMA InstalledIsTyped ==
  ASSUME NEW install \in Commands, NEW manifest \in Manifests
  PROVE  [install |-> install, on |-> manifest, ok |-> TRUE] \in Installed
BY DEF Installed

\* The dependency hash reads the Python manifests only.
LEMMA ManifestsSplit ==
  ASSUME NEW manifest \in Manifests
  PROVE  DepsHash(manifest) \in PyManifests /\ DepsHash(manifest) = manifest.py
BY DEF DepsHash, Manifests

\* No step leaves the types.
LEMMA TypedStep == Typed /\ [Next]_vars => Typed'
<1> SUFFICES ASSUME Typed, [Next]_vars PROVE Typed'
  OBVIOUS
<1>1. TypeOK /\ Held
  BY DEF Typed
<1>2. ASSUME NEW run \in Runs, Start(run) PROVE Typed'
  BY <1>1, <1>2 DEF Start, At, shared, Typed, TypeOK, Held, Holding
<1>3. ASSUME NEW run \in Runs, Load(run) PROVE Typed'
  <2>1. cache[worktree[run]] \in Files /\ worktree[run] \in Manifests
    BY <1>1 DEF TypeOK
  <2>2. CASE Usable(run) /\ At(run, "load", "image")
             /\ toolchain' = [toolchain EXCEPT ![run] = cache[worktree[run]].toolchain]
    <3>1. PICK proposal \in Proposals : proposal = cache[worktree[run]].toolchain
      BY <2>1, <2>2, EntriesHoldProposals DEF Usable
    <3>2. toolchain' = [toolchain EXCEPT ![run] = proposal]
      BY <2>2, <3>1
    <3> QED BY <1>1, <1>3, <2>2, <3>2
        DEF Load, At, shared, Typed, TypeOK, Held, Holding
  <2>3. CASE \E to \in {"raised", "ask"} : At(run, "load", to) /\ UNCHANGED toolchain
    BY <1>1, <1>3, <2>3 DEF Load, At, shared, Typed, TypeOK, Held, Holding
  <2> QED BY <1>3, <2>2, <2>3 DEF Load
<1>4. ASSUME NEW run \in Runs, Ask(run) PROVE Typed'
  BY <1>1, <1>4 DEF Ask, At, shared, Typed, TypeOK, Held, Holding
<1>5. ASSUME NEW run \in Runs, Truncate(run) PROVE Typed'
  <2>1. Torn \in Files
    BY DEF Files
  <2> QED BY <1>1, <1>5, <2>1 DEF Truncate, At, Typed, TypeOK, Held, Holding
<1>6. ASSUME NEW run \in Runs, WriteCache(run) PROVE Typed'
  <2>1. PICK written \in {Entry(worktree[run], toolchain[run]), Torn} :
          cache' = [cache EXCEPT ![worktree[run]] = written]
    BY <1>6 DEF WriteCache
  <2>2. worktree[run] \in Manifests /\ toolchain[run] \in Proposals
    BY <1>1, <1>6 DEF WriteCache, At, TypeOK, Held, Holding
  <2>3. written \in Files
    BY <2>1, <2>2, EntryIsFile DEF Files
  <2> QED BY <1>1, <1>6, <2>1, <2>2, <2>3
      DEF WriteCache, At, Typed, TypeOK, Held, Holding
<1>7. ASSUME NEW run \in Runs, PrepareImage(run) PROVE Typed'
  <2>1. Tag(run) \in PyManifests
    BY <1>1, ManifestsSplit DEF Tag, TypeOK
  <2>2. images[Tag(run)] \in Installed \cup {None}
    BY <1>1, <2>1 DEF TypeOK
  <2> QED BY <1>1, <1>7, <2>2
      DEF PrepareImage, Use, At, shared, Typed, TypeOK, Held, Holding
<1>8. ASSUME NEW run \in Runs, Install(run) PROVE Typed'
  <2> DEFINE installed == [install |-> toolchain[run].install,
                           on |-> worktree[run], ok |-> TRUE]
  <2>1. toolchain[run].install \in Commands /\ worktree[run] \in Manifests
    BY <1>1, <1>8, ToolchainAssumption DEF Install, At, TypeOK, Held, Holding
  <2>2. installed \in Installed /\ Tag(run) \in PyManifests
    BY <2>1, InstalledIsTyped, ManifestsSplit DEF Tag
  <2> QED BY <1>1, <1>8, <2>2
      DEF Install, Use, At, Typed, TypeOK, Held, Holding
<1>9. ASSUME NEW run \in Runs, Evaluate(run) PROVE Typed'
  BY <1>1, <1>9 DEF Evaluate, At, shared, Typed, TypeOK, Held, Holding
<1>10. ASSUME NEW run \in Runs, Crash(run) PROVE Typed'
  BY <1>1, <1>10 DEF Crash, shared, Typed, TypeOK, Held, Holding
<1>11. CASE EditManifest
  BY <1>1, <1>11 DEF EditManifest, own, Typed, TypeOK, Held
<1>12. CASE EditCache
  <2>1. PICK manifest \in Manifests, other \in Manifests, proposal \in Proposals :
          cache' = [cache EXCEPT ![manifest] = Entry(other, proposal)]
    BY <1>12 DEF EditCache
  <2>2. Entry(other, proposal) \in Files
    BY EntryIsFile
  <2> QED BY <1>1, <1>12, <2>1, <2>2 DEF EditCache, own, Typed, TypeOK, Held
<1>13. CASE SpoilCache
  <2>1. Alien \in Files
    BY DEF Files
  <2>2. PICK manifest \in Manifests : cache' = [cache EXCEPT ![manifest] = Alien]
    BY <1>13 DEF SpoilCache
  <2> QED BY <1>1, <1>13, <2>1, <2>2 DEF SpoilCache, own, Typed, TypeOK, Held
<1>14. CASE UNCHANGED vars
  BY <1>1, <1>14 DEF vars, shared, own, Typed, TypeOK, Held
<1> QED BY <1>2, <1>3, <1>4, <1>5, <1>6, <1>7, <1>8, <1>9, <1>10, <1>11, <1>12,
           <1>13, <1>14 DEF Next, RunStep

(* Every variable stays in its range.                                      *)
THEOREM TypeCorrect == Spec => []TypeOK
<1>1. Typed => TypeOK
  BY DEF Typed
<1> QED BY <1>1, InitTyped, TypedStep, PTL DEF Spec
-----------------------------------------------------------------------------
(* Only validated toolchains.                                              *)

LEMMA ValidatedStep == Validated /\ [Next]_vars => Validated'
<1> SUFFICES ASSUME Validated, [Next]_vars PROVE Validated'
  OBVIOUS
<1>1. TypeOK /\ Held /\ CacheIsValidated /\ RunsAreValidated /\ Typed'
  BY TypedStep DEF Validated, Typed
<1>2. ASSUME NEW run \in Runs, Start(run) \/ Evaluate(run) \/ Crash(run)
      PROVE  Validated'
  <2>1. /\ UNCHANGED <<edited, cache, toolchain>>
        /\ \E to : pc' = [pc EXCEPT ![run] = to] /\ (to \in Holding => pc[run] \in Holding)
    BY <1>1, <1>2 DEF Start, Evaluate, Crash, At, shared, TypeOK, Holding
  <2> QED BY <1>1, <2>1 DEF Validated, TypeOK, CacheIsValidated, RunsAreValidated
<1>3. ASSUME NEW run \in Runs, Load(run) PROVE Validated'
  <2>1. worktree[run] \in Manifests /\ UNCHANGED <<edited, cache>>
    BY <1>1, <1>3 DEF TypeOK, Load, shared
  <2>2. CASE Usable(run) /\ At(run, "load", "image")
             /\ toolchain' = [toolchain EXCEPT ![run] = cache[worktree[run]].toolchain]
    <3>1. ~edited => Valid(cache[worktree[run]].toolchain)
      BY <1>1, <2>1, <2>2 DEF CacheIsValidated, Usable
    <3> QED BY <1>1, <2>1, <2>2, <3>1
        DEF At, Validated, TypeOK, CacheIsValidated, RunsAreValidated
  <2>3. CASE \E to \in {"raised", "ask"} : At(run, "load", to) /\ UNCHANGED toolchain
    BY <1>1, <2>1, <2>3
    DEF At, Validated, TypeOK, CacheIsValidated, RunsAreValidated, Holding
  <2> QED BY <1>3, <2>2, <2>3 DEF Load
<1>4. ASSUME NEW run \in Runs, Ask(run) PROVE Validated'
  BY <1>1, <1>4
  DEF Ask, At, shared, Validated, TypeOK, CacheIsValidated, RunsAreValidated, Holding
<1>5. ASSUME NEW run \in Runs, Truncate(run) PROVE Validated'
  <2>1. Torn.kind # "entry"
    BY DEF Torn
  <2> QED BY <1>1, <1>5, <2>1
      DEF Truncate, At, Validated, TypeOK, CacheIsValidated, RunsAreValidated, Holding
<1>6. ASSUME NEW run \in Runs, WriteCache(run) PROVE Validated'
  <2>1. PICK written \in {Entry(worktree[run], toolchain[run]), Torn} :
          cache' = [cache EXCEPT ![worktree[run]] = written]
    BY <1>6 DEF WriteCache
  <2>2. ~edited => Valid(toolchain[run])
    BY <1>1, <1>6 DEF WriteCache, At, RunsAreValidated, Holding
  <2>3. ~edited /\ written.kind = "entry" => Valid(written.toolchain)
    BY <2>1, <2>2 DEF Entry, Torn
  <2>4. CacheIsValidated'
    BY <1>1, <1>6, <2>1, <2>3 DEF WriteCache, TypeOK, CacheIsValidated
  <2>5. RunsAreValidated'
    BY <1>1, <1>6 DEF WriteCache, At, TypeOK, RunsAreValidated, Holding
  <2> QED BY <1>1, <2>4, <2>5 DEF Validated
<1>7. ASSUME NEW run \in Runs, PrepareImage(run) \/ Install(run) PROVE Validated'
  <2>1. /\ UNCHANGED <<edited, cache, toolchain>>
        /\ pc[run] \in Holding
        /\ \E to : pc' = [pc EXCEPT ![run] = to]
    BY <1>1, <1>7 DEF PrepareImage, Install, At, shared, TypeOK, Holding
  <2> QED BY <1>1, <2>1 DEF Validated, TypeOK, CacheIsValidated, RunsAreValidated
<1>8. CASE EditManifest \/ UNCHANGED vars
  BY <1>1, <1>8
  DEF EditManifest, own, shared, vars, Validated, CacheIsValidated, RunsAreValidated
<1>9. CASE EditCache \/ SpoilCache
  BY <1>1, <1>9
  DEF EditCache, SpoilCache, Validated, CacheIsValidated, RunsAreValidated
<1> QED BY <1>2, <1>3, <1>4, <1>5, <1>6, <1>7, <1>8, <1>9 DEF Next, RunStep

\* A run starts with validated commands, none.
LEMMA InitValidated == Init => Validated
<1> SUFFICES ASSUME Init PROVE Validated
  OBVIOUS
<1>1. CacheIsValidated
  BY DEF Init, CacheIsValidated, Absent
<1>2. RunsAreValidated
  BY DEF Init, RunsAreValidated, Holding
<1> QED BY <1>1, <1>2, InitTyped DEF Validated

(* However many processes write one cache file at once, and wherever one   *)
(* of them dies, a run that gets to its image runs validated commands, as  *)
(* long as no user wrote the file.                                         *)
THEOREM GatesRunValidatedCommands == Spec => []OnlyValidatedToolchains
<1>1. Validated => OnlyValidatedToolchains
  BY DEF Validated, RunsAreValidated, OnlyValidatedToolchains, Holding
<1> QED BY <1>1, InitValidated, ValidatedStep, PTL DEF Spec

-----------------------------------------------------------------------------
(* Images.                                                                 *)

LEMMA FittingStep == Fitting /\ [Next]_vars => Fitting'
<1> SUFFICES ASSUME Fitting, [Next]_vars PROVE Fitting'
  OBVIOUS
<1>1. /\ TypeOK /\ Held /\ Typed' /\ ImagesFitTheirTags /\ ImageIsTaken
      /\ ImageMatchesPythonManifests
  BY TypedStep DEF Fitting, Typed
<1>2. ASSUME NEW run \in Runs, Start(run) PROVE Fitting'
  BY <1>1, <1>2
  DEF Start, At, shared, Fitting, TypeOK, ImagesFitTheirTags, ImageIsTaken,
      ImageMatchesPythonManifests
<1>3. ASSUME NEW run \in Runs,
             Load(run) \/ Ask(run) \/ Truncate(run) \/ WriteCache(run)
               \/ Evaluate(run) \/ Crash(run)
      PROVE  Fitting'
  <2>1. /\ UNCHANGED <<images, image, worktree>>
        /\ \E to : to # "idle" /\ pc' = [pc EXCEPT ![run] = to]
    BY <1>3 DEF Load, Ask, Truncate, WriteCache, Evaluate, Crash, At, shared
  <2> QED BY <1>1, <2>1
      DEF Fitting, TypeOK, ImagesFitTheirTags, ImageIsTaken, ImageMatchesPythonManifests
<1>4. ASSUME NEW run \in Runs, PrepareImage(run) PROVE Fitting'
  <2>1. Tag(run) \in PyManifests /\ Tag(run) = worktree[run].py
    BY <1>1, ManifestsSplit DEF Tag, TypeOK
  <2>2. images[Tag(run)] # None => images[Tag(run)].on.py = worktree[run].py
    BY <1>1, <2>1 DEF ImagesFitTheirTags
  <2>3. PICK installed \in {None, images[Tag(run)], image[run]} :
          image' = [image EXCEPT ![run] = installed]
    BY <1>1, <1>4 DEF PrepareImage, Use, TypeOK
  <2>4. installed # None => installed.on.py = worktree[run].py
    BY <1>1, <2>2, <2>3 DEF ImageMatchesPythonManifests
  <2>5. /\ UNCHANGED <<images, worktree>>
        /\ \E to : to # "idle" /\ pc' = [pc EXCEPT ![run] = to]
    BY <1>4 DEF PrepareImage, At, shared
  <2> QED BY <1>1, <2>3, <2>4, <2>5
      DEF Fitting, TypeOK, ImagesFitTheirTags, ImageIsTaken, ImageMatchesPythonManifests
<1>5. ASSUME NEW run \in Runs, Install(run) PROVE Fitting'
  <2>1. Tag(run) \in PyManifests /\ Tag(run) = worktree[run].py
    BY <1>1, ManifestsSplit DEF Tag, TypeOK
  <2>2. UNCHANGED worktree /\ \E to : to # "idle" /\ pc' = [pc EXCEPT ![run] = to]
    BY <1>5 DEF Install, At
  <2>3. CASE UNCHANGED <<images, image>>
    BY <1>1, <2>2, <2>3
    DEF Fitting, TypeOK, ImagesFitTheirTags, ImageIsTaken, ImageMatchesPythonManifests
  <2>4. CASE \E installed : /\ installed.on = worktree[run]
                            /\ images' = [images EXCEPT ![Tag(run)] = installed]
                            /\ image' = [image EXCEPT ![run] = installed]
    BY <1>1, <2>1, <2>2, <2>4
    DEF Fitting, TypeOK, ImagesFitTheirTags, ImageIsTaken, ImageMatchesPythonManifests
  <2> QED BY <1>5, <2>3, <2>4 DEF Install, Use
<1>6. CASE EditManifest \/ EditCache \/ SpoilCache \/ UNCHANGED vars
  BY <1>1, <1>6
  DEF EditManifest, EditCache, SpoilCache, own, shared, vars, Fitting,
      ImagesFitTheirTags, ImageIsTaken, ImageMatchesPythonManifests
<1> QED BY <1>2, <1>3, <1>4, <1>5, <1>6 DEF Next, RunStep

(* However runs and manifest edits interleave, the image a run's gates use *)
(* was installed from the Python manifests that run copied.                *)
THEOREM ImagesFitPythonManifests == Spec => []ImageMatchesPythonManifests
<1>1. Init => Fitting
  BY InitTyped
  DEF Init, Fitting, ImagesFitTheirTags, ImageIsTaken, ImageMatchesPythonManifests
<1>2. Fitting => ImageMatchesPythonManifests
  BY DEF Fitting
<1> QED BY <1>1, <1>2, FittingStep, PTL DEF Spec

-----------------------------------------------------------------------------
(* The verdict.                                                            *)

(* Fail-fast stops at one command.                                         *)
LEMMA FirstExists ==
  ASSUME NEW n \in Nat, NEW failed \in SUBSET (1..n), failed # {}
  PROVE  \E i \in failed : \A j \in failed : i <= j
<1> DEFINE Less == {pair \in Nat \X Nat : pair[1] < pair[2]}
<1>1. failed \subseteq Nat
  OBVIOUS
<1>2. PICK i \in failed : \A j \in failed : ~(<<j, i>> \in Less)
  <2>1. IsWellFoundedOn(Less, Nat)
    BY NatLessThanWellFounded DEF OpToRel
  <2> HIDE DEF Less
  <2> QED BY <1>1, <2>1, WFMin
<1>3. ASSUME NEW j \in failed PROVE i <= j
  <2>1. i \in Nat /\ j \in Nat
    BY <1>1
  <2>2. j < i => <<j, i>> \in Less
    BY <2>1
  <2> QED BY <1>2, <2>1, <2>2
<1> QED BY <1>3

(* What a verdict says of the required commands and their exit codes.      *)
Verdict(gates, codes, tools) ==
  /\ gates.passed <=> \A i \in DOMAIN codes : codes[i] = 0
  /\ gates.passed => IsPrefix(tools, gates.calls)
  /\ ~gates.passed =>
       LET last == Len(gates.calls) IN
       /\ IsPrefix(gates.calls, tools)
       /\ codes[last] # 0
       /\ \A i \in 1..last - 1 : codes[i] = 0
       /\ gates.failed_command = tools[last]
       /\ gates.infrastructure_failure <=> codes[last] = -1

\* A sequence is a prefix of itself with more appended.
LEMMA ConcatIsPrefix ==
  ASSUME NEW first \in Seq(Commands), NEW second \in Seq(Commands)
  PROVE  IsPrefix(first, first \o second)
<1> DEFINE both == first \o second
<1>1. /\ both \in Seq(Commands) /\ Len(both) = Len(first) + Len(second)
      /\ \A i \in 1..Len(first) : both[i] = first[i]
      /\ Len(first) \in Nat /\ Len(second) \in Nat
  OBVIOUS
<1> HIDE DEF both
<1>2. SubSeq(both, 1, Len(first)) = SubSeq(first, 1, Len(first))
  BY <1>1
<1> QED BY <1>1, <1>2 DEF IsPrefix, both

\* What running the gates returns is the first failure's verdict.
LEMMA RunGatesVerdict ==
  ASSUME NEW tools, tools.required \in Seq(Commands), tools.advisory \in Seq(Commands),
         NEW required \in [1..Len(tools.required) -> ExitCodes], NEW advisory
  PROVE  Verdict(RunGates(tools, required, advisory), required, tools.required)
<1> DEFINE failed == {i \in DOMAIN required : required[i] # 0}
           gates == RunGates(tools, required, advisory)
<1>1. Len(tools.required) \in Nat /\ DOMAIN required = 1..Len(tools.required)
  OBVIOUS
<1>2. CASE failed = {}
  <2>1. gates.passed = TRUE /\ gates.calls = tools.required \o tools.advisory
    BY <1>2 DEF RunGates
  <2>2. IsPrefix(tools.required, tools.required \o tools.advisory)
    BY ConcatIsPrefix
  <2>3. \A i \in DOMAIN required : required[i] = 0
    BY <1>2
  <2> QED BY <2>1, <2>2, <2>3 DEF Verdict
<1>3. CASE failed # {}
  <2> DEFINE first == CHOOSE i \in failed : \A j \in failed : i <= j
  <2>1. first \in failed /\ \A j \in failed : first <= j
    <3>1. failed \in SUBSET (1..Len(tools.required))
      BY <1>1
    <3>2. \E i \in failed : \A j \in failed : i <= j
      BY <1>1, <1>3, <3>1, FirstExists
    <3> QED BY <3>2
  <2>2. /\ gates.passed = FALSE
        /\ gates.failed_command = tools.required[first]
        /\ gates.infrastructure_failure = (required[first] = -1)
        /\ gates.calls = SubSeq(tools.required, 1, first)
    BY <1>3 DEF RunGates
  <2> HIDE DEF first, gates
  <2>3. first \in 1..Len(tools.required) /\ required[first] # 0
    BY <1>1, <2>1
  <2>4. Len(gates.calls) = first /\ IsPrefix(gates.calls, tools.required)
    BY <2>2, <2>3 DEF IsPrefix
  <2>5. \A i \in 1..first - 1 : required[i] = 0
    BY <1>1, <2>1, <2>3
  <2>6. ~\A i \in DOMAIN required : required[i] = 0
    BY <1>1, <2>3
  <2> QED BY <2>2, <2>3, <2>4, <2>5, <2>6 DEF Verdict, gates
<1> QED BY <1>2, <1>3

\* The property, in the terms the proof uses.
LEMMA VerdictDef ==
  VerdictIsTheFirstFailure <=>
    \A run \in Runs : outcome[run] # None =>
      Verdict(outcome[run].gates, outcome[run].required, toolchain[run].required)
BY DEF VerdictIsTheFirstFailure, Verdict

(* A step that leaves outcomes alone, and toolchains where there is one.   *)
LEMMA NoNewVerdict ==
  ASSUME Judged, Typed', UNCHANGED outcome,
         \A run \in Runs : outcome[run] # None =>
           /\ toolchain'[run] = toolchain[run]
           /\ pc'[run] \in {"ready", "raised"}
  PROVE  Judged'
<1>1. DOMAIN outcome' = Runs /\ VerdictStays'
  BY DEF Judged, VerdictStays
<1>2. \A run \in Runs : outcome'[run] # None =>
        Verdict(outcome'[run].gates, outcome'[run].required, toolchain'[run].required)
  BY VerdictDef DEF Judged
<1>3. VerdictIsTheFirstFailure'
  BY <1>2 DEF VerdictIsTheFirstFailure, Verdict
<1> QED BY <1>1, <1>3 DEF Judged

\* Every verdict stays the one its gates gave.
LEMMA JudgedStep == Judged /\ [Next]_vars => Judged'
<1> SUFFICES ASSUME Judged, [Next]_vars PROVE Judged'
  OBVIOUS
<1>1. TypeOK /\ Held /\ Typed' /\ DOMAIN outcome = Runs /\ VerdictStays
  BY TypedStep DEF Judged, Typed
<1>2. ASSUME NEW run \in Runs,
             Start(run) \/ Load(run) \/ Ask(run) \/ Truncate(run) \/ WriteCache(run)
               \/ PrepareImage(run) \/ Install(run)
      PROVE  Judged'
  <2>1. /\ UNCHANGED outcome
        /\ pc[run] \notin {"ready", "raised"}
        /\ \E to : pc' = [pc EXCEPT ![run] = to]
        /\ UNCHANGED toolchain \/ \E tools : toolchain' = [toolchain EXCEPT ![run] = tools]
    BY <1>2 DEF Start, Load, Ask, Truncate, WriteCache, PrepareImage, Install, At, shared
  <2>2. outcome[run] = None
    BY <1>1, <2>1 DEF VerdictStays
  <2> QED BY <1>1, <2>1, <2>2, NoNewVerdict DEF VerdictStays, TypeOK
<1>3. ASSUME NEW run \in Runs, Evaluate(run) PROVE Judged'
  <2>1. PICK required \in [1..Len(toolchain[run].required) -> ExitCodes],
             advisory \in [1..Len(toolchain[run].advisory) -> ExitCodes] :
          outcome' = [outcome EXCEPT ![run] =
            [gates |-> RunGates(toolchain[run], required, advisory),
             required |-> required]]
    BY <1>3 DEF Evaluate
  <2>2. toolchain[run] \in Proposals /\ UNCHANGED toolchain /\ pc[run] = "ready"
        /\ pc' = [pc EXCEPT ![run] = "ready"]
    BY <1>1, <1>3 DEF Evaluate, At, Held, Holding
  <2>3. Verdict(RunGates(toolchain[run], required, advisory), required,
                toolchain[run].required)
    BY <2>2, ToolchainAssumption, RunGatesVerdict
  <2>4. \A other \in Runs \ {run} : outcome'[other] = outcome[other]
    BY <1>1, <2>1
  <2>5. /\ outcome'[run].gates = RunGates(toolchain[run], required, advisory)
        /\ outcome'[run].required = required
    BY <1>1, <2>1
  <2>6. \A other \in Runs : outcome'[other] # None =>
          Verdict(outcome'[other].gates, outcome'[other].required,
                  toolchain'[other].required)
    BY <2>2, <2>3, <2>4, <2>5, VerdictDef DEF Judged
  <2>7. VerdictIsTheFirstFailure'
    BY <2>6 DEF VerdictIsTheFirstFailure, Verdict
  <2>8. DOMAIN outcome' = Runs /\ VerdictStays'
    BY <1>1, <2>1, <2>2, <2>4 DEF VerdictStays, TypeOK
  <2> QED BY <1>1, <2>7, <2>8 DEF Judged
<1>4. ASSUME NEW run \in Runs, Crash(run) PROVE Judged'
  BY <1>1, <1>4, NoNewVerdict DEF Crash, shared, VerdictStays, TypeOK
<1>5. CASE EditManifest \/ EditCache \/ SpoilCache \/ UNCHANGED vars
  BY <1>1, <1>5, NoNewVerdict
  DEF EditManifest, EditCache, SpoilCache, own, vars, VerdictStays
<1> QED BY <1>2, <1>3, <1>4, <1>5 DEF Next, RunStep

(* A pass means every required command ran and exited 0; a failure names   *)
(* the first that did not, and nothing ran after it, however many there    *)
(* are and whatever the advisory ones exit with.                           *)
THEOREM VerdictsNameTheFirstFailure == Spec => []VerdictIsTheFirstFailure
<1>1. Init => Judged
  BY InitTyped DEF Init, Judged, VerdictStays, VerdictIsTheFirstFailure
<1>2. Judged => VerdictIsTheFirstFailure
  BY DEF Judged
<1> QED BY <1>1, <1>2, JudgedStep, PTL DEF Spec
=============================================================================
