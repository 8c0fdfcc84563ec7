------------------------------ MODULE MCToolchain -----------------------------
(***************************************************************************)
(* Instances of Toolchain for TLC.                                         *)
(***************************************************************************)
EXTENDS ToolchainProperties, TLC

CONSTANTS pip, npm, pytest, ruff, rm

Tools(install, required, advisory) ==
  [install |-> install, required |-> required, advisory |-> advisory]

\* One toolchain that installs, with two gates and an advisory command, and
\* two that validation refuses.
FewProposals ==
  {Tools(pip, <<ruff, pytest>>, <<ruff>>), Tools(None, <<>>, <<>>),
   Tools(npm, <<pytest>>, <<rm>>)}

TwoProposals == {Tools(pip, <<pytest>>, <<>>), Tools(None, <<>>, <<>>)}

RunSymmetry == Permutations(Runs)
=============================================================================
