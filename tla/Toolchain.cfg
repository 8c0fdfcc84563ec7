SPECIFICATION Spec
CONSTANTS
  Runs = {r1, r2}
  PyManifests = {p1, p2}
  JsManifests = {j1}
  None = None
  pip = pip
  npm = npm
  pytest = pytest
  ruff = ruff
  rm = rm
  Commands = {pip, npm, pytest, ruff, rm}
  Allowed = {pip, npm, pytest, ruff}
  Proposals <- FewProposals
SYMMETRY RunSymmetry
INVARIANTS
  OnlyValidatedToolchains
  ImageMatchesPythonManifests
  VerdictIsTheFirstFailure
CHECK_DEADLOCK FALSE
