SPECIFICATION Spec
CONSTANTS
  bin = bin
  lib = lib
  dep = dep
  Crate = {bin, lib, dep}
  Primary = {bin, lib}
  Below <- MCBelow
  Includes <- MCIncludes
  Command <- MCCommand
  MaxEdits = 2
  MaxRuns = 3
INVARIANTS
    ContextCurrent
    ArtifactsMatch
CHECK_DEADLOCK FALSE
