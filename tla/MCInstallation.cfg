\* One form at a time, two commands at once; one failure or loss of power.
SPECIFICATION Spec
CONSTANTS
  Ids = {i1, i2}
  Names = {n1}
  Torn = Torn
  Forms = {f1}
  NoId = NoId
  NoName = NoName
  Commands = {c1, c2}
  NoArchive = NoArchive
  Cut = Cut
  MaxBackups = 1
  MaxTime = 1
  MaxCommands = 3
  MaxFailures = 1
SYMMETRY Symmetry
INVARIANTS InitializedHasAdmin WholeUnlessInterrupted ArchivesBounded ProgramWhole
