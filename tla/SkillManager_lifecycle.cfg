SPECIFICATION Spec
CONSTANTS
  Process = {p1, p2}
  Row = {r1, r2}
  Name = {n1}
  Version = {v1, v2}
  Task = {t1, t2}
  NoProcess = NoProcess
  NoRow = NoRow
  NoName = NoName
  NoVersion = NoVersion
CONSTRAINT NotCrowded
SYMMETRY Symmetric
INVARIANTS
  TypeOK ToolsHaveContainers ContainersExist DisabledMeansStopped EnabledMeansRunning
  NoOrphanContainers EnabledHasPackage DisabledStaysDisabled
