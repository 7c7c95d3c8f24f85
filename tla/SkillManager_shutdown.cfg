SPECIFICATION Spec
CONSTANTS
  Process = {p1}
  Row = {r1, r2}
  Name = {n1}
  Version = {v1}
  Task = {t1}
  NoProcess = NoProcess
  NoRow = NoRow
  NoName = NoName
  NoVersion = NoVersion
SYMMETRY Symmetric
PROPERTIES ShutdownKeepsEnabled
