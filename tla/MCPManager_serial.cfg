SPECIFICATION Spec
CONSTANTS
  a = a
  b = b
  z = z
  Row = {r1, r2}
  Name <- ThreeNames
  Url = {u1, u2}
  Tool <- OneTool
  Task = {t1}
  Client = {c1, c2}
  Shared = {r1}
  NoClient = NoClient
  NoRow = NoRow
  NoName = NoName
  NoUrl = NoUrl
SYMMETRY Symmetric
VIEW ButStatus
CONSTRAINTS NoClash FewForeign FewDown TwoNames
INVARIANTS ToolsOwned SessionsOwned ClientsHaveRows
PROPERTY DirectorySpec
