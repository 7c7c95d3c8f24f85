SPECIFICATION FairSpec
CONSTANTS
  a = a
  b = b
  z = z
  Row = {r1}
  Name <- OneName
  Url = {u1}
  Tool <- OneTool
  Task = {t1}
  Client = {c1, c2, c3}
  Shared = {}
  NoClient = NoClient
  NoRow = NoRow
  NoName = NoName
  NoUrl = NoUrl
INVARIANT TypeOK
PROPERTIES BrokenServersReconnect WorkersFinish
