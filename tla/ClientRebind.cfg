SPECIFICATION HistSpec
CONSTANTS
  p1 = p1
  p2 = p2
  d1 = d1
  o1 = o1
  Profiles = {p1, p2}
  Muxes = {d1, o1}
  Home <- HomeOf
  Owned = {o1}
  KeepAlive = {d1, o1}
  StdioArgs = {d1}
  Calls = {"read", "turn"}
  Retried = {"read"}
  Resetting = {"read", "turn"}
  OldExe = {}
  RequireShared = FALSE
  PersistMux = FALSE
  Desktops = {d1}
  MayStop = {}
  MayCrash = {d1}
INVARIANT RebindBeforeSending
