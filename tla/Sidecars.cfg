SPECIFICATION SidecarSpec
CONSTANTS
  None = None
  StarDefault = StarDefault
  StarNamespace = StarNamespace
  JavaScript = JavaScript
  WebAssembly = WebAssembly
  Json = Json
  Unread = Unread
  Radix = 10
  WordSize = 2
  Utf8 = {0, 1, 2, 3, 4, 5, 6, 7, 9}
  Replacement <- Substitute
  Frame = 9
  Limit = 4
  Infos <- AllInfos
  Maps <- AllMaps
INVARIANTS ShowsRecorded NoPartShown UnfoldsToLimit
CHECK_DEADLOCK FALSE
