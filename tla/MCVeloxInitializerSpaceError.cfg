\* Init when std::filesystem::space fails for the path prefix p2.
CONSTANTS
  Uris <- MCUris
  EnvUris <- MCEnvUris
  Confs <- MCConfs
  Envs <- MCEnvs
  Null = Null
  Absent = Absent
  DefaultAllocator = DefaultAllocator
  NotANumber = NotANumber
  Paths <- MCPaths
  FreeSpace <- MCFreeSpace
  SpaceFails = {"p2"}
  UInt64 = 16
  SplitPreloadDefault = 2
  MemCacheSizeDefault = 2
  SsdCacheSizeDefault = 2
  SsdCachePathDefault = "p1"
SPECIFICATION Spec
\* Init runs once and stops.
CHECK_DEADLOCK FALSE
INVARIANT CacheInstalledConsistently
