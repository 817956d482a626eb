\* Init over conf maps with and without each HDFS, S3 and cache key.
CONSTANTS
  Uris <- MCUris
  EnvUris <- MCEnvUris
  Confs <- MCConfs
  Envs <- MCEnvs
  Null = Null
  Absent = Absent
  DefaultAllocator = DefaultAllocator
  NotANumber = NotANumber
  Paths <- MCPaths
  FreeSpace <- MCFreeSpace
  SpaceFails = {}
  UInt64 = 16
  SplitPreloadDefault = 2
  MemCacheSizeDefault = 2
  SsdCacheSizeDefault = 2
  SsdCachePathDefault = "p1"
SPECIFICATION Spec
\* Init runs once and stops.
CHECK_DEADLOCK FALSE
INVARIANT TypeOK
INVARIANT HdfsConfigured
INVARIANT CacheInstalledConsistently
