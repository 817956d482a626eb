--------------------------- MODULE VeloxInitializer ---------------------------
(***************************************************************************)
(* gluten::VeloxInitializer (src/cpp/velox/compute/VeloxInitializer.cc),  *)
(* built with VELOX_ENABLE_HDFS and VELOX_ENABLE_S3: Init splits the HDFS  *)
(* URI into host and port, collects the S3 settings, calls InitCache, and  *)
(* creates the Hive connector with the IO executor InitCache may have      *)
(* made.  Init runs once, on one thread, so each step is an action and an  *)
(* exception ends Init in phase "failed".                                  *)
(*                                                                         *)
(* Strings the code indexes (the HDFS URI) are sequences of characters.    *)
(* std::string::npos is 2^64 - 1, written -1: size_t addition of a small   *)
(* number to it wraps exactly as integer addition to -1 does.  Sizes in    *)
(* uint64_t are integers below UInt64; a negative value stol returns wraps *)
(* to UInt64 plus it.  The MC module gives UInt64 a value above every free *)
(* space and size it uses, which keeps every comparison the code makes.    *)
(***************************************************************************)
EXTENDS Integers, Sequences, SequencesExt

CONSTANTS
  Uris,             \* values of spark.hadoop.fs.defaultFS and VELOX_HDFS
  EnvUris,          \* values of VELOX_HDFS, with Null for unset
  Confs,            \* the conf maps Init may be given
  Envs,             \* the AWS_* environment variables that may be set
  Null,             \* an unset environment variable / a null pointer
  DefaultAllocator, \* MemoryAllocator::getInstance()
  NotANumber,       \* a configured size that is not a number
  Paths,            \* ssd cache path prefixes
  FreeSpace,        \* path -> free bytes of its file system
  SpaceFails,       \* paths for which std::filesystem::space sets an error
  UInt64,           \* 2^64 in the code
  SplitPreloadDefault,   \* FLAGS_split_preload_per_driver before Init
  MemCacheSizeDefault,   \* kVeloxMemCacheSizeDefault, parsed
  SsdCacheSizeDefault,   \* kVeloxSsdCacheSizeDefault, parsed
  SsdCachePathDefault    \* kVeloxSsdCachePathDefault

VARIABLES
  conf,             \* the conf map Init was given
  env_hdfs,         \* getenv("VELOX_HDFS")
  env,              \* the AWS_* environment variables
  phase,            \* "hdfs", "s3", "cache", "connector", "done", "failed"
  configurationValues,  \* the Hive connector properties collected so far
  ssd_odirect,      \* FLAGS_ssd_odirect
  ssdCacheExecutor_,
  ioExecutor_,      \* the IO executor exists
  asyncDataCache_,  \* Null, or the installed AsyncDataCache
  connector,        \* Null, or the registered Hive connector
  split_preload     \* FLAGS_split_preload_per_driver

vars == <<conf, env_hdfs, env, phase, configurationValues, ssd_odirect,
          ssdCacheExecutor_, ioExecutor_, asyncDataCache_, connector,
          split_preload>>

Npos == -1

\* std::unordered_map::operator[] for reading: the empty string (a value
\* or, for the URI, a character sequence) when the key is absent.
Get(m, k, empty) == IF k \in DOMAIN m THEN m[k] ELSE empty

\* std::string::find(c): the 0-based position of the first c, or npos.
Find(s, c) == IF Contains(s, c) THEN SelectInSeq(s, LAMBDA x : x = c) - 1 ELSE Npos

\* std::string::substr(pos, n), with pos > size() an out_of_range throw.
SubstrThrows(s, pos) == pos > Len(s)
Substr(s, pos, n) == SubSeq(s, pos + 1, Min({pos + n, Len(s)}))
Suffix(s, pos) == Substr(s, pos, Len(s))

\* std::stol on a configured value: an integer, or a throw for anything else.
ParseFails(v) == v = NotANumber

\* Variant keeping the long's sign.
ToUInt64Signed(n) == n

\* The uint64_t a long is stored in.
ToUInt64(n) == IF n < 0 THEN UInt64 + n ELSE n

\* boost::algorithm::to_lower_copy(v) == "true".
IsTrue(v) == v \in {"true", "TRUE", "True"}
IsFalse(v) == v \in {"false", "FALSE", "False"}

\* getAsyncDataCache: the installed cache, else the process-wide allocator.
GetAsyncDataCache == IF asyncDataCache_ # Null THEN asyncDataCache_ ELSE DefaultAllocator

-----------------------------------------------------------------------------
Init ==
  /\ conf \in Confs
  /\ env_hdfs \in EnvUris
  /\ env \in Envs
  /\ phase = "hdfs"
  /\ configurationValues = <<>>
  /\ ssd_odirect = FALSE
  /\ ssdCacheExecutor_ = FALSE
  /\ ioExecutor_ = FALSE
  /\ asyncDataCache_ = Null
  /\ connector = Null
  /\ split_preload = SplitPreloadDefault

\* The URI Init splits: VELOX_HDFS when set, else fs.defaultFS.
HdfsUri == IF env_hdfs # Null THEN env_hdfs ELSE Get(conf, "defaultFS", <<>>)

\* Variant skipping two characters past the first ':' instead of three.
ConfigureHdfsSkipTwo ==
  /\ phase = "hdfs"
  /\ conf' = conf @@ ("defaultFS" :> <<>>)
  /\ LET start == Find(HdfsUri, ":") + 2
     IN IF SubstrThrows(HdfsUri, start)
        THEN phase' = "failed" /\ UNCHANGED configurationValues
        ELSE LET hp == Suffix(HdfsUri, start)
                 pos == Find(hp, ":")
             IN /\ configurationValues' =
                     IF pos # Npos
                     THEN [host |-> Substr(hp, 0, pos), port |-> Suffix(hp, pos + 1)]
                     ELSE [host |-> hp, port |-> <<>>]
                /\ phase' = "s3"
  /\ UNCHANGED <<env_hdfs, env, ssd_odirect, ssdCacheExecutor_, ioExecutor_,
                 asyncDataCache_, connector, split_preload>>

\* The HDFS block of Init: the host and port (or, for an HA nameservice,
\* the whole authority and an empty port) after the first ':' + 3.
ConfigureHdfs ==
  /\ phase = "hdfs"
  /\ conf' = conf @@ ("defaultFS" :> <<>>)
  /\ LET start == Find(HdfsUri, ":") + 3
     IN IF SubstrThrows(HdfsUri, start)
        THEN phase' = "failed" /\ UNCHANGED configurationValues
        ELSE LET hp == Suffix(HdfsUri, start)
                 pos == Find(hp, ":")
             IN /\ configurationValues' =
                     IF pos # Npos
                     THEN [host |-> Substr(hp, 0, pos), port |-> Suffix(hp, pos + 1)]
                     ELSE [host |-> hp, port |-> <<>>]
                /\ phase' = "s3"
  /\ UNCHANGED <<env_hdfs, env, ssd_odirect, ssdCacheExecutor_, ioExecutor_,
                 asyncDataCache_, connector, split_preload>>

\* An AWS setting: the environment variable when set, else the conf value.
Aws(var, key) == IF env[var] # Null THEN env[var] ELSE Get(conf, key, "")

\* The S3 block of Init: instance credentials alone, or the keys, endpoint
\* and flags, merged into the connector properties.
ConfigureS3 ==
  /\ phase = "s3"
  /\ conf' = conf @@ [k \in {"s3_access", "s3_secret", "s3_endpoint", "s3_ssl",
                             "s3_path_style", "s3_instance"} |-> ""]
  /\ configurationValues' =
       configurationValues @@
         IF Get(conf, "s3_instance", "") = "true"
         THEN [s3_instance |-> "true"]
         ELSE [s3_access |-> Aws("AWS_ACCESS_KEY_ID", "s3_access"),
               s3_secret |-> Aws("AWS_SECRET_ACCESS_KEY", "s3_secret"),
               s3_endpoint |-> Aws("AWS_ENDPOINT", "s3_endpoint"),
               s3_ssl |-> Get(conf, "s3_ssl", ""),
               s3_path_style |-> Get(conf, "s3_path_style", "")]
  /\ phase' = "cache"
  /\ UNCHANGED <<env_hdfs, env, ssd_odirect, ssdCacheExecutor_, ioExecutor_,
                 asyncDataCache_, connector, split_preload>>

\* InitCache when kVeloxCacheEnabled is absent or not "true" (any case).
CacheEnabled == "cache_enabled" \in DOMAIN conf /\ IsTrue(conf["cache_enabled"])

InitCacheDisabled ==
  /\ phase = "cache" /\ ~CacheEnabled
  /\ phase' = "connector"
  /\ UNCHANGED <<conf, env_hdfs, env, configurationValues, ssd_odirect,
                 ssdCacheExecutor_, ioExecutor_, asyncDataCache_, connector,
                 split_preload>>

\* The configured value of a key, or its default.
Setting(k, default) == IF k \in DOMAIN conf THEN conf[k] ELSE default

\* The free bytes std::filesystem::space reports: with an error code, every
\* field of space_info is static_cast<uintmax_t>(-1).
Available(path) == IF path \in SpaceFails THEN UInt64 - 1 ELSE FreeSpace[path]

\* Variant without the free-space check.
InitCacheEnabledNoSpaceCheck ==
  /\ phase = "cache" /\ CacheEnabled
  /\ ssd_odirect' = ~("ssd_odirect" \in DOMAIN conf /\ IsFalse(conf["ssd_odirect"]))
  /\ LET mem == Setting("mem_cache_size", MemCacheSizeDefault)
         ssd == Setting("ssd_cache_size", SsdCacheSizeDefault)
         prefix == Setting("ssd_cache_path", SsdCachePathDefault)
     IN IF ParseFails(mem) \/ ParseFails(ssd)
        THEN /\ phase' = "failed"
             /\ UNCHANGED <<ssdCacheExecutor_, ioExecutor_, asyncDataCache_>>
        ELSE /\ ssdCacheExecutor_' = TRUE
             /\ ioExecutor_' = TRUE
             /\ asyncDataCache_' = [mem |-> ToUInt64(mem), ssd_size |-> ToUInt64(ssd),
                                    ssd_path |-> prefix]
             /\ phase' = "connector"
  /\ UNCHANGED <<conf, env_hdfs, env, configurationValues, connector, split_preload>>

\* InitCache when it is enabled: FLAGS_ssd_odirect unless kVeloxSsdODirectEnabled
\* is "false"; the sizes and path prefix from conf over the defaults (stol
\* throws on a non-number); the two executors and the SsdCache; then the
\* free-space check, which throws, and else the AsyncDataCache is installed.
InitCacheEnabled ==
  /\ phase = "cache" /\ CacheEnabled
  /\ ssd_odirect' = ~("ssd_odirect" \in DOMAIN conf /\ IsFalse(conf["ssd_odirect"]))
  /\ LET mem == Setting("mem_cache_size", MemCacheSizeDefault)
         ssd == Setting("ssd_cache_size", SsdCacheSizeDefault)
         prefix == Setting("ssd_cache_path", SsdCachePathDefault)
     IN IF ParseFails(mem) \/ ParseFails(ssd)
        THEN /\ phase' = "failed"
             /\ UNCHANGED <<ssdCacheExecutor_, ioExecutor_, asyncDataCache_>>
        ELSE /\ ssdCacheExecutor_' = TRUE
             /\ ioExecutor_' = TRUE
             /\ IF Available(prefix) < ToUInt64(ssd)
                THEN /\ phase' = "failed"
                     /\ UNCHANGED asyncDataCache_
                ELSE /\ asyncDataCache_' = [mem |-> ToUInt64(mem), ssd_size |-> ToUInt64(ssd),
                                            ssd_path |-> prefix]
                     /\ phase' = "connector"
  /\ UNCHANGED <<conf, env_hdfs, env, configurationValues, connector, split_preload>>

\* The rest of Init: the Hive connector gets the collected properties and
\* the IO executor; split preloading is turned off when there is one.
CreateConnector ==
  /\ phase = "connector"
  /\ connector' = [properties |-> configurationValues, executor |-> ioExecutor_]
  /\ split_preload' = IF ioExecutor_ THEN 0 ELSE split_preload
  /\ phase' = "done"
  /\ UNCHANGED <<conf, env_hdfs, env, configurationValues, ssd_odirect,
                 ssdCacheExecutor_, ioExecutor_, asyncDataCache_>>

Next ==
  \/ ConfigureHdfs \/ ConfigureS3
  \/ InitCacheDisabled \/ InitCacheEnabled
  \/ CreateConnector

Spec == Init /\ [][Next]_vars

-----------------------------------------------------------------------------
TypeOK ==
  /\ phase \in {"hdfs", "s3", "cache", "connector", "done", "failed"}
  /\ ssd_odirect \in BOOLEAN /\ ssdCacheExecutor_ \in BOOLEAN /\ ioExecutor_ \in BOOLEAN
  /\ asyncDataCache_ = Null
     \/ asyncDataCache_ \in [mem : 0..UInt64 - 1, ssd_size : 0..UInt64 - 1, ssd_path : Paths]
  /\ connector = Null \/ connector.executor \in BOOLEAN
  /\ split_preload \in {SplitPreloadDefault, 0}

\* The host and port Hadoop reads from a URI scheme://authority: the
\* authority split at its first ':'.
Authority(uri) == Suffix(uri, IndexFirstSubSeq(<<":", "/", "/">>, uri) + 2)
HostPort(a) ==
  IF Contains(a, ":")
  THEN LET i == SelectInSeq(a, LAMBDA c : c = ":")
       IN [host |-> SubSeq(a, 1, i - 1), port |-> SubSeq(a, i + 1, Len(a))]
  ELSE [host |-> a, port |-> <<>>]

\* Once Init is past its HDFS block, the connector's hive.hdfs.host and
\* hive.hdfs.port are the host and port of the URI's authority (for an HA
\* nameservice, the nameservice and an empty port): the index arithmetic on
\* find(':') + 3 lands on the authority.
HdfsConfigured ==
  phase \notin {"hdfs", "failed"} =>
    /\ configurationValues.host = HostPort(Authority(HdfsUri)).host
    /\ configurationValues.port = HostPort(Authority(HdfsUri)).port

\* After Init returns, getAsyncDataCache() is an AsyncDataCache exactly when
\* the cache is enabled in conf, that cache's SSD part fits in the free
\* space at its path prefix, and the Hive connector has the IO executor and
\* split preloading is off exactly when the cache is installed.
CacheInstalledConsistently ==
  phase = "done" =>
    /\ (GetAsyncDataCache # DefaultAllocator) = CacheEnabled
    /\ GetAsyncDataCache # DefaultAllocator =>
         /\ asyncDataCache_.ssd_path \notin SpaceFails
         /\ asyncDataCache_.ssd_size <= FreeSpace[asyncDataCache_.ssd_path]
    /\ connector.executor = (asyncDataCache_ # Null)
    /\ (split_preload = 0) = (asyncDataCache_ # Null)

=============================================================================
