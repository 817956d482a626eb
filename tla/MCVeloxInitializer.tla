-------------------------- MODULE MCVeloxInitializer --------------------------
EXTENDS VeloxInitializer

\* URIs as their characters.
HdfsA == <<"h", ":", "/", "/", "a">>
HdfsA1 == <<"h", ":", "/", "/", "a", ":", "1">>
HdfsAa1 == <<"h", ":", "/", "/", "a", "a", ":", "1">>

\* fs.defaultFS values: an HA nameservice, and host:port authorities.
MCUris == {HdfsA, HdfsA1, HdfsAa1}
MCEnvUris == {Null, HdfsA1}

CONSTANT Absent   \* a key left out of the conf map

\* One value per key, or the key left out of the map.
MCConfChoices ==
  [defaultFS : MCUris \cup {Absent},
   s3_instance : {"true", Absent},
   s3_access : {"conf_key", Absent},
   cache_enabled : {"TRUE", "false", Absent},
   ssd_odirect : {"false", Absent},
   mem_cache_size : {-1, 2, Absent},
   ssd_cache_size : {4, NotANumber, Absent},
   ssd_cache_path : {"p2", Absent}]

MCConfs == {[k \in {j \in DOMAIN c : c[j] # Absent} |-> c[k]] : c \in MCConfChoices}

MCEnvs ==
  [AWS_ACCESS_KEY_ID : {Null, "env_key"},
   AWS_SECRET_ACCESS_KEY : {Null},
   AWS_ENDPOINT : {Null}]

\* The default prefix has room for a 4-byte SSD cache, p2 only for the
\* 2-byte default.
MCPaths == {"p1", "p2"}
MCFreeSpace == [p \in MCPaths |-> IF p = "p1" THEN 8 ELSE 2]

=============================================================================
