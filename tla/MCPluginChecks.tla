----------------------------- MODULE MCPluginChecks -----------------------------
(* Each check of each plugin, and pairs of checks for both kinds of cache, in  *)
(* two jobs, with and without a pool.  Level 2 is critical, and a service with *)
(* a fault.                                                                    *)
EXTENDS PluginChecks

MCConfigurations ==
  UNION {{<<p, {c}>> : c \in DOMAIN Plugins[p]} : p \in DOMAIN Plugins}
  \cup {<<"Memcached", {"accepting_connections", "bytes"}>>,
        <<"Network", {"upload_data_speed", "download_data_speed"}>>}
===============================================================================
