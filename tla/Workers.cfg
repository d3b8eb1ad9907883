\* Two clients, any configs, one or two do_bench calls.
SPECIFICATION FairSpec
CONSTANTS
  Clients = {c1, c2}
  Workers = {1, 2}
  Configs <- MCConfigs
  Benches <- MCBenches
  Backlog = 1
  Nobody = Nobody
CHECK_DEADLOCK FALSE
INVARIANTS WaitsAscend
PROPERTIES AllEnd
