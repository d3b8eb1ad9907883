------------------------------ MODULE MCWorkers ------------------------------
(* Instances of Workers for TLC.                                            *)
EXTENDS Workers

\* Every config of at most two lines, repeated ones included.
MCConfigs == {<<w>> : w \in Workers} \union {<<v, w>> : v, w \in Workers}

\* Every program of at most two do_bench calls.
MCBenches == {<<m>> : m \in {0, 1}} \union {<<m, n>> : m, n \in {0, 1}}
=============================================================================
