---------------------------- MODULE MCTricolour ----------------------------
(* Three objects, of kinds that have something to do with each other: which*)
(* is of which kind does not matter, so they are all symmetric.            *)
EXTENDS Tricolour, TLC

CONSTANTS o1, o2, o3

Of(a, b, c) ==
  {[o \in Objects |-> (o1 :> a @@ o2 :> b @@ o3 :> c)[p[o]]] : p \in Permutations(Objects)}

MCKinds ==
  Of("closure", "closure", "thread") \union Of("table", "table", "userdata")
  \union Of("box", "table", "userdata") \union Of("ephemeron", "table", "userdata")
  \union UNION {Of(k, "userdata", "userdata") : k \in Weak}

Symmetry == {p @@ q : p \in Permutations(Objects), q \in Permutations(UpVals)}
=============================================================================
