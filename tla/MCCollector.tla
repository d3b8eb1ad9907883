---------------------------- MODULE MCCollector ----------------------------
(* Three objects, of kinds that have something to do with each other, or   *)
(* two.                                                                    *)
EXTENDS Collector, TLC

CONSTANTS o1, o2, o3

Of(a, b, c) == o1 :> a @@ o2 :> b @@ o3 :> c

MCKinds ==
  {Of("ephemeron", "userdata", "userdata"),
   Of("closure", "closure", None), Of("closure", "thread", None)}
  \union {Of(k, "userdata", None) : k \in {"table", "weakv", "allweak", "box"}}

TwoFinalizers == {Of("table", "table", "userdata")}
=============================================================================
