----------------------------- MODULE MCStorage -----------------------------
(* Instances of Storage: four units to a cluster, three clusters to fill.   *)
EXTENDS Storage

SomeCards ==
  {<<"fat32", "room", TRUE>>, <<"fat32", "full", FALSE>>,
   <<"fat32", "taken", TRUE>>, <<"fat16", "taken", FALSE>>,
   <<"fat16", "gone", FALSE>>, <<"fat16", "full", FALSE>>, <<"none", "room", FALSE>>}
=============================================================================
