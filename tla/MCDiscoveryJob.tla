--------------------------- MODULE MCDiscoveryJob ---------------------------
(* Small instances of DiscoveryJob. *)
EXTENDS DiscoveryJob

CONSTANTS j1, j2, h1, h2,
          MaxScans      \* bound: how many scans are started, of all jobs together

\* j1 scans two hosts, j2 one of them.
SomeTargets == [j \in Jobs |-> IF j = j1 THEN Hosts ELSE {h1}]

\* Bounds of the state space: a few scans, and of two jobs no more than one
\* when there is a crash.
FewScans == Cardinality({s \in Jobs \X Hosts : scan[s[1]][s[2]] # "idle"}) <= MaxScans
CrashOfOneJob == crashes > 0 => \E j \in Jobs : pc[j] = "idle"
=============================================================================
