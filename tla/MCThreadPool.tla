---------------------------- MODULE MCThreadPool ----------------------------
(* Two threads that share a pool of at most two workers, created in turn    *)
(* with settings that bring out one difficulty each.                        *)
EXTENDS ThreadPool

Setting(min, max, uses) == [min |-> min, max |-> max, uses |-> uses]

MCOptions ==
    {Setting(0, 1, {}), Setting(1, 2, {"cancel"}), Setting(0, 1, {"suspend"}),
     Setting(1, 2, {"idletime"}), Setting(0, 1, {"idletime"}), Setting(2, 2, {"failures"}), Setting(0, 1, {"failures"}),
     Setting(0, 1, {"malformed"}), Setting(0, 1, {"commands"}), Setting(0, 1, {"sharing"})}
=============================================================================
