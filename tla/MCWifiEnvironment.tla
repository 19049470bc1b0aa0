--------------------------- MODULE MCWifiEnvironment ---------------------------
(* Small instances of WifiEnvironment. *)
EXTENDS WifiEnvironment, TLC

HostSymmetry == Permutations(Hosts)
=============================================================================
