----------------------------- MODULE MCRtcEpoch -----------------------------
(* Small instances of RtcEpoch for TLC.                                     *)
EXTENDS RtcEpoch

PlainBuild == {[force |-> FALSE, provision |-> 0]}
ForceBuild == {[force |-> TRUE, provision |-> 5]}
EveryBuild == PlainBuild \cup ForceBuild \cup {[force |-> FALSE, provision |-> 5]}

AllRtcFaults == {"ready", "osf_read", "osf_clear", "hw_read", "hw_write", "nvs_read", "nvs_write"}
NoFaults == {}

\* Before, close to and far after every time a behaviour reaches.
Strays == {3, 20}
Far == {20}
=============================================================================
