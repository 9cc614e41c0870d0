----------------------------- MODULE MCGateway ------------------------------
(* Small instances of Gateway for TLC.                                      *)
EXTENDS Gateway

\* A frame alone, a frame behind another device's report, and the packets that hold none
\* or hide one.
Traffic == {<<"valid">>, <<"other", "invalid">>, <<"foreign", "valid">>}
ValidTraffic == {<<"valid">>}
MixedTraffic == {<<"valid">>, <<"foreign", "valid">>}

AllGatewayFaults == {"open", "read", "insert", "post"}
NoGatewayFaults == {}
=============================================================================
