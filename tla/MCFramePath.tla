----------------------------- MODULE MCFramePath ----------------------------
(* A small instance of FramePath for TLC.                                   *)
EXTENDS FramePath

Mac == <<177, 239, 18, 99, 121, 227>>

Motion == [type |-> 2, timestamp_ms |-> 67305985, accel_g |-> <<0, 0, 192, 63>>, delta_pa |-> <<9, 9, 9, 9>>]
Pressure == [type |-> 1, timestamp_ms |-> 1, accel_g |-> <<7, 7, 7, 7>>, delta_pa |-> <<0, 0, 120, 65>>]

MCEvents == {Motion, Pressure}

Node(ads) == [node |-> TRUE, ads |-> ads]
Other(ads) == [node |-> FALSE, ads |-> ads]

\* The frame as the node sends it; behind another device's report; behind a report of the
\* node without one; behind other structures; and
\* behind what hides it.
MCShapes ==
    {<<Node(<<"frame">>)>>,
     <<Other(<<"foreign">>), Node(<<"flags", "short", "frame">>)>>,
     <<Node(<<"flags">>), Node(<<"frame">>)>>,
     <<Node(<<"foreign", "frame">>)>>,
     <<Node(<<"end", "frame">>)>>}
MCFragile == {<<Other(<<"foreign">>), Node(<<"flags", "short", "frame">>)>>}

\* In the head of that packet, a report's and the frame; and its bytes that begin the
\* node's address, tell the length of either report's data or of a structure, tell
\* the event's type, and end the signature.
MCCuts == {4, 40, 100}
MCDamage == {29, 38, 58, 65, 68, 250}
MCNoise == {2, 255}

AllCryptoFaults == {"key", "export", "sign"}
=============================================================================
