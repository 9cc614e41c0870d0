------------------------------- MODULE Outbox -------------------------------
(***************************************************************************)
(* What the way to the MQTT broker promises, with no channels, tasks or    *)
(* timeouts in it: frames are numbered, put in by number, and sent by      *)
(* number.  What was sent and not acknowledged when a connection is lost   *)
(* may be sent again; a frame may be given up at any time before it is     *)
(* sent.                                                                   *)
(***************************************************************************)
EXTENDS Integers, Sequences

VARIABLES
    pending,    \* the frames waiting to be sent
    unacked,    \* those sent and not acknowledged
    connected,  \* what is sent arrives
    delivered   \* the frames that arrived, in order

outbox == <<pending, unacked, connected, delivered>>

Arrived == {delivered[k] : k \in DOMAIN delivered}

OutboxInit == pending = {} /\ unacked = {} /\ connected = FALSE /\ delivered = <<>>

Put ==
    /\ \E n \in pending' :
         /\ n \in Nat /\ \A m \in pending \cup unacked \cup Arrived : m < n
         /\ pending' = pending \cup {n}
    /\ UNCHANGED <<unacked, connected, delivered>>

GiveUp ==
    /\ \E n \in pending : pending' = pending \ {n}
    /\ UNCHANGED <<unacked, connected, delivered>>

\* The lowest number first.  On a lost connection it does not arrive, but is not acknowledged.
Send ==
    /\ \E n \in pending :
         /\ \A m \in pending : n <= m
         /\ pending' = pending \ {n} /\ unacked' = unacked \cup {n}
         /\ delivered' = IF connected THEN Append(delivered, n) ELSE delivered
    /\ UNCHANGED connected

Acknowledge ==
    /\ connected /\ \E n \in unacked : unacked' = unacked \ {n}
    /\ UNCHANGED <<pending, connected, delivered>>

Break == connected /\ connected' = FALSE /\ UNCHANGED <<pending, unacked, delivered>>

\* A lost connection is noticed: what was not acknowledged is kept, or some of all forgotten.
Recover ==
    /\ ~connected
    /\ unacked' = {} /\ pending' \subseteq pending \cup unacked
    /\ UNCHANGED <<connected, delivered>>

Connect == ~connected /\ unacked = {} /\ connected' = TRUE /\ UNCHANGED <<pending, unacked, delivered>>

Crash == pending' = {} /\ unacked' = {} /\ connected' = FALSE /\ UNCHANGED delivered

OutboxNext ==
    Put \/ GiveUp \/ Send \/ Acknowledge \/ Break \/ Recover \/ Connect \/ Crash

OutboxSpec == OutboxInit /\ [][OutboxNext]_outbox

\* A frame arrives after all of lower numbers that ever arrive, unless it arrives again.
DeliveredInOrder ==
    \A j \in DOMAIN delivered :
      \/ \E k \in 1 .. j - 1 : delivered[k] = delivered[j]
      \/ \A k \in 1 .. j - 1 : delivered[k] < delivered[j]

=============================================================================
