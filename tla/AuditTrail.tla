----------------------------- MODULE AuditTrail -----------------------------
(***************************************************************************)
(* What the whole system keeps, with no bytes, keys or packets in it:      *)
(* nodes sign records of events, the trail holds nothing but what nodes    *)
(* signed, and an operator is shown the trail as it is or nothing of it.   *)
(* A record is never made up nor altered.  It may be lost on its way; and  *)
(* it may be trailed more than once, late and behind newer records, for a  *)
(* node repeats it on the air and nothing that receives it keeps track of  *)
(* the numbers received before.                                            *)
(***************************************************************************)
EXTENDS Integers, Sequences

VARIABLES
    signed,  \* every record signed, in order: [boot, ler]
    trail,   \* positions in signed
    shown,   \* the records on the operator's screen
    upto     \* how much of the trail the operator has been through

audit == <<signed, trail, shown, upto>>

AuditInit == signed = <<>> /\ trail = <<>> /\ shown = <<>> /\ upto = 0

\* A record's number tells it from all others signed since the node's last boot.
Sign ==
    /\ Len(signed') = Len(signed) + 1
    /\ SubSeq(signed', 1, Len(signed)) = signed
    /\ LET new == signed'[Len(signed) + 1]
       IN  \A k \in DOMAIN signed :
             \/ signed[k].boot < new.boot
             \/ signed[k].boot = new.boot /\ signed[k].ler.sequence < new.ler.sequence
    /\ UNCHANGED <<trail, shown, upto>>

Store ==
    /\ \E k \in DOMAIN signed : trail' = Append(trail, k)
    /\ UNCHANGED <<signed, shown, upto>>

\* The operator opens a client, which begins with the oldest record or after the newest,
\* or closes it.
Open ==
    /\ upto' \in {0, Len(trail)} /\ shown' = <<>>
    /\ UNCHANGED <<signed, trail>>

\* The client goes through what is new, and shows all of it or, lacking the key, none.
Show ==
    /\ upto' = Len(trail)
    /\ LET new == [i \in 1 .. Len(trail) - upto |-> signed[trail[upto + i]].ler]
       IN  shown' \in {shown, shown \o new}
    /\ UNCHANGED <<signed, trail>>

AuditSpec == AuditInit /\ [][Sign \/ Store \/ Open \/ Show]_audit

=============================================================================
