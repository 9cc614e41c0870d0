------------------------------ MODULE HciParse ------------------------------
(***************************************************************************)
(* The gateway's parser of HCI packets: parse_ext_adv_report() and         *)
(* parse_ad_manufacturer() (gateway/crates/gateway/src/main.rs).  It runs  *)
(* inside the scan task on whatever the controller delivers, so that a     *)
(* read beyond the packet would panic the task and leave a gateway that    *)
(* is "online" and deaf.  Each action is one iteration of a loop.          *)
(***************************************************************************)
EXTENDS Integers, Sequences

CONSTANT NodeMac    \* NODE_MAC as it is on the wire: six bytes, least significant first

ASSUME NodeMacAssumption == NodeMac \in [1 .. 6 -> 0 .. 255]

VARIABLES
    pkt,        \* the packet: a sequence of numbers, of which 0 .. 255 are plain bytes
    opaque,     \* the value of every other byte of it: noise, or what a node drew or made
    parse_pc,   \* "idle", "report" and "ad" in the loops, or "done"
    num_reports,
    offset,     \* of the report
    ad_data,    \* [from, to): its AD data
    i,          \* parse_ad_manufacturer()'s position in pkt
    found,      \* the result: [mfr_id, payload], or NoFrame
    touched     \* history: the end of the furthest byte read so far

parsevars == <<pkt, opaque, parse_pc, num_reports, offset, ad_data, i, found, touched>>

NoFrame == [mfr_id |-> <<>>, payload |-> <<>>]
NoData == [from |-> 0, to |-> 0]

\* p[k], counted from 0, in a packet p whose other bytes read as v.
ReadOf(p, v, k) == LET b == IF k + 1 \in 1 .. Len(p) THEN p[k + 1] ELSE 0
                   IN  IF b \in 0 .. 255 THEN b ELSE v
Read(k) == ReadOf(pkt, opaque, k)

Touch(to) == touched' = IF to > touched THEN to ELSE touched

Done(result) ==
    /\ parse_pc' = "done" /\ found' = result
    /\ UNCHANGED <<pkt, opaque, num_reports, offset, ad_data, i>>

HCI_EVENT_PKT == 4
HCI_EVENT_CODE_LE_META == 62
LE_EXT_ADV_REPORT_SUBEVENT == 13
REPORT_HDR == 24

\* A packet p comes from the reader, its unknown bytes reading as v.
parse(p, v) ==
    /\ parse_pc = "idle"
    /\ pkt' = p /\ opaque' = v
    /\ offset' = 5 /\ ad_data' = NoData /\ i' = 0
    /\ LET ours == /\ Len(p) >= 5
                   /\ ReadOf(p, v, 0) = HCI_EVENT_PKT
                   /\ ReadOf(p, v, 1) = HCI_EVENT_CODE_LE_META
                   /\ ReadOf(p, v, 3) = LE_EXT_ADV_REPORT_SUBEVENT
       IN  /\ parse_pc' = IF ours THEN "report" ELSE "done"
           /\ num_reports' = IF ours THEN ReadOf(p, v, 4) ELSE 0
           /\ touched' = IF Len(p) >= 5 THEN 5 ELSE 0
    /\ found' = NoFrame

no_more_reports ==
    /\ parse_pc = "report" /\ num_reports = 0
    /\ Done(NoFrame) /\ UNCHANGED touched

\* pkt.len() < offset + REPORT_HDR
report_header_cut ==
    /\ parse_pc = "report" /\ num_reports > 0 /\ Len(pkt) < offset + REPORT_HDR
    /\ Done(NoFrame) /\ UNCHANGED touched

data_length == Read(offset + 23)
report_end == offset + REPORT_HDR + data_length
InHeader == parse_pc = "report" /\ num_reports > 0 /\ Len(pkt) >= offset + REPORT_HDR
OfNode == \A k \in 0 .. 5 : Read(offset + 3 + k) = NodeMac[k + 1]

\* pkt.len() < offset + REPORT_HDR + data_length
report_data_cut ==
    /\ InHeader /\ Len(pkt) < report_end
    /\ Done(NoFrame) /\ Touch(offset + REPORT_HDR)

other_node ==
    /\ InHeader /\ Len(pkt) >= report_end /\ ~OfNode
    /\ offset' = report_end /\ num_reports' = num_reports - 1
    /\ Touch(report_end)
    /\ UNCHANGED <<pkt, opaque, parse_pc, ad_data, i, found>>

\* Seeded bug: the length of the AD data is not held against the packet.
our_node_unchecked ==
    /\ InHeader /\ OfNode
    /\ parse_pc' = "ad"
    /\ ad_data' = [from |-> offset + REPORT_HDR, to |-> report_end]
    /\ i' = offset + REPORT_HDR
    /\ Touch(report_end)
    /\ UNCHANGED <<pkt, opaque, num_reports, offset, found>>

our_node ==
    /\ InHeader /\ Len(pkt) >= report_end /\ OfNode
    /\ parse_pc' = "ad"
    /\ ad_data' = [from |-> offset + REPORT_HDR, to |-> report_end]
    /\ i' = offset + REPORT_HDR
    /\ Touch(report_end)
    /\ UNCHANGED <<pkt, opaque, num_reports, offset, found>>

\* The AD structure at i: its length counts the type, and its content follows that.
ad_length == Read(i)
ad_end == i + 1 + ad_length
InAd == parse_pc = "ad" /\ i < ad_data.to
WholeAd == InAd /\ ad_length > 0 /\ ad_end <= ad_data.to
Manufacturer == Read(i + 1) = 255 /\ ad_length >= 3

ad_ends ==
    /\ parse_pc = "ad"
    /\ \/ i >= ad_data.to /\ UNCHANGED touched
       \/ InAd /\ ~WholeAd /\ Touch(i + 1)
    /\ Done(NoFrame)

\* Seeded bug: the length is taken to leave the type out.
next_ad_short ==
    /\ WholeAd /\ ~Manufacturer
    /\ i' = i + ad_length
    /\ Touch(ad_end)
    /\ UNCHANGED <<pkt, opaque, parse_pc, num_reports, offset, ad_data, found>>

next_ad ==
    /\ WholeAd /\ ~Manufacturer
    /\ i' = ad_end
    /\ Touch(ad_end)
    /\ UNCHANGED <<pkt, opaque, parse_pc, num_reports, offset, ad_data, found>>

\* The first manufacturer data decides, by the low byte of its company id: protocol
\* version 2.
manufacturer_data ==
    /\ WholeAd /\ Manufacturer
    /\ Touch(ad_end)
    /\ Done(IF Read(i + 2) = 2
            THEN [mfr_id |-> SubSeq(pkt, i + 3, i + 4), payload |-> SubSeq(pkt, i + 5, ad_end)]
            ELSE NoFrame)

parse_step ==
    \/ no_more_reports \/ report_header_cut \/ report_data_cut \/ other_node \/ our_node
    \/ ad_ends \/ next_ad \/ manufacturer_data

\* The scan task takes the result.
taken ==
    /\ parse_pc = "done"
    /\ parse_pc' = "idle" /\ pkt' = <<>> /\ found' = NoFrame /\ touched' = 0
    /\ opaque' = 0 /\ num_reports' = 0 /\ offset' = 0 /\ ad_data' = NoData /\ i' = 0

ParseInit ==
    /\ pkt = <<>> /\ opaque = 0 /\ parse_pc = "idle" /\ num_reports = 0 /\ offset = 0
    /\ ad_data = NoData /\ i = 0 /\ found = NoFrame /\ touched = 0

\* On its own, the parser is handed any packet at all.
ParseNext ==
    \/ \E p \in Seq(Int), v \in 0 .. 255 : parse(p, v)
    \/ parse_step \/ taken

ParseSpec == ParseInit /\ [][ParseNext]_parsevars

----------------------------------------------------------------------------

\* No packet, however cut or damaged, makes the parser read or slice beyond its end.
ParserInBounds == touched <= Len(pkt)

=============================================================================
