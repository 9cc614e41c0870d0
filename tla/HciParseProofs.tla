--------------------------- MODULE HciParseProofs ---------------------------
(***************************************************************************)
(* The parser stays inside of every packet, not only of the few that TLC   *)
(* is given: whatever bytes it holds, however long it is and wherever it   *)
(* was cut off.                                                            *)
(***************************************************************************)
EXTENDS HciParse, TLAPS

\* What keeps a step in bounds: the AD data the inner loop goes through was held against
\* the packet before the loop began.
ParseInv ==
    /\ pkt \in Seq(Int) /\ opaque \in 0 .. 255
    /\ parse_pc \in {"idle", "report", "ad", "done"}
    /\ num_reports \in Int /\ offset \in Nat /\ i \in Nat /\ touched \in Nat
    /\ ad_data \in [from : Nat, to : Nat]
    /\ parse_pc = "ad" => ad_data.to <= Len(pkt)
    /\ touched <= Len(pkt)

\* Whatever is read is a byte.
LEMMA ReadIsByte ==
    ASSUME NEW p, NEW v \in 0 .. 255, NEW k
    PROVE  ReadOf(p, v, k) \in 0 .. 255
  BY DEF ReadOf

\* A read or slice that ends within the packet keeps the history within it.
LEMMA TouchInside ==
    ASSUME ParseInv, NEW to \in Nat, to <= Len(pkt), Touch(to)
    PROVE  touched' \in Nat /\ touched' <= Len(pkt)
  BY DEF ParseInv, Touch

LEMMA LengthsAreBytes ==
    ASSUME ParseInv
    PROVE  /\ data_length \in 0 .. 255 /\ ad_length \in 0 .. 255
           /\ report_end \in Nat /\ ad_end \in Nat
  <1>1. data_length \in 0 .. 255 /\ ad_length \in 0 .. 255
    BY ReadIsByte DEF ParseInv, data_length, ad_length, Read
  <1> QED
    BY <1>1, SMTT(30) DEF ParseInv, report_end, ad_end, REPORT_HDR

LEMMA ParseInvInit == ParseInit => ParseInv
  <1> SUFFICES ASSUME ParseInit PROVE ParseInv
    OBVIOUS
  <1>1. pkt \in Seq(Int) /\ Len(pkt) = 0
    BY DEF ParseInit
  <1> QED
    BY <1>1 DEF ParseInit, ParseInv, NoData

LEMMA ParseInvNext == ParseInv /\ [ParseNext]_parsevars => ParseInv'
  <1> SUFFICES ASSUME ParseInv, [ParseNext]_parsevars
               PROVE  ParseInv'
    OBVIOUS
  <1> USE LengthsAreBytes
  <1>1. ASSUME NEW p \in Seq(Int), NEW v \in 0 .. 255, parse(p, v)
        PROVE  ParseInv'
    <2>1. PICK reports \in 0 .. 255 : reports = ReadOf(p, v, 4)
      BY ReadIsByte, Zenon
    <2>2. Len(p) \in Nat
      OBVIOUS
    <2>3. touched' \in Nat /\ touched' <= Len(p)
      BY <1>1, <2>2 DEF parse
    <2>4. num_reports' \in {reports, 0} /\ parse_pc' \in {"report", "done"}
      BY <1>1, <2>1, Zenon DEF parse
    <2>5. num_reports' \in Int
      BY <2>4
    <2> QED
      BY <1>1, <2>3, <2>4, <2>5 DEF parse, ParseInv, NoData
  <1>2. CASE no_more_reports
    BY <1>2 DEF no_more_reports, Done, ParseInv
  <1>3. CASE report_header_cut
    BY <1>3 DEF report_header_cut, Done, ParseInv
  <1>4. CASE report_data_cut
    <2>1. offset + REPORT_HDR \in Nat /\ offset + REPORT_HDR <= Len(pkt)
      BY <1>4 DEF report_data_cut, InHeader, ParseInv, REPORT_HDR
    <2>2. touched' \in Nat /\ touched' <= Len(pkt)
      BY <1>4, <2>1, TouchInside DEF report_data_cut
    <2> QED
      BY <1>4, <2>2 DEF report_data_cut, Done, ParseInv
  <1>5. CASE other_node
    <2>1. report_end <= Len(pkt)
      BY <1>5 DEF other_node, ParseInv
    <2>2. touched' \in Nat /\ touched' <= Len(pkt)
      BY <1>5, <2>1, TouchInside DEF other_node
    <2> QED
      BY <1>5, <2>2 DEF other_node, InHeader, ParseInv
  <1>6. CASE our_node
    <2>1. report_end <= Len(pkt)
      BY <1>6 DEF our_node, ParseInv
    <2>2. touched' \in Nat /\ touched' <= Len(pkt)
      BY <1>6, <2>1, TouchInside DEF our_node
    <2> QED
      BY <1>6, <2>1, <2>2 DEF our_node, ParseInv, REPORT_HDR
  <1>7. CASE ad_ends
    <2>1. touched' \in Nat /\ touched' <= Len(pkt)
      <3>1. CASE UNCHANGED touched
        BY <3>1 DEF ParseInv
      <3>2. CASE InAd /\ Touch(i + 1)
        <4>1. i + 1 \in Nat /\ i + 1 <= Len(pkt)
          BY <3>2 DEF InAd, ParseInv
        <4> QED
          BY <3>2, <4>1, TouchInside
      <3> QED
        BY <1>7, <3>1, <3>2 DEF ad_ends
    <2> QED
      BY <1>7, <2>1 DEF ad_ends, Done, ParseInv
  <1>8. CASE next_ad
    <2>1. ad_end <= Len(pkt)
      BY <1>8 DEF next_ad, WholeAd, InAd, ParseInv
    <2>2. touched' \in Nat /\ touched' <= Len(pkt)
      BY <1>8, <2>1, TouchInside DEF next_ad
    <2> QED
      BY <1>8, <2>2 DEF next_ad, ParseInv
  <1>9. CASE manufacturer_data
    <2>1. ad_end <= Len(pkt)
      BY <1>9 DEF manufacturer_data, WholeAd, InAd, ParseInv
    <2>2. touched' \in Nat /\ touched' <= Len(pkt)
      BY <1>9, <2>1, TouchInside DEF manufacturer_data
    <2> QED
      BY <1>9, <2>2 DEF manufacturer_data, Done, ParseInv
  <1>10. CASE taken
    <2>1. pkt' \in Seq(Int) /\ Len(pkt') = 0
      BY <1>10 DEF taken
    <2> QED
      BY <1>10, <2>1 DEF taken, ParseInv, NoData
  <1>11. CASE UNCHANGED parsevars
    BY <1>11 DEF parsevars, ParseInv
  <1> QED
    BY <1>1, <1>2, <1>3, <1>4, <1>5, <1>6, <1>7, <1>8, <1>9, <1>10, <1>11 DEF ParseNext, parse_step

\* The invariant holds whatever packets the parser is handed.
THEOREM ParseInductive == ParseSpec => []ParseInv
  BY ParseInvInit, ParseInvNext, PTL DEF ParseSpec

\* parse_ext_adv_report() and parse_ad_manufacturer() never index or slice beyond the end
\* of the packet, for every packet: the scan task does not panic on what the radio brings.
THEOREM AlwaysInBounds == ParseSpec => []ParserInBounds
  <1>1. ParseInv => ParserInBounds
    BY DEF ParseInv, ParserInBounds
  <1> QED
    BY <1>1, ParseInductive, PTL

=============================================================================
