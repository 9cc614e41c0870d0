--------------------------- MODULE GatewayProofs ----------------------------
(***************************************************************************)
(* The safety of the gateway, for channels and a screen of any capacity,   *)
(* any number of packets, outages and starts, and whichever calls fail;    *)
(* and its implementation of the outbox.                                   *)
(***************************************************************************)
EXTENDS Gateway, SequenceTheorems, FiniteSetTheorems, TLAPS

LEMMA Constants ==
    /\ PktCap \in Nat \ {0} /\ MqttCap \in Nat \ {0} /\ RequestCap \in Nat \ {0} /\ Ring \in Nat \ {0}
    /\ Debounce \in Nat /\ MaxPackets \in Nat /\ MaxOutages \in Nat /\ MaxStarts \in Nat
  BY CapAssumption, DebounceAssumption, BoundAssumption

----------------------------------------------------------------------------
(* Queues.                                                                 *)

LEMMA HeadTail ==
    ASSUME NEW S, NEW s \in Seq(S), s # <<>>
    PROVE  /\ Head(s) \in S /\ Tail(s) \in Seq(S) /\ Len(Tail(s)) = Len(s) - 1 /\ Len(s) \in Nat \ {0}
           /\ Head(s) = s[1] /\ \A i \in 1 .. Len(s) - 1 : Tail(s)[i] = s[i + 1]
  BY HeadTailProperties, EmptySeq

\* A message of the MQTT tasks is a frame, or one of the two health messages.
LEMMA MessageFacts ==
    ASSUME NEW m \in Messages
    PROVE  /\ m.what \in {"frame", "online", "offline"}
           /\ m.what = "frame" => m.n \in Receptions
           /\ m # Nothing
  BY DEF Messages, Message, Online, Offline, Nothing

----------------------------------------------------------------------------
(* Types.                                                                  *)

\* A record is in the scan task's hands while it inserts, publishes and pushes it.
Recording == scan_pc \in {"insert", "publish", "push"} => rec.n \in Receptions

ScanTypes ==
    /\ reader \in BOOLEAN /\ read \in 0 .. MaxPackets
    /\ pkts \in Seq([n : Receptions, reports : Packets]) /\ Len(pkts) <= PktCap
    /\ scan_pc \in {"recv", "insert", "publish", "push", "exited"}
    /\ rec \in Records /\ Recording
AppTypes ==
    /\ app.events \in Seq(Records) /\ Len(app.events) <= Ring
    /\ app.total_valid \in Nat /\ app.total_invalid \in Nat
MqttTypes ==
    /\ mqtt_q \in Seq(Messages) /\ Len(mqtt_q) <= MqttCap
    /\ requests \in Seq(Messages) /\ Len(requests) <= RequestCap
    /\ resend \in Seq(Messages) /\ inflight \in Seq(Messages)
    /\ publishing \in Messages \cup {Nothing} /\ eventloop \in {"poll", "announce"}
BrokerTypes ==
    /\ conn \in {"down", "up", "broken"} /\ session \in BOOLEAN
    /\ health \in {"none", "online", "offline"} /\ delivered \in Seq(Receptions)
ProcessTypes == main_pc \in {"run", "offline", "grace", "gone"} /\ starts \in 0 .. MaxStarts
NtfyTypes == quiet \in 0 .. Debounce /\ alerted \subseteq Receptions
TableTypes ==
    /\ rows \subseteq [id : Nat, n : Receptions, verified : BOOLEAN, acked : BOOLEAN]
    /\ sqlite_sequence \in Nat /\ unrecorded \subseteq Receptions

Types ==
    /\ ScanTypes /\ AppTypes /\ MqttTypes /\ BrokerTypes /\ ProcessTypes /\ NtfyTypes /\ TableTypes

LEMMA TypesSuffice == Types => GatewayTypeOK
  BY DEF Types, ScanTypes, AppTypes, MqttTypes, BrokerTypes, ProcessTypes, NtfyTypes, TableTypes,
         GatewayTypeOK

LEMMA TypesInit == GatewayInit => Types
  <1> SUFFICES ASSUME GatewayInit PROVE Types
    OBVIOUS
  <1> USE Constants
  <1>0. Len(<<>>) = 0 /\ \A S : <<>> \in Seq(S)
    BY EmptySeq
  <1>1. ScanTypes
    <2>1. reader = FALSE /\ pkts = <<>> /\ scan_pc = "exited" /\ rec = NoRecord /\ read = 0
      BY DEF GatewayInit
    <2>2. rec \in Records
      BY <2>1 DEF NoRecord, Records
    <2>3. reader \in BOOLEAN
      BY <2>1, Zenon
    <2> QED
      BY <2>1, <2>2, <2>3, <1>0 DEF ScanTypes, Recording
  <1>2. AppTypes
    BY DEF GatewayInit, AppTypes, EmptyApp
  <1>3. MqttTypes
    <2>1. /\ mqtt_q = <<>> /\ publishing = Nothing /\ requests = <<>> /\ eventloop = "poll"
          /\ resend = <<>> /\ inflight = <<>>
      BY DEF GatewayInit
    <2> QED
      BY <2>1, <1>0 DEF MqttTypes
  <1>4. BrokerTypes
    <2>1. session \in BOOLEAN
      BY Zenon DEF GatewayInit
    <2> QED
      BY <2>1, <1>0 DEF GatewayInit, BrokerTypes
  <1>5. ProcessTypes /\ NtfyTypes
    BY DEF GatewayInit, ProcessTypes, NtfyTypes
  <1>6. TableTypes
    BY DEF GatewayInit, TableTypes, StoreInit
  <1> QED
    BY <1>1, <1>2, <1>3, <1>4, <1>5, <1>6 DEF Types

LEMMA SameTypes ==
    ASSUME Types
    PROVE  /\ UNCHANGED scan => ScanTypes'
           /\ UNCHANGED app => AppTypes'
           /\ UNCHANGED mqtt => MqttTypes'
           /\ UNCHANGED broker => BrokerTypes'
           /\ UNCHANGED process => ProcessTypes'
           /\ UNCHANGED ntfy => NtfyTypes'
           /\ UNCHANGED store /\ UNCHANGED unrecorded => TableTypes'
  <1>1. UNCHANGED scan => ScanTypes'
    BY DEF Types, scan, ScanTypes, Recording
  <1>2. UNCHANGED app => AppTypes'
    BY DEF Types, AppTypes
  <1>3. UNCHANGED mqtt => MqttTypes'
    BY DEF Types, mqtt, library, MqttTypes
  <1>4. UNCHANGED broker => BrokerTypes'
    BY DEF Types, broker, BrokerTypes
  <1>5. (UNCHANGED process => ProcessTypes') /\ (UNCHANGED ntfy => NtfyTypes')
    BY DEF Types, process, ntfy, ProcessTypes, NtfyTypes
  <1>6. UNCHANGED store /\ UNCHANGED unrecorded => TableTypes'
    BY DEF Types, store, TableTypes
  <1> QED
    BY <1>1, <1>2, <1>3, <1>4, <1>5, <1>6

LEMMA ScanStepTypes ==
    ASSUME Types, reader_thread \/ reader_ends \/ hci_scan_task \/ debounce
    PROVE  Types'
  <1> USE Constants, SameTypes
  <1>1. CASE reader_thread
    <2>1. PICK p \in Packets : pkts' = Append(pkts, [n |-> read + 1, reports |-> p])
      BY <1>1 DEF reader_thread
    <2>2. [n |-> read + 1, reports |-> p] \in [n : Receptions, reports : Packets]
      BY <1>1 DEF reader_thread, Receptions, Types, ScanTypes
    <2>3. pkts' \in Seq([n : Receptions, reports : Packets]) /\ Len(pkts') <= PktCap
      BY <1>1, <2>1, <2>2 DEF reader_thread, Types, ScanTypes
    <2>4. ScanTypes'
      BY <1>1, <2>3 DEF reader_thread, Types, ScanTypes, Recording
    <2> QED
      BY <1>1, <2>4 DEF reader_thread, Types
  <1>2. CASE reader_ends
    <2>1. ScanTypes'
      BY <1>2 DEF reader_ends, Types, ScanTypes, Recording
    <2> QED
      BY <1>2, <2>1 DEF reader_ends, Types
  <1>3. CASE receive
    <2>1. pkts \in Seq([n : Receptions, reports : Packets]) /\ pkts # <<>> /\ Len(pkts) <= PktCap
      BY <1>3 DEF receive, Types, ScanTypes
    <2>2. /\ Head(pkts) \in [n : Receptions, reports : Packets]
          /\ Tail(pkts) \in Seq([n : Receptions, reports : Packets]) /\ Len(Tail(pkts)) <= PktCap
      <3> DEFINE S == [n : Receptions, reports : Packets]
      <3>1. pkts \in Seq(S)
        BY <2>1
      <3> HIDE DEF S
      <3>2. Head(pkts) \in S /\ Tail(pkts) \in Seq(S) /\ Len(Tail(pkts)) = Len(pkts) - 1
            /\ Len(pkts) \in Nat
        BY <2>1, <3>1, HeadTail
      <3> QED
        BY <2>1, <3>2 DEF S
    <2>3. Head(pkts).n \in Receptions /\ Receptions \subseteq 0 .. MaxPackets
      BY <2>2 DEF Receptions
    <2>4. rec' \in Records /\ scan_pc' \in {"recv", "insert"} /\ (scan_pc' = "insert" => rec'.n \in Receptions)
      BY <1>3, <2>3 DEF receive, Records, Types, ScanTypes
    <2>5. ScanTypes'
      BY <1>3, <2>2, <2>4 DEF receive, Types, ScanTypes, Recording
    <2> QED
      BY <1>3, <2>5 DEF receive, Types
  <1>4. CASE scan_exits
    <2>1. ScanTypes'
      BY <1>4 DEF scan_exits, Types, ScanTypes, Recording
    <2> QED
      BY <1>4, <2>1 DEF scan_exits, Types
  <1>5. CASE insert
    <2>1. rec.n \in Receptions /\ rec.id \in Nat /\ rec.verified \in BOOLEAN /\ rec.n \in 0 .. MaxPackets
      BY <1>5 DEF insert, Records, Types, ScanTypes, Recording
    <2>2. CASE db_insert(rec.n, rec.verified) /\ rec' = [rec EXCEPT !.id = insert_id] /\ UNCHANGED unrecorded
      <3> DEFINE new == [id |-> insert_id, n |-> rec.n, verified |-> rec.verified, acked |-> FALSE]
      <3>1. insert_id \in Nat
        BY DEF insert_id, Types, TableTypes
      <3>2. new \in [id : Nat, n : Receptions, verified : BOOLEAN, acked : BOOLEAN]
        BY <2>1, <3>1
      <3>3. rows' = rows \cup {new} /\ sqlite_sequence' \in Nat
        BY <2>2, <3>1 DEF db_insert, Types, TableTypes
      <3> HIDE DEF new
      <3>4. TableTypes'
        BY <2>2, <3>2, <3>3 DEF TableTypes, Types
      <3>5. rec' \in Records /\ rec'.n = rec.n
        BY <2>1, <2>2, <3>1 DEF Records, Types, ScanTypes
      <3>6. ScanTypes'
        BY <1>5, <2>1, <3>5 DEF insert, Types, ScanTypes, Recording
      <3> QED
        BY <1>5, <3>4, <3>6 DEF insert, Types
    <2>3. CASE unrecorded' = unrecorded \cup {rec.n} /\ UNCHANGED <<store, rec>>
      <3>1. TableTypes'
        BY <2>1, <2>3 DEF TableTypes, Types, store
      <3>2. ScanTypes'
        BY <1>5, <2>1, <2>3 DEF insert, Types, ScanTypes, Recording
      <3> QED
        BY <1>5, <3>1, <3>2 DEF insert, Types
    <2> QED
      BY <1>5, <2>2, <2>3 DEF insert
  <1>6. CASE publish
    <2>1. rec.n \in Receptions
      BY <1>6 DEF publish, Types, ScanTypes, Recording
    <2>2. MqttTypes'
      <3>1. Message("frame", rec.n) \in Messages
        BY <2>1 DEF Messages
      <3> QED
        BY <1>6, <3>1 DEF publish, Types, MqttTypes, library
    <2>3. NtfyTypes'
      BY <1>6, <2>1 DEF publish, ntfy_notify, ntfy, Types, NtfyTypes
    <2>4. ScanTypes'
      BY <1>6, <2>1 DEF publish, Types, ScanTypes, Recording
    <2> QED
      BY <1>6, <2>2, <2>3, <2>4 DEF publish, Types
  <1>7. CASE push
    <2> DEFINE events == <<rec>> \o app.events
    <2>1. events \in Seq(Records) /\ Len(events) \in Nat
      BY DEF Types, AppTypes, ScanTypes
    <2>2. app'.events = Truncated(events) /\ app'.total_valid \in Nat /\ app'.total_invalid \in Nat
      BY <1>7 DEF push, App_push, Tallied, Types, AppTypes
    <2> HIDE DEF events
    <2>3. Truncated(events) \in Seq(Records) /\ Len(Truncated(events)) <= Ring
      <3>1. CASE Len(events) > Ring
        <4>1. \A k \in 1 .. Ring : events[k] \in Records
          BY <2>1, <3>1
        <4>2. SubSeq(events, 1, Ring) \in Seq(Records) /\ Len(SubSeq(events, 1, Ring)) = Ring
          BY <4>1, SubSeqProperties
        <4> QED
          BY <3>1, <4>2 DEF Truncated
      <3>2. CASE ~(Len(events) > Ring)
        BY <2>1, <3>2 DEF Truncated
      <3> QED
        BY <3>1, <3>2
    <2>4. AppTypes'
      BY <2>2, <2>3 DEF AppTypes
    <2>5. ScanTypes'
      BY <1>7 DEF push, Types, ScanTypes, Recording
    <2> QED
      BY <1>7, <2>4, <2>5 DEF push, Types
  <1>8. CASE debounce
    <2>1. NtfyTypes'
      BY <1>8 DEF debounce, Types, NtfyTypes
    <2> QED
      BY <1>8, <2>1 DEF debounce, Types
  <1> QED
    BY <1>1, <1>2, <1>3, <1>4, <1>5, <1>6, <1>7, <1>8 DEF hci_scan_task

LEMMA MqttStepTypes ==
    ASSUME Types, publish_loop \/ event_loop
    PROVE  Types'
  <1> USE Constants, SameTypes
  <1>0. /\ mqtt_q \in Seq(Messages) /\ requests \in Seq(Messages) /\ resend \in Seq(Messages)
        /\ inflight \in Seq(Messages) /\ Len(mqtt_q) <= MqttCap /\ Len(requests) <= RequestCap
        /\ Len(mqtt_q) \in Nat /\ Len(requests) \in Nat /\ Online \in Messages
        /\ Messages # {} /\ publishing \in Messages \cup {Nothing}
        /\ eventloop \in {"poll", "announce"}
    BY DEF Types, MqttTypes, Messages
  <1>1. CASE publish_next
    <2>1. /\ Head(mqtt_q) \in Messages /\ Tail(mqtt_q) \in Seq(Messages)
          /\ Len(Tail(mqtt_q)) <= MqttCap
      BY <1>0, <1>1, HeadTail DEF publish_next
    <2>2. MqttTypes'
      BY <1>0, <1>1, <2>1 DEF publish_next, MqttTypes, library
    <2> QED
      BY <1>1, <2>2 DEF publish_next, Types
  <1>2. CASE client_publish
    <2>1. Append(requests, publishing) \in Seq(Messages) /\ Len(Append(requests, publishing)) <= RequestCap
      <3>1. publishing \in Messages /\ Len(requests) < RequestCap
        BY <1>0, <1>2 DEF client_publish
      <3> QED
        BY <1>0, <3>1, AppendProperties
    <2>2. MqttTypes'
      BY <1>0, <1>2, <2>1 DEF client_publish, MqttTypes, library
    <2> QED
      BY <1>2, <2>2 DEF client_publish, Types
  <1>3. CASE publish_timeout
    <2>1. MqttTypes'
      BY <1>0, <1>3 DEF publish_timeout, MqttTypes, library
    <2> QED
      BY <1>3, <2>1 DEF publish_timeout, Types
  <1>4. CASE connect
    <2>1. MqttTypes'
      BY <1>0, <1>4 DEF connect, MqttTypes, library
    <2>2. session' \in BOOLEAN
      BY <1>4, Zenon DEF connect
    <2>3. BrokerTypes'
      BY <1>4, <2>2 DEF connect, BrokerTypes, Types
    <2> QED
      BY <1>4, <2>1, <2>3 DEF connect, Types
  <1>5. CASE announce
    <2>1. Append(requests, Online) \in Seq(Messages) /\ Len(Append(requests, Online)) <= RequestCap
      <3>1. Len(requests) < RequestCap
        BY <1>5 DEF announce
      <3> QED
        BY <1>0, <3>1, AppendProperties
    <2>2. MqttTypes'
      BY <1>0, <1>5, <2>1 DEF announce, MqttTypes, library
    <2> QED
      BY <1>5, <2>2 DEF announce, Types
  <1>6. CASE poll_request
    <2> DEFINE m == Head(resend \o requests)
    <2>1. m \in Messages /\ resend' \in Seq(Messages) /\ requests' \in Seq(Messages)
          /\ Len(requests') <= RequestCap
      <3>1. resend \o requests \in Seq(Messages) /\ resend \o requests # <<>>
        BY <1>0, <1>6 DEF poll_request
      <3>2. m \in Messages
        BY <3>1, HeadTail
      <3>3. CASE resend = <<>>
        <4>1. requests # <<>>
          BY <3>1, <3>3
        <4>2. Tail(requests) \in Seq(Messages) /\ Len(Tail(requests)) = Len(requests) - 1
          BY <1>0, <4>1, HeadTail
        <4> QED
          BY <1>0, <1>6, <3>2, <3>3, <4>2 DEF poll_request
      <3>4. CASE resend # <<>>
        <4>1. Tail(resend) \in Seq(Messages)
          BY <1>0, <3>4, HeadTail
        <4> QED
          BY <1>0, <1>6, <3>2, <3>4, <4>1 DEF poll_request
      <3> QED
        BY <3>3, <3>4
    <2>2. /\ inflight' = Append(inflight, m)
          /\ delivered' = IF conn = "up" /\ m.what = "frame" THEN Append(delivered, m.n) ELSE delivered
          /\ health' = IF conn = "up" /\ m.what # "frame" THEN m.what ELSE health
      BY <1>6 DEF poll_request
    <2> HIDE DEF m
    <2>3. MqttTypes'
      BY <1>0, <1>6, <2>1, <2>2, SMTT(30) DEF poll_request, MqttTypes
    <2>4. BrokerTypes'
      BY <1>6, <2>1, <2>2, MessageFacts, SMTT(30) DEF poll_request, BrokerTypes, Types
    <2> QED
      BY <1>6, <2>3, <2>4 DEF poll_request, Types
  <1>7. CASE poll_ack
    <2>1. Tail(inflight) \in Seq(Messages)
      BY <1>0, <1>7, HeadTail DEF poll_ack
    <2>2. MqttTypes'
      BY <1>0, <1>7, <2>1 DEF poll_ack, MqttTypes
    <2> QED
      BY <1>7, <2>2 DEF poll_ack, Types
  <1>8. CASE poll_error
    <2>1. requests' \in Seq(Messages) /\ Len(requests') <= RequestCap /\ resend' \in Seq(Messages)
      <3>1. PICK kept, drained \in BOOLEAN :
               /\ requests' = IF drained THEN <<>> ELSE requests
               /\ resend' = IF kept THEN inflight \o resend \o (IF drained THEN requests ELSE <<>>)
                                    ELSE <<>>
        BY <1>8 DEF poll_error
      <3>2. <<>> \in Seq(Messages) /\ Len(<<>>) = 0
        BY EmptySeq
      <3>3. requests' \in Seq(Messages) /\ Len(requests') <= RequestCap
        BY <1>0, <3>1, <3>2
      <3>4. inflight \o resend \in Seq(Messages)
        BY <1>0, ConcatProperties
      <3>5. (IF drained THEN requests ELSE <<>>) \in Seq(Messages)
        BY <1>0, <3>2
      <3>6. inflight \o resend \o (IF drained THEN requests ELSE <<>>) \in Seq(Messages)
        BY <3>4, <3>5, ConcatProperties
      <3> QED
        BY <3>1, <3>2, <3>3, <3>6
    <2>2. MqttTypes'
      <3>1. <<>> \in Seq(Messages)
        BY EmptySeq
      <3> QED
        BY <1>0, <1>8, <2>1, <3>1 DEF poll_error, MqttTypes
    <2>3. BrokerTypes'
      BY <1>8 DEF poll_error, BrokerTypes, Types
    <2> QED
      BY <1>8, <2>2, <2>3 DEF poll_error, Types
  <1> QED
    BY <1>1, <1>2, <1>3, <1>4, <1>5, <1>6, <1>7, <1>8 DEF publish_loop, event_loop, connected_loop

LEMMA ProcessStepTypes ==
    ASSUME Types, outage \/ broker_drops \/ stop \/ send_offline \/ exit \/ crash \/ start
    PROVE  Types'
  <1> USE Constants, SameTypes
  <1>1. CASE outage
    <2>1. BrokerTypes'
      BY <1>1 DEF outage, BrokerTypes, Types
    <2> QED
      BY <1>1, <2>1 DEF outage, Types
  <1>2. CASE broker_drops
    <2>1. session' \in BOOLEAN
      BY <1>2, Zenon DEF broker_drops
    <2>2. BrokerTypes'
      BY <1>2, <2>1 DEF broker_drops, BrokerTypes, Types
    <2> QED
      BY <1>2, <2>2 DEF broker_drops, Types
  <1>3. CASE stop
    <2>1. ProcessTypes'
      BY <1>3 DEF stop, ProcessTypes, Types
    <2> QED
      BY <1>3, <2>1 DEF stop, Types
  <1>4. CASE send_offline
    <2>1. mqtt_q \in Seq(Messages) /\ Offline \in Messages /\ Len(mqtt_q) < MqttCap
      BY <1>4 DEF send_offline, Types, MqttTypes, Messages
    <2>2. mqtt_q' \in Seq(Messages) /\ Len(mqtt_q') <= MqttCap
      BY <1>4, <2>1 DEF send_offline
    <2>3. MqttTypes'
      BY <1>4, <2>2 DEF send_offline, MqttTypes, Types, library
    <2>4. ProcessTypes'
      BY <1>4 DEF send_offline, ProcessTypes, Types
    <2> QED
      BY <1>4, <2>3, <2>4 DEF send_offline, Types
  <1>5. CASE exit \/ crash
    <2>1. end_process
      BY <1>5 DEF exit, crash
    <2>2. \A S : <<>> \in Seq(S)
      BY EmptySeq
    <2>3. Len(<<>>) = 0
      BY EmptySeq
    <2>4. ScanTypes'
      <3>1. /\ pkts' = <<>> /\ scan_pc' = "exited" /\ rec' = NoRecord /\ read' = read
        BY <2>1 DEF end_process
      <3>2. reader' \in BOOLEAN
        BY <2>1, Zenon DEF end_process
      <3>3. rec' \in Records
        BY <3>1 DEF NoRecord, Records
      <3> QED
        BY <2>2, <2>3, <3>1, <3>2, <3>3 DEF ScanTypes, Types, Recording
    <2>5. AppTypes'
      BY <2>1 DEF end_process, AppTypes, EmptyApp
    <2>6. MqttTypes'
      <3>1. /\ mqtt_q' = <<>> /\ publishing' = Nothing /\ requests' = <<>> /\ eventloop' = "poll"
            /\ resend' = <<>> /\ inflight' = <<>>
        BY <2>1 DEF end_process
      <3> QED
        BY <3>1, <2>2, <2>3 DEF MqttTypes
    <2>7. BrokerTypes' /\ ProcessTypes' /\ NtfyTypes'
      BY <2>1 DEF end_process, BrokerTypes, ProcessTypes, NtfyTypes, Types
    <2> QED
      BY <2>1, <2>4, <2>5, <2>6, <2>7 DEF end_process, Types
  <1>6. CASE start
    <2>1. ProcessTypes'
      BY <1>6 DEF start, ProcessTypes, Types
    <2>2. ScanTypes'
      <3>1. PICK shut \in Fails("open") : reader' = ~shut /\ scan_pc' = IF shut THEN "exited" ELSE "recv"
        BY <1>6 DEF start, hci_open_raw
      <3>2. reader' \in BOOLEAN
        BY <3>1, Zenon
      <3>3. scan_pc' \in {"exited", "recv"}
        BY <3>1
      <3> QED
        BY <1>6, <3>2, <3>3 DEF start, ScanTypes, Types, Recording
    <2> QED
      BY <1>6, <2>1, <2>2 DEF start, Types
  <1> QED
    BY <1>1, <1>2, <1>3, <1>4, <1>5, <1>6

LEMMA TypesNext == Types /\ [GatewayNext]_gatewayvars => Types'
  <1> SUFFICES ASSUME Types, [GatewayNext]_gatewayvars PROVE Types'
    OBVIOUS
  <1>1. CASE UNCHANGED gatewayvars
    <2>1. UNCHANGED <<scan, app, mqtt, broker, process, ntfy, store, unrecorded>>
      BY <1>1 DEF gatewayvars
    <2> QED
      BY <2>1, SameTypes DEF Types
  <1> QED
    BY <1>1, ScanStepTypes, MqttStepTypes, ProcessStepTypes DEF GatewayNext

----------------------------------------------------------------------------
(* The connection and what the broker thinks of it.                        *)

\* Only a running gateway has a connection, and the broker knows of one that works.  What
\* was sent and not acknowledged belongs to a connection, and to be sent again takes an outage.
Session ==
    /\ conn # "down" => Running
    /\ conn = "up" => session
    /\ conn = "down" => inflight = <<>>
    /\ (conn = "broken" \/ resend # <<>>) => outages > 0
    /\ outages \in Nat
    /\ HealthTellsLoss

LEMMA SessionInit == GatewayInit => Session
  BY DEF GatewayInit, Session, HealthTellsLoss

LEMMA SessionNext == Types /\ Session /\ [GatewayNext]_gatewayvars => Session'
  <1> SUFFICES ASSUME Types, Session, [GatewayNext]_gatewayvars PROVE Session'
    OBVIOUS
  <1> USE DEF Session, HealthTellsLoss, Running
  <1>1. ASSUME UNCHANGED process \/ main_pc' # "gone", UNCHANGED broker, UNCHANGED library
        PROVE  Session'
    BY <1>1 DEF process, broker, library
  <1>2. CASE reader_thread \/ reader_ends \/ hci_scan_task \/ debounce
    <2>1. UNCHANGED <<process, broker, library>>
      BY <1>2 DEF reader_thread, reader_ends, hci_scan_task, receive, scan_exits, insert, publish,
                  push, debounce, mqtt
    <2> QED
      BY <1>1, <2>1
  <1>3. CASE publish_loop \/ announce
    <2>1. UNCHANGED <<process, broker, library>>
      BY <1>3 DEF publish_loop, publish_next, client_publish, publish_timeout, announce
    <2> QED
      BY <1>1, <2>1
  <1>4. CASE connect
    BY <1>4 DEF connect, process, library
  <1>5. CASE poll_request
    <2>1. /\ conn # "down" /\ resend' = IF resend = <<>> THEN resend ELSE Tail(resend)
          /\ UNCHANGED <<process, conn, session, outages>>
          /\ conn = "up" \/ health' = health
      BY <1>5 DEF poll_request
    <2> QED
      BY <2>1 DEF process
  <1>6. CASE poll_ack
    BY <1>6 DEF poll_ack, process, broker
  <1>7. CASE poll_error
    BY <1>7 DEF poll_error, process
  <1>8. CASE outage
    BY <1>8 DEF outage, process, mqtt, library
  <1>9. CASE broker_drops
    BY <1>9 DEF broker_drops, process, mqtt, library
  <1>10. CASE stop \/ send_offline \/ start
    <2>1. main_pc' # "gone" /\ UNCHANGED <<broker, library>>
      BY <1>10 DEF stop, send_offline, start, mqtt
    <2> QED
      BY <1>1, <2>1
  <1>11. CASE exit \/ crash
    BY <1>11 DEF exit, crash, end_process
  <1>12. CASE UNCHANGED gatewayvars
    <2>1. UNCHANGED <<process, broker, library>>
      BY <1>12 DEF gatewayvars, mqtt
    <2> QED
      BY <1>1, <2>1
  <1> QED
    BY <1>2, <1>3, <1>4, <1>5, <1>6, <1>7, <1>8, <1>9, <1>10, <1>11, <1>12
       DEF GatewayNext, publish_loop, event_loop, connected_loop

----------------------------------------------------------------------------
(* The frames of a queue, and their order.                                 *)

FrameOf(m) == IF m.what = "frame" THEN {m.n} ELSE {}
Before(S, T) == \A m \in S, n \in T : m < n
InOrder(q) ==
    \A i, j \in DOMAIN q : (i < j /\ q[i].what = "frame" /\ q[j].what = "frame") => q[i].n < q[j].n

LEMMA FramesEmpty == Frames(<<>>) = {} /\ InOrder(<<>>)
  BY DEF Frames, InOrder

LEMMA FramesOne ==
    ASSUME NEW m
    PROVE  Frames(<<m>>) = FrameOf(m)
  <1>1. DOMAIN <<m>> = {1} /\ <<m>>[1] = m
    OBVIOUS
  <1>2. Frames(<<m>>) = {<<m>>[i].n : i \in {j \in {1} : <<m>>[j].what = "frame"}}
    BY <1>1 DEF Frames
  <1> QED
    BY <1>1, <1>2 DEF FrameOf

LEMMA FramesNumbers ==
    ASSUME NEW q \in Seq(Messages)
    PROVE  Frames(q) \subseteq Receptions
  BY MessageFacts DEF Frames

LEMMA FramesAppend ==
    ASSUME NEW q \in Seq(Messages), NEW m \in Messages
    PROVE  /\ Frames(Append(q, m)) = Frames(q) \cup FrameOf(m)
           /\ (InOrder(q) /\ Before(Frames(q), FrameOf(m))) => InOrder(Append(q, m))
  <1> DEFINE t == Append(q, m)
  <1>1. /\ Len(q) \in Nat /\ DOMAIN q = 1 .. Len(q) /\ DOMAIN t = 1 .. Len(q) + 1
        /\ t[Len(q) + 1] = m /\ \A i \in 1 .. Len(q) : t[i] = q[i]
    OBVIOUS
  <1> HIDE DEF t
  <1>2. \A i \in DOMAIN t : i \in DOMAIN q \/ i = Len(q) + 1
    BY <1>1
  <1>3. DOMAIN q \subseteq DOMAIN t /\ Len(q) + 1 \in DOMAIN t
    BY <1>1
  <1>4. Frames(t) = Frames(q) \cup FrameOf(m)
    BY <1>1, <1>2, <1>3 DEF Frames, FrameOf
  <1>5. ASSUME InOrder(q), Before(Frames(q), FrameOf(m)),
               NEW i \in DOMAIN t, NEW j \in DOMAIN t, i < j, t[i].what = "frame", t[j].what = "frame"
        PROVE  t[i].n < t[j].n
    <2>1. i \in DOMAIN q
      BY <1>1, <1>5
    <2>2. CASE j \in DOMAIN q
      BY <1>1, <1>5, <2>1, <2>2 DEF InOrder
    <2>3. CASE j = Len(q) + 1
      BY <1>1, <1>5, <2>1, <2>3 DEF Before, Frames, FrameOf
    <2> QED
      BY <1>2, <2>2, <2>3
  <1> QED
    BY <1>4, <1>5 DEF InOrder, t

LEMMA FramesHead ==
    ASSUME NEW q \in Seq(Messages), q # <<>>
    PROVE  /\ Head(q) \in Messages /\ Tail(q) \in Seq(Messages)
           /\ Frames(q) = FrameOf(Head(q)) \cup Frames(Tail(q))
           /\ InOrder(q) => InOrder(Tail(q)) /\ Before(FrameOf(Head(q)), Frames(Tail(q)))
  <1> DEFINE t == Tail(q)
  <1>1. /\ Head(q) = q[1] /\ Head(q) \in Messages /\ t \in Seq(Messages) /\ Len(t) = Len(q) - 1
        /\ Len(q) \in Nat \ {0} /\ \A i \in 1 .. Len(q) - 1 : t[i] = q[i + 1]
    BY HeadTail
  <1>2. DOMAIN q = 1 .. Len(q) /\ DOMAIN t = 1 .. Len(q) - 1
    BY <1>1
  <1> HIDE DEF t
  <1>3. \A i \in DOMAIN t : i + 1 \in DOMAIN q /\ i + 1 # 1 /\ t[i] = q[i + 1]
    BY <1>1, <1>2
  <1>4. \A i \in DOMAIN q : i = 1 \/ (i - 1 \in DOMAIN t /\ t[i - 1] = q[i])
    BY <1>1, <1>2
  <1>5. 1 \in DOMAIN q
    BY <1>1, <1>2
  <1>6. Frames(q) = FrameOf(Head(q)) \cup Frames(t)
    <2>1. Frames(q) \subseteq FrameOf(Head(q)) \cup Frames(t)
      BY <1>1, <1>4 DEF Frames, FrameOf
    <2>2. FrameOf(Head(q)) \cup Frames(t) \subseteq Frames(q)
      BY <1>1, <1>3, <1>5 DEF Frames, FrameOf
    <2> QED
      BY <2>1, <2>2
  <1>7. InOrder(q) => InOrder(t)
    <2> SUFFICES ASSUME InOrder(q), NEW i \in DOMAIN t, NEW j \in DOMAIN t, i < j,
                        t[i].what = "frame", t[j].what = "frame"
                 PROVE  t[i].n < t[j].n
      BY DEF InOrder
    <2>1. i + 1 \in DOMAIN q /\ j + 1 \in DOMAIN q /\ i + 1 < j + 1
      BY <1>2, <1>3
    <2> QED
      BY <1>3, <2>1 DEF InOrder
  <1>8. InOrder(q) => Before(FrameOf(Head(q)), Frames(t))
    <2> SUFFICES ASSUME InOrder(q), Head(q).what = "frame", NEW i \in DOMAIN t, t[i].what = "frame"
                 PROVE  Head(q).n < t[i].n
      BY DEF Before, FrameOf, Frames
    <2>1. i + 1 \in DOMAIN q /\ 1 < i + 1
      BY <1>2, <1>3
    <2> QED
      BY <1>1, <1>3, <1>5, <2>1 DEF InOrder
  <1> QED
    BY <1>1, <1>6, <1>7, <1>8 DEF t

LEMMA FramesConcat ==
    ASSUME NEW M, NEW p \in Seq(M), NEW q \in Seq(M)
    PROVE  /\ Frames(p \o q) = Frames(p) \cup Frames(q)
           /\ (InOrder(p) /\ InOrder(q) /\ Before(Frames(p), Frames(q))) => InOrder(p \o q)
  <1> DEFINE t == p \o q
  <1>1. /\ Len(p) \in Nat /\ Len(q) \in Nat /\ DOMAIN t = 1 .. Len(p) + Len(q)
        /\ DOMAIN p = 1 .. Len(p) /\ DOMAIN q = 1 .. Len(q)
        /\ \A i \in 1 .. Len(p) : t[i] = p[i]
        /\ \A i \in 1 .. Len(q) : t[Len(p) + i] = q[i]
    OBVIOUS
  <1> HIDE DEF t
  <1>2. \A i \in DOMAIN t : \/ i \in DOMAIN p /\ t[i] = p[i]
                            \/ i - Len(p) \in DOMAIN q /\ t[i] = q[i - Len(p)] /\ i \notin DOMAIN p
    <2> SUFFICES ASSUME NEW i \in DOMAIN t, i \notin DOMAIN p
                 PROVE  i - Len(p) \in DOMAIN q /\ t[i] = q[i - Len(p)]
      BY <1>1
    <2>1. i - Len(p) \in 1 .. Len(q) /\ Len(p) + (i - Len(p)) = i
      BY <1>1
    <2> QED
      BY <1>1, <2>1
  <1>3. /\ \A i \in DOMAIN p : i \in DOMAIN t /\ t[i] = p[i]
        /\ \A i \in DOMAIN q : Len(p) + i \in DOMAIN t /\ t[Len(p) + i] = q[i]
    BY <1>1
  <1>4. Frames(t) = Frames(p) \cup Frames(q)
    <2>1. Frames(t) \subseteq Frames(p) \cup Frames(q)
      BY <1>2 DEF Frames
    <2>2. Frames(p) \cup Frames(q) \subseteq Frames(t)
      BY <1>3 DEF Frames
    <2> QED
      BY <2>1, <2>2
  <1>5. ASSUME InOrder(p), InOrder(q), Before(Frames(p), Frames(q)),
               NEW i \in DOMAIN t, NEW j \in DOMAIN t, i < j, t[i].what = "frame", t[j].what = "frame"
        PROVE  t[i].n < t[j].n
    <2>1. CASE i \in DOMAIN p /\ j \in DOMAIN p
      BY <1>3, <1>5, <2>1 DEF InOrder
    <2>2. CASE i \in DOMAIN p /\ j \notin DOMAIN p
      BY <1>2, <1>5, <2>2 DEF Before, Frames
    <2>3. CASE i \notin DOMAIN p
      <3>1. j \notin DOMAIN p
        BY <1>1, <1>5, <2>3
      <3>2. i - Len(p) < j - Len(p)
        BY <1>1, <1>5
      <3> QED
        BY <1>2, <1>5, <2>3, <3>1, <3>2 DEF InOrder
    <2> QED
      BY <2>1, <2>2, <2>3
  <1> QED
    BY <1>4, <1>5 DEF InOrder, t

----------------------------------------------------------------------------
(* The line of frames from the scan task to the broker.                    *)

Sent == Frames(inflight)
Again == Frames(resend)
Asked == Frames(requests)
Held == Frames(<<publishing>>)
Queued == Frames(mqtt_q)
Received == {delivered[i] : i \in DOMAIN delivered}

\* Every queue is in order, and each is ahead of those that feed it.
Line ==
    /\ InOrder(inflight) /\ InOrder(resend) /\ InOrder(requests) /\ InOrder(mqtt_q)
    /\ Before(Sent, Again) /\ Before(Sent \cup Again, Asked)
    /\ Before(Sent \cup Again \cup Asked, Held)
    /\ Before(Sent \cup Again \cup Asked \cup Held, Queued)

LEMMA Queues ==
    ASSUME Types
    PROVE  /\ mqtt_q \in Seq(Messages) /\ requests \in Seq(Messages) /\ resend \in Seq(Messages)
           /\ inflight \in Seq(Messages) /\ publishing \in Messages \cup {Nothing}
           /\ Held = FrameOf(publishing) /\ FrameOf(Nothing) = {} /\ Frames(<<Nothing>>) = {}
           /\ Online \in Messages /\ Offline \in Messages /\ FrameOf(Online) = {} /\ FrameOf(Offline) = {}
  <1>1. /\ mqtt_q \in Seq(Messages) /\ requests \in Seq(Messages) /\ resend \in Seq(Messages)
        /\ inflight \in Seq(Messages) /\ publishing \in Messages \cup {Nothing}
    BY DEF Types, MqttTypes
  <1>2. FrameOf(Nothing) = {} /\ FrameOf(Online) = {} /\ FrameOf(Offline) = {}
    BY DEF FrameOf, Nothing, Online, Offline, Message
  <1>3. Held = FrameOf(publishing) /\ Frames(<<Nothing>>) = FrameOf(Nothing)
    BY FramesOne DEF Held
  <1>4. Online \in Messages /\ Offline \in Messages
    BY DEF Messages
  <1> QED
    BY <1>1, <1>2, <1>3, <1>4

LEMMA PublishedIs ==
    Types => Published = Queued \cup Held \cup Asked \cup Again \cup Sent \cup Received \cup alerted
  <1> SUFFICES ASSUME Types
               PROVE  Published = Queued \cup Held \cup Asked \cup Again \cup Sent \cup Received \cup alerted
    OBVIOUS
  <1> DEFINE q == requests \o resend
  <1>1. q \in Seq(Messages)
    BY Queues, ConcatProperties
  <1>2. Frames(q) = Asked \cup Again
    BY Queues, FramesConcat DEF Asked, Again
  <1> HIDE DEF q
  <1>3. Frames(q \o inflight) = Asked \cup Again \cup Sent
    BY Queues, <1>1, <1>2, FramesConcat DEF Sent
  <1> QED
    BY <1>3 DEF Published, Queued, Held, Received, q

\* How each step of the MQTT tasks moves the frames.
LEMMA PublishNextMoves ==
    ASSUME Types, publish_next
    PROVE  /\ Held = {} /\ Queued = Held' \cup Queued'
           /\ UNCHANGED <<Sent, Again, Asked, Received>>
           /\ InOrder(mqtt_q) => InOrder(mqtt_q)' /\ Before(Held, Queued)'
  <1>1. /\ publishing = Nothing /\ mqtt_q # <<>> /\ publishing' = Head(mqtt_q) /\ mqtt_q' = Tail(mqtt_q)
        /\ UNCHANGED <<requests, library, delivered>>
    BY DEF publish_next, broker
  <1>2. Held' = FrameOf(Head(mqtt_q))
    BY <1>1, FramesOne DEF Held
  <1>3. /\ Frames(mqtt_q) = FrameOf(Head(mqtt_q)) \cup Frames(Tail(mqtt_q))
        /\ InOrder(mqtt_q) => InOrder(Tail(mqtt_q)) /\ Before(FrameOf(Head(mqtt_q)), Frames(Tail(mqtt_q)))
    BY <1>1, Queues, FramesHead
  <1>4. Queued' = Frames(Tail(mqtt_q)) /\ InOrder(mqtt_q)' = InOrder(Tail(mqtt_q))
    BY <1>1 DEF Queued, InOrder, Frames
  <1>5. UNCHANGED <<Sent, Again, Asked, Received>>
    BY <1>1 DEF Sent, Again, Asked, Received, library, Frames
  <1>6. Before(Held, Queued)' = Before(FrameOf(Head(mqtt_q)), Frames(Tail(mqtt_q)))
    BY <1>2, <1>4 DEF Before
  <1> QED
    BY <1>1, <1>2, <1>3, <1>4, <1>5, <1>6, Queues DEF Queued

LEMMA ClientPublishMoves ==
    ASSUME Types, client_publish
    PROVE  /\ Asked' = Asked \cup Held /\ Held' = {}
           /\ UNCHANGED <<Sent, Again, Queued, Received>>
           /\ InOrder(requests) /\ Before(Asked, Held) => InOrder(requests)'
  <1>1. /\ publishing \in Messages /\ requests' = Append(requests, publishing) /\ publishing' = Nothing
        /\ UNCHANGED <<mqtt_q, library, delivered>>
    BY Queues DEF client_publish, broker
  <1>2. /\ Frames(Append(requests, publishing)) = Frames(requests) \cup FrameOf(publishing)
        /\ (InOrder(requests) /\ Before(Frames(requests), FrameOf(publishing)))
             => InOrder(Append(requests, publishing))
    BY <1>1, Queues, FramesAppend
  <1>3. Asked' = Frames(Append(requests, publishing)) /\ InOrder(requests)' = InOrder(Append(requests, publishing))
    BY <1>1 DEF Asked, InOrder, Frames
  <1>4. Held' = Frames(<<Nothing>>)
    BY <1>1 DEF Held, Frames
  <1>5. UNCHANGED <<Sent, Again, Queued, Received>>
    BY <1>1 DEF Sent, Again, Queued, Received, library, Frames
  <1> QED
    BY <1>2, <1>3, <1>4, <1>5, Queues DEF Asked

LEMMA PublishTimeoutMoves ==
    ASSUME Types, publish_timeout
    PROVE  Held' = {} /\ UNCHANGED <<Sent, Again, Asked, Queued, Received>>
  <1>1. publishing' = Nothing /\ UNCHANGED <<mqtt_q, requests, library, delivered>>
    BY DEF publish_timeout, broker
  <1>2. Held' = Frames(<<Nothing>>)
    BY <1>1 DEF Held, Frames
  <1> QED
    BY <1>1, <1>2, Queues DEF Sent, Again, Asked, Queued, Received, library, Frames

LEMMA AnnounceMoves ==
    ASSUME Types, announce
    PROVE  /\ UNCHANGED <<Sent, Again, Asked, Held, Queued, Received>>
           /\ InOrder(requests) => InOrder(requests)'
  <1>1. requests' = Append(requests, Online) /\ UNCHANGED <<mqtt_q, publishing, library, delivered>>
    BY DEF announce, broker
  <1>2. /\ Frames(Append(requests, Online)) = Frames(requests) \cup FrameOf(Online)
        /\ (InOrder(requests) /\ Before(Frames(requests), FrameOf(Online))) => InOrder(Append(requests, Online))
    BY Queues, FramesAppend
  <1>3. Before(Frames(requests), FrameOf(Online))
    BY Queues DEF Before
  <1>4. Asked' = Frames(Append(requests, Online)) /\ InOrder(requests)' = InOrder(Append(requests, Online))
    BY <1>1 DEF Asked, InOrder, Frames
  <1>5. UNCHANGED <<Sent, Again, Held, Queued, Received>>
    BY <1>1 DEF Sent, Again, Held, Queued, Received, library, Frames
  <1> QED
    BY <1>2, <1>3, <1>4, <1>5, Queues DEF Asked

LEMMA SendOfflineMoves ==
    ASSUME Types, send_offline
    PROVE  /\ UNCHANGED <<Sent, Again, Asked, Held, Queued, Received>>
           /\ InOrder(mqtt_q) => InOrder(mqtt_q)'
  <1>1. mqtt_q' = Append(mqtt_q, Offline) /\ UNCHANGED <<requests, publishing, library, delivered>>
    BY DEF send_offline, broker
  <1>2. /\ Frames(Append(mqtt_q, Offline)) = Frames(mqtt_q) \cup FrameOf(Offline)
        /\ (InOrder(mqtt_q) /\ Before(Frames(mqtt_q), FrameOf(Offline))) => InOrder(Append(mqtt_q, Offline))
    BY Queues, FramesAppend
  <1>3. Before(Frames(mqtt_q), FrameOf(Offline))
    BY Queues DEF Before
  <1>4. Queued' = Frames(Append(mqtt_q, Offline)) /\ InOrder(mqtt_q)' = InOrder(Append(mqtt_q, Offline))
    BY <1>1 DEF Queued, InOrder, Frames
  <1>5. UNCHANGED <<Sent, Again, Asked, Held, Received>>
    BY <1>1 DEF Sent, Again, Asked, Held, Received, library, Frames
  <1> QED
    BY <1>2, <1>3, <1>4, <1>5, Queues DEF Queued

LEMMA PublishMoves ==
    ASSUME Types, publish
    PROVE  /\ UNCHANGED <<Sent, Again, Asked, Held, Received>>
           /\ alerted' = alerted \/ alerted' = alerted \cup {rec.n}
           /\ \/ Queued' = Queued /\ mqtt_q' = mqtt_q
              \/ /\ Queued' = Queued \cup {rec.n}
                 /\ (InOrder(mqtt_q) /\ Before(Queued, {rec.n})) => InOrder(mqtt_q)'
  <1>1. UNCHANGED <<publishing, requests, library, delivered>>
    BY DEF publish, broker
  <1>2. UNCHANGED <<Sent, Again, Asked, Held, Received>>
    BY <1>1 DEF Sent, Again, Asked, Held, Received, library, Frames
  <1>3. alerted' = alerted \/ alerted' = alerted \cup {rec.n}
    BY DEF publish, ntfy_notify, ntfy
  <1>4. CASE mqtt_q' = mqtt_q
    BY <1>2, <1>3, <1>4 DEF Queued, Frames
  <1>5. CASE mqtt_q' = Append(mqtt_q, Message("frame", rec.n))
    <2> DEFINE m == Message("frame", rec.n)
    <2>1. m \in Messages /\ FrameOf(m) = {rec.n}
      BY DEF Messages, publish, Types, ScanTypes, Recording, FrameOf, Message
    <2>2. Queued' = Frames(Append(mqtt_q, m)) /\ InOrder(mqtt_q)' = InOrder(Append(mqtt_q, m))
      BY <1>5 DEF Queued, InOrder, Frames
    <2> HIDE DEF m
    <2>3. /\ Frames(Append(mqtt_q, m)) = Frames(mqtt_q) \cup FrameOf(m)
          /\ (InOrder(mqtt_q) /\ Before(Frames(mqtt_q), FrameOf(m))) => InOrder(Append(mqtt_q, m))
      BY <2>1, Queues, FramesAppend
    <2> QED
      BY <1>2, <1>3, <2>1, <2>2, <2>3 DEF Queued
  <1> QED
    BY <1>4, <1>5 DEF publish

\* poll() takes the oldest frame it has, or a health message, and sends it.
LEMMA PollRequestMoves ==
    ASSUME Types, poll_request
    PROVE  \E m \in Messages :
             /\ Sent' = Sent \cup FrameOf(m) /\ UNCHANGED <<Held, Queued>>
             /\ inflight' = Append(inflight, m)
             /\ delivered' = IF conn = "up" /\ m.what = "frame" THEN Append(delivered, m.n) ELSE delivered
             /\ \/ /\ resend = <<>> /\ resend' = <<>> /\ Again = {} /\ Again' = {}
                   /\ Asked = FrameOf(m) \cup Asked'
                   /\ InOrder(requests) => InOrder(requests)' /\ Before(FrameOf(m), Asked')
                \/ /\ resend # <<>> /\ requests' = requests /\ Asked' = Asked
                   /\ Again = FrameOf(m) \cup Again'
                   /\ InOrder(resend) => InOrder(resend)' /\ Before(FrameOf(m), Again')
             /\ (InOrder(inflight) /\ Before(Sent, FrameOf(m))) => InOrder(inflight)'
  <1> DEFINE m == Head(resend \o requests)
  <1>1. /\ resend \o requests # <<>>
        /\ resend' = IF resend = <<>> THEN resend ELSE Tail(resend)
        /\ requests' = IF resend = <<>> THEN Tail(requests) ELSE requests
        /\ inflight' = Append(inflight, m)
        /\ delivered' = IF conn = "up" /\ m.what = "frame" THEN Append(delivered, m.n) ELSE delivered
        /\ UNCHANGED <<mqtt_q, publishing>>
    BY DEF poll_request
  <1>2. m = IF resend = <<>> THEN Head(requests) ELSE Head(resend)
    <2>1. CASE resend = <<>>
      <3>1. resend \o requests = requests
        BY <2>1, Queues, ConcatEmptySeq
      <3> QED
        BY <2>1, <3>1
    <2>2. CASE resend # <<>>
      <3>1. Len(resend) \in Nat \ {0} /\ Head(resend) = resend[1]
        BY <2>2, Queues, HeadTail
      <3>2. resend \o requests \in Seq(Messages) /\ (resend \o requests)[1] = resend[1]
        BY <3>1, Queues, ConcatProperties
      <3>3. m = (resend \o requests)[1]
        BY <1>1, <3>2, HeadTail
      <3> QED
        BY <2>2, <3>1, <3>2, <3>3
    <2> QED
      BY <2>1, <2>2
  <1> HIDE DEF m
  <1>3. UNCHANGED <<Held, Queued>>
    BY <1>1 DEF Held, Queued, Frames
  <1>4. ASSUME m \in Messages
        PROVE  /\ Sent' = Sent \cup FrameOf(m)
               /\ (InOrder(inflight) /\ Before(Sent, FrameOf(m))) => InOrder(inflight)'
    <2>1. /\ Frames(Append(inflight, m)) = Frames(inflight) \cup FrameOf(m)
          /\ (InOrder(inflight) /\ Before(Frames(inflight), FrameOf(m))) => InOrder(Append(inflight, m))
      BY <1>4, Queues, FramesAppend
    <2>2. Sent' = Frames(Append(inflight, m)) /\ InOrder(inflight)' = InOrder(Append(inflight, m))
      BY <1>1 DEF Sent, InOrder, Frames
    <2> QED
      BY <2>1, <2>2 DEF Sent
  <1>5. CASE resend = <<>>
    <2>1. requests # <<>>
      BY <1>1, <1>5, Queues, ConcatEmptySeq
    <2>2. /\ Head(requests) \in Messages
          /\ Frames(requests) = FrameOf(Head(requests)) \cup Frames(Tail(requests))
          /\ InOrder(requests) => InOrder(Tail(requests)) /\ Before(FrameOf(Head(requests)), Frames(Tail(requests)))
      BY <2>1, Queues, FramesHead
    <2>3. m = Head(requests) /\ m \in Messages
      BY <1>2, <1>5, <2>2
    <2>4. Asked' = Frames(Tail(requests)) /\ InOrder(requests)' = InOrder(Tail(requests))
      BY <1>1, <1>5 DEF Asked, InOrder, Frames
    <2>5. resend' = <<>> /\ Again = {} /\ Again' = {}
      BY <1>1, <1>5, FramesEmpty DEF Again, Frames
    <2> QED
      BY <1>1, <1>3, <1>4, <1>5, <2>2, <2>3, <2>4, <2>5 DEF Asked
  <1>6. CASE resend # <<>>
    <2>2. /\ Head(resend) \in Messages
          /\ Frames(resend) = FrameOf(Head(resend)) \cup Frames(Tail(resend))
          /\ InOrder(resend) => InOrder(Tail(resend)) /\ Before(FrameOf(Head(resend)), Frames(Tail(resend)))
      BY <1>6, Queues, FramesHead
    <2>3. m = Head(resend) /\ m \in Messages
      BY <1>2, <1>6, <2>2
    <2>4. Again' = Frames(Tail(resend)) /\ InOrder(resend)' = InOrder(Tail(resend))
      BY <1>1, <1>6 DEF Again, InOrder, Frames
    <2>5. requests' = requests /\ Asked' = Asked
      BY <1>1, <1>6 DEF Asked, Frames
    <2> QED
      BY <1>1, <1>3, <1>4, <1>6, <2>2, <2>3, <2>4, <2>5 DEF Again
  <1> QED
    BY <1>5, <1>6

LEMMA PollAckMoves ==
    ASSUME Types, poll_ack
    PROVE  \E m \in Messages :
             /\ Sent = FrameOf(m) \cup Sent' /\ UNCHANGED <<Again, Asked, Held, Queued, Received>>
             /\ InOrder(inflight) => InOrder(inflight)' /\ Before(FrameOf(m), Sent')
  <1>1. /\ inflight # <<>> /\ inflight' = Tail(inflight)
        /\ UNCHANGED <<mqtt_q, publishing, requests, resend, delivered>>
    BY DEF poll_ack, broker
  <1>2. /\ Head(inflight) \in Messages
        /\ Frames(inflight) = FrameOf(Head(inflight)) \cup Frames(Tail(inflight))
        /\ InOrder(inflight) => InOrder(Tail(inflight)) /\ Before(FrameOf(Head(inflight)), Frames(Tail(inflight)))
    BY <1>1, Queues, FramesHead
  <1>3. Sent' = Frames(Tail(inflight)) /\ InOrder(inflight)' = InOrder(Tail(inflight))
    BY <1>1 DEF Sent, InOrder, Frames
  <1>4. UNCHANGED <<Again, Asked, Held, Queued, Received>>
    BY <1>1 DEF Again, Asked, Held, Queued, Received, Frames
  <1> QED
    BY <1>2, <1>3, <1>4 DEF Sent

LEMMA PollErrorMoves ==
    ASSUME Types, poll_error
    PROVE  /\ Sent' = {} /\ InOrder(inflight)' /\ UNCHANGED <<Held, Queued, Received>>
           /\ \/ Asked' = Asked /\ requests' = requests
              \/ Asked' = {} /\ InOrder(requests)'
           /\ \/ Again' = {} /\ InOrder(resend)'
              \/ /\ Again' \cup Asked' = Sent \cup Again \cup Asked
                 /\ Again' = Sent \cup Again \/ (Again' = Sent \cup Again \cup Asked /\ Asked' = {})
                 /\ Line => InOrder(resend)'
  <1> PICK kept, drained \in BOOLEAN :
         /\ requests' = IF drained THEN <<>> ELSE requests
         /\ resend' = IF kept THEN inflight \o resend \o (IF drained THEN requests ELSE <<>>)
                              ELSE <<>>
    BY DEF poll_error
  <1>1. inflight' = <<>> /\ UNCHANGED <<mqtt_q, publishing, delivered>>
    BY DEF poll_error
  <1>2. Sent' = {} /\ InOrder(inflight)' /\ UNCHANGED <<Held, Queued, Received>>
    BY <1>1, FramesEmpty DEF Sent, Held, Queued, Received, Frames, InOrder
  <1>3. \/ ~drained /\ Asked' = Asked /\ requests' = requests
        \/ drained /\ Asked' = {} /\ InOrder(requests)'
    BY FramesEmpty DEF Asked, Frames, InOrder
  <1>4. CASE ~kept
    BY <1>2, <1>3, <1>4, FramesEmpty DEF Again, Frames, InOrder
  <1>5. CASE kept
    <2> DEFINE s == inflight \o resend
               q == IF drained THEN requests ELSE <<>>
               t == s \o q
    <2>1. s \in Seq(Messages) /\ q \in Seq(Messages)
      BY Queues, ConcatProperties, EmptySeq
    <2>2. /\ Frames(s) = Sent \cup Again
          /\ (InOrder(inflight) /\ InOrder(resend) /\ Before(Sent, Again)) => InOrder(s)
      BY Queues, FramesConcat DEF Sent, Again
    <2>3. \/ q = requests /\ Asked' = {}
          \/ q = <<>> /\ Asked' = Asked /\ requests' = requests
      BY <1>3
    <2>4. resend' = t
      BY <1>5
    <2>5. /\ Frames(t) = Frames(s) \cup Frames(q)
          /\ (InOrder(s) /\ InOrder(q) /\ Before(Frames(s), Frames(q))) => InOrder(t)
      <3> HIDE DEF s, q
      <3> QED
        BY <2>1, FramesConcat
    <2> HIDE DEF s, q, t
    <2>6. Again' = Frames(t) /\ InOrder(resend)' = InOrder(t)
      BY <2>4 DEF Again, Frames, InOrder
    <2>7. CASE q = requests /\ Asked' = {}
      <3>1. Frames(q) = Asked /\ (Line => InOrder(q))
        BY <2>7 DEF Asked, Line
      <3>2. Again' = Sent \cup Again \cup Asked
        BY <2>2, <2>5, <2>6, <3>1
      <3>3. Line => InOrder(s) /\ Before(Frames(s), Frames(q))
        BY <2>2, <3>1 DEF Line, Before
      <3>4. Line => InOrder(resend)'
        BY <2>5, <2>6, <3>1, <3>3
      <3> QED
        BY <1>2, <1>3, <2>7, <3>2, <3>4
    <2>8. CASE q = <<>> /\ Asked' = Asked /\ requests' = requests
      <3>1. Frames(q) = {} /\ InOrder(q)
        BY <2>8, FramesEmpty
      <3>2. Again' = Sent \cup Again
        BY <2>2, <2>5, <2>6, <3>1
      <3>3. Line => InOrder(s) /\ Before(Frames(s), Frames(q))
        BY <2>2, <3>1 DEF Line, Before
      <3>4. Line => InOrder(resend)'
        BY <2>5, <2>6, <3>1, <3>3
      <3> QED
        BY <1>2, <2>8, <3>2, <3>4
    <2> QED
      BY <2>3, <2>7, <2>8
  <1> QED
    BY <1>4, <1>5

LEMMA EndMoves ==
    ASSUME Types, end_process
    PROVE  /\ Sent' = {} /\ Again' = {} /\ Asked' = {} /\ Held' = {} /\ Queued' = {} /\ Received' = Received
           /\ InOrder(inflight)' /\ InOrder(resend)' /\ InOrder(requests)' /\ InOrder(mqtt_q)'
  <1>1. /\ mqtt_q' = <<>> /\ publishing' = Nothing /\ requests' = <<>> /\ resend' = <<>>
        /\ inflight' = <<>> /\ delivered' = delivered
    BY DEF end_process
  <1>2. Held' = Frames(<<Nothing>>) /\ Received' = Received
    BY <1>1 DEF Held, Received, Frames
  <1> QED
    BY <1>1, <1>2, Queues, FramesEmpty DEF Sent, Again, Asked, Queued, Frames, InOrder

\* Steps that leave the queues alone leave the line alone.
LEMMA SameMoves ==
    ASSUME UNCHANGED <<mqtt_q, publishing, requests, resend, inflight>>
    PROVE  UNCHANGED <<Sent, Again, Asked, Held, Queued>> /\ (Line => Line')
  <1>1. UNCHANGED <<Sent, Again, Asked, Held, Queued>>
    BY DEF Sent, Again, Asked, Held, Queued, Frames
  <1>2. /\ InOrder(inflight)' = InOrder(inflight) /\ InOrder(resend)' = InOrder(resend)
        /\ InOrder(requests)' = InOrder(requests) /\ InOrder(mqtt_q)' = InOrder(mqtt_q)
    BY DEF InOrder
  <1>3. Line => Line'
    BY <1>1, <1>2 DEF Line, Before
  <1> QED
    BY <1>1, <1>3

\* The steps of the gateway that move no frame.
Idle ==
    \/ reader_thread \/ reader_ends \/ receive \/ scan_exits \/ insert \/ push \/ debounce
    \/ connect \/ outage \/ broker_drops \/ stop \/ start \/ UNCHANGED gatewayvars

LEMMA IdleMoves ==
    ASSUME Idle
    PROVE  UNCHANGED <<mqtt_q, publishing, requests, resend, inflight, delivered, alerted>>
  <1>1. CASE reader_thread \/ reader_ends \/ receive \/ scan_exits
    BY <1>1 DEF reader_thread, reader_ends, receive, scan_exits, mqtt, library, broker, ntfy
  <1>2. CASE insert \/ push \/ debounce
    BY <1>2 DEF insert, push, debounce, mqtt, library, broker, ntfy
  <1>3. CASE connect \/ outage \/ broker_drops \/ stop \/ start
    BY <1>3 DEF connect, outage, broker_drops, stop, start, mqtt, library, broker, ntfy
  <1>4. CASE UNCHANGED gatewayvars
    BY <1>4 DEF gatewayvars, mqtt, library, broker, ntfy
  <1> QED
    BY <1>1, <1>2, <1>3, <1>4 DEF Idle

LEMMA Cases ==
    ASSUME [GatewayNext]_gatewayvars
    PROVE  \/ Idle \/ publish \/ publish_next \/ client_publish \/ publish_timeout \/ announce
           \/ poll_request \/ poll_ack \/ poll_error \/ send_offline \/ end_process
  BY DEF GatewayNext, hci_scan_task, publish_loop, event_loop, connected_loop, exit, crash, Idle

\* Only the scan task's publishing brings a frame on its way.
LEMMA PublishedStep ==
    ASSUME Types, [GatewayNext]_gatewayvars
    PROVE  Published' \subseteq Published \/ (publish /\ Published' \subseteq Published \cup {rec.n})
  <1> DEFINE U == Queued \cup Held \cup Asked \cup Again \cup Sent \cup Received \cup alerted
  <1>1. Types'
    BY TypesNext
  <1>2. Published = U
    BY PublishedIs
  <1>3. Published' = U'
    <2>1. (Published = U)'
      BY <1>1, PublishedIs, PTL
    <2> QED
      BY <2>1
  <1>4. CASE Idle
    BY <1>2, <1>3, <1>4, IdleMoves, SameMoves DEF Received
  <1>5. CASE publish
    BY <1>2, <1>3, <1>5, PublishMoves
  <1>6. CASE publish_next
    <2>1. UNCHANGED alerted
      BY <1>6 DEF publish_next, ntfy
    <2> QED
      BY <1>2, <1>3, <1>6, <2>1, PublishNextMoves
  <1>7. CASE client_publish
    <2>1. UNCHANGED alerted
      BY <1>7 DEF client_publish, ntfy
    <2> QED
      BY <1>2, <1>3, <1>7, <2>1, ClientPublishMoves
  <1>8. CASE publish_timeout
    <2>1. UNCHANGED alerted
      BY <1>8 DEF publish_timeout, ntfy
    <2> QED
      BY <1>2, <1>3, <1>8, <2>1, PublishTimeoutMoves
  <1>9. CASE announce
    <2>1. UNCHANGED alerted
      BY <1>9 DEF announce, ntfy
    <2> QED
      BY <1>2, <1>3, <1>9, <2>1, AnnounceMoves
  <1>10. CASE poll_request
    <2>1. UNCHANGED alerted
      BY <1>10 DEF poll_request, ntfy
    <2>2. PICK m \in Messages :
             /\ Sent' = Sent \cup FrameOf(m) /\ UNCHANGED <<Held, Queued>>
             /\ delivered' = IF conn = "up" /\ m.what = "frame" THEN Append(delivered, m.n) ELSE delivered
             /\ \/ Again' = Again /\ Asked = FrameOf(m) \cup Asked'
                \/ Asked' = Asked /\ Again = FrameOf(m) \cup Again'
      BY <1>10, PollRequestMoves
    <2>3. Received' \subseteq Received \cup FrameOf(m)
      <3>1. CASE delivered' = delivered
        BY <3>1 DEF Received
      <3>2. CASE m.what = "frame" /\ delivered' = Append(delivered, m.n)
        <4>1. delivered \in Seq(Receptions) /\ m.n \in Receptions
          BY <3>2, MessageFacts DEF Types, BrokerTypes
        <4>2. \A i \in DOMAIN delivered' : (i \in DOMAIN delivered /\ delivered'[i] = delivered[i]) \/ delivered'[i] = m.n
          BY <3>2, <4>1
        <4> QED
          BY <3>2, <4>2 DEF Received, FrameOf
      <3> QED
        BY <2>2, <3>1, <3>2
    <2> QED
      BY <1>2, <1>3, <2>1, <2>2, <2>3
  <1>11. CASE poll_ack
    <2>1. UNCHANGED alerted
      BY <1>11 DEF poll_ack, ntfy
    <2> QED
      BY <1>2, <1>3, <1>11, <2>1, PollAckMoves
  <1>12. CASE poll_error
    <2>1. UNCHANGED alerted
      BY <1>12 DEF poll_error, ntfy
    <2> QED
      BY <1>2, <1>3, <1>12, <2>1, PollErrorMoves
  <1>13. CASE send_offline
    <2>1. UNCHANGED alerted
      BY <1>13 DEF send_offline, ntfy
    <2> QED
      BY <1>2, <1>3, <1>13, <2>1, SendOfflineMoves
  <1>14. CASE end_process
    <2>1. UNCHANGED alerted
      BY <1>14 DEF end_process
    <2> QED
      BY <1>2, <1>3, <1>14, <2>1, EndMoves
  <1> QED
    BY <1>4, <1>5, <1>6, <1>7, <1>8, <1>9, <1>10, <1>11, <1>12, <1>13, <1>14, Cases

----------------------------------------------------------------------------
(* The audit trail, and what is ahead of it.                               *)

Busy == scan_pc \in {"insert", "publish", "push"}
Taken == {r.n : r \in rows} \cup unrecorded
Passes(n) == n \in unrecorded \/ \E r \in rows : r.n = n /\ r.verified

\* The rows are numbered as the receptions came, with one row for a reception, and nothing
\* was published that is not a verified row or whose insert failed.
Trail ==
    /\ \A r, s \in rows : r.id < s.id => r.n < s.n
    /\ \A r, s \in rows : r.n = s.n => r = s
    /\ \A r \in rows : r.id <= sqlite_sequence
    /\ \A n \in Published : Passes(n)

\* What the scan task has in hand is newer than whatever it took before, and what waits for
\* it is newer still.
Fresh ==
    /\ \A i, j \in DOMAIN pkts : i < j => pkts[i].n < pkts[j].n
    /\ \A i \in DOMAIN pkts : pkts[i].n <= read /\ (Busy => rec.n < pkts[i].n)
    /\ \A i \in DOMAIN pkts : \A n \in Taken : n < pkts[i].n
    /\ \A n \in Taken : n <= read
    /\ Busy => rec.n <= read
    /\ scan_pc = "insert" => \A n \in Taken : n < rec.n
    /\ scan_pc \in {"publish", "push"} => rec.n \in Taken /\ \A n \in Taken : n <= rec.n
    /\ scan_pc = "publish" => Passes(rec.n) /\ \A n \in Published : n < rec.n

LEMMA TrailFreshInit == GatewayInit => Trail /\ Fresh
  <1> SUFFICES ASSUME GatewayInit PROVE Trail /\ Fresh
    OBVIOUS
  <1>1. Types
    BY TypesInit
  <1>2. /\ pkts = <<>> /\ scan_pc = "exited" /\ rows = {} /\ unrecorded = {}
        /\ mqtt_q = <<>> /\ publishing = Nothing /\ requests = <<>> /\ resend = <<>> /\ inflight = <<>>
        /\ delivered = <<>> /\ alerted = {}
    BY DEF GatewayInit, StoreInit
  <1>3. Published = {}
    <2>1. Queued = {} /\ Held = {} /\ Asked = {} /\ Again = {} /\ Sent = {} /\ Received = {}
      BY <1>1, <1>2, FramesEmpty, Queues DEF Queued, Held, Asked, Again, Sent, Received
    <2> QED
      BY <1>1, <1>2, <2>1, PublishedIs
  <1>4. DOMAIN pkts = {} /\ Taken = {} /\ ~Busy
    BY <1>2 DEF Taken, Busy
  <1> QED
    BY <1>2, <1>3, <1>4 DEF Trail, Fresh

LEMMA TakenNumbers ==
    ASSUME Types
    PROVE  /\ Taken \subseteq Receptions /\ Receptions \subseteq Int /\ read \in Int
           /\ Busy => rec.n \in Receptions
           /\ pkts \in Seq([n : Receptions, reports : Packets])
           /\ \A i \in DOMAIN pkts : pkts[i].n \in Receptions
           /\ \A r \in rows : r.id \in Nat /\ r.n \in Receptions
           /\ sqlite_sequence \in Nat
  <1>1. Receptions \subseteq Int /\ read \in Int /\ (Busy => rec.n \in Receptions)
    BY Constants DEF Types, ScanTypes, Receptions, Busy, Recording
  <1>2. pkts \in Seq([n : Receptions, reports : Packets])
    BY DEF Types, ScanTypes
  <1>3. \A i \in DOMAIN pkts : pkts[i].n \in Receptions
    <2> DEFINE S == [n : Receptions, reports : Packets]
    <2>1. pkts \in Seq(S)
      BY <1>2
    <2>2. \A p \in S : p.n \in Receptions
      OBVIOUS
    <2> HIDE DEF S
    <2>3. \A i \in DOMAIN pkts : pkts[i] \in S
      BY <2>1, ElementOfSeq
    <2> QED
      BY <2>2, <2>3
  <1>4. Taken \subseteq Receptions /\ sqlite_sequence \in Nat
        /\ \A r \in rows : r.id \in Nat /\ r.n \in Receptions
    BY DEF Types, TableTypes, Taken
  <1> QED
    BY <1>1, <1>2, <1>3, <1>4

\* A step that leaves the scan task and the table alone, and publishes nothing.
LEMMA SameTrail ==
    ASSUME Types, Trail, Fresh, UNCHANGED <<scan_pc, pkts, read, rec, rows, sqlite_sequence, unrecorded>>,
           Published' \subseteq Published
    PROVE  Trail' /\ Fresh'
  <1>1. UNCHANGED Taken /\ UNCHANGED Busy /\ \A n : Passes(n)' <=> Passes(n)
    BY DEF Taken, Busy, Passes
  <1>2. Trail'
    BY <1>1 DEF Trail
  <1>3. Passes(rec.n)' <=> Passes(rec.n)
    BY DEF Passes
  <1>4. Fresh'
    BY <1>1, <1>3 DEF Fresh
  <1> QED
    BY <1>2, <1>4

LEMMA ScanTrail ==
    ASSUME Types, Trail, Fresh, reader_thread \/ hci_scan_task,
           Published' \subseteq Published \/ (publish /\ Published' \subseteq Published \cup {rec.n})
    PROVE  Trail' /\ Fresh'
  <1> USE TakenNumbers
  <1>0. ASSUME UNCHANGED <<rows, sqlite_sequence, unrecorded>>
        PROVE  /\ UNCHANGED Taken /\ (\A n : Passes(n)' <=> Passes(n))
               /\ (Published' \subseteq Published => Trail')
    <2>1. UNCHANGED Taken /\ \A n : Passes(n)' <=> Passes(n)
      BY <1>0 DEF Taken, Passes
    <2> QED
      BY <1>0, <2>1 DEF Trail
  <1>1. CASE reader_thread
    <2>1. PICK p \in Packets : pkts' = Append(pkts, [n |-> read + 1, reports |-> p])
      BY <1>1 DEF reader_thread
    <2>2. /\ read' = read + 1 /\ UNCHANGED <<scan_pc, rec, rows, sqlite_sequence, unrecorded>>
          /\ Published' \subseteq Published /\ UNCHANGED Busy
      BY <1>1 DEF reader_thread, publish, store, Busy
    <2>3. /\ Len(pkts) \in Nat /\ DOMAIN pkts = 1 .. Len(pkts) /\ DOMAIN pkts' = 1 .. Len(pkts) + 1
          /\ \A i \in 1 .. Len(pkts) : pkts'[i] = pkts[i]
          /\ pkts'[Len(pkts) + 1].n = read + 1
      BY <2>1
    <2>4. \A i \in DOMAIN pkts' : \/ i \in DOMAIN pkts /\ pkts'[i].n = pkts[i].n
                                  \/ i = Len(pkts) + 1 /\ pkts'[i].n = read + 1
      BY <2>3
    <2>5. \A i, j \in DOMAIN pkts' : i < j => pkts'[i].n < pkts'[j].n
      <3> SUFFICES ASSUME NEW i \in DOMAIN pkts', NEW j \in DOMAIN pkts', i < j
                   PROVE  pkts'[i].n < pkts'[j].n
        OBVIOUS
      <3>1. i \in DOMAIN pkts /\ pkts'[i].n = pkts[i].n
        BY <2>3
      <3> QED
        BY <2>4, <3>1 DEF Fresh
    <2>6. UNCHANGED Taken /\ Trail'
      BY <1>0, <2>2
    <2>7. \A i \in DOMAIN pkts' : /\ pkts'[i].n <= read' /\ (Busy => rec.n < pkts'[i].n)
                                  /\ \A n \in Taken : n < pkts'[i].n
      BY <2>2, <2>4 DEF Fresh
    <2>8. Passes(rec.n)' <=> Passes(rec.n)
      BY <2>2 DEF Passes
    <2>9. (\A n \in Taken : n <= read') /\ (Busy => rec.n <= read')
      BY <2>2 DEF Fresh
    <2> QED
      BY <2>2, <2>5, <2>6, <2>7, <2>8, <2>9 DEF Fresh
  <1>2. CASE receive
    <2>1. /\ pkts # <<>> /\ scan_pc = "recv" /\ pkts' = Tail(pkts)
          /\ UNCHANGED <<read, rows, sqlite_sequence, unrecorded>> /\ Published' \subseteq Published
          /\ \/ scan_pc' = "recv"
             \/ scan_pc' = "insert" /\ rec'.n = Head(pkts).n
      BY <1>2 DEF receive, publish, store
    <2>2. /\ Len(pkts) \in Nat \ {0} /\ Head(pkts) = pkts[1] /\ Len(pkts') = Len(pkts) - 1
          /\ \A i \in 1 .. Len(pkts) - 1 : pkts'[i] = pkts[i + 1]
          /\ DOMAIN pkts = 1 .. Len(pkts) /\ DOMAIN pkts' = 1 .. Len(pkts) - 1
      <3> DEFINE S == [n : Receptions, reports : Packets]
      <3>1. pkts \in Seq(S)
        OBVIOUS
      <3> HIDE DEF S
      <3>2. /\ Head(pkts) = pkts[1] /\ Len(Tail(pkts)) = Len(pkts) - 1 /\ Len(pkts) \in Nat \ {0}
            /\ \A i \in 1 .. Len(pkts) - 1 : Tail(pkts)[i] = pkts[i + 1] /\ Tail(pkts) \in Seq(S)
        BY <2>1, <3>1, HeadTail
      <3>3. Tail(pkts) \in Seq(S)
        BY <2>1, <3>1, HeadTail
      <3>4. DOMAIN Tail(pkts) = 1 .. Len(Tail(pkts)) /\ DOMAIN pkts = 1 .. Len(pkts)
        BY <3>1, <3>3
      <3> QED
        BY <2>1, <3>2, <3>4
    <2>3. \A i \in DOMAIN pkts' : i + 1 \in DOMAIN pkts /\ 1 < i + 1 /\ pkts'[i] = pkts[i + 1]
      BY <2>2, SMTT(30)
    <2>4. 1 \in DOMAIN pkts
      BY <2>2
    <2>5. UNCHANGED Taken /\ Trail'
      BY <1>0, <2>1
    <2>6. \A i, j \in DOMAIN pkts' : i < j => pkts'[i].n < pkts'[j].n
      <3> SUFFICES ASSUME NEW i \in DOMAIN pkts', NEW j \in DOMAIN pkts', i < j
                   PROVE  pkts'[i].n < pkts'[j].n
        OBVIOUS
      <3>1. i + 1 \in DOMAIN pkts /\ j + 1 \in DOMAIN pkts /\ i + 1 < j + 1
        BY <2>2, <2>3
      <3> QED
        BY <2>3, <3>1 DEF Fresh
    <2>7. \A i \in DOMAIN pkts' : /\ pkts'[i].n <= read /\ Head(pkts).n < pkts'[i].n
                                  /\ \A n \in Taken : n < pkts'[i].n
      BY <2>2, <2>3, <2>4 DEF Fresh
    <2>8. Head(pkts).n <= read /\ \A n \in Taken : n < Head(pkts).n
      BY <2>2, <2>4 DEF Fresh
    <2> QED
      BY <2>1, <2>5, <2>6, <2>7, <2>8 DEF Fresh, Busy
  <1>3. CASE scan_exits
    <2>1. /\ scan_pc' = "exited" /\ UNCHANGED <<pkts, read, rec, rows, sqlite_sequence, unrecorded>>
          /\ Published' \subseteq Published
      BY <1>3 DEF scan_exits, publish, store
    <2> QED
      BY <1>0, <2>1 DEF Fresh, Busy
  <1>4. CASE insert
    <2>1. /\ scan_pc = "insert" /\ UNCHANGED <<pkts, read>> /\ Published' \subseteq Published
          /\ scan_pc' = IF rec.verified THEN "publish" ELSE "push"
          /\ Busy /\ rec.n \in Receptions
      BY <1>4 DEF insert, publish, Busy
    <2>2. \A n \in Published : n \in Taken
      BY DEF Trail, Passes, Taken
    <2>3. CASE db_insert(rec.n, rec.verified) /\ rec' = [rec EXCEPT !.id = insert_id] /\ UNCHANGED unrecorded
      <3> DEFINE new == [id |-> sqlite_sequence + 1, n |-> rec.n, verified |-> rec.verified, acked |-> FALSE]
      <3>1. rows' = rows \cup {new} /\ sqlite_sequence' = sqlite_sequence + 1
        BY <2>3 DEF db_insert, insert_id
      <3>2. rec'.n = rec.n
        BY <2>1, <2>3 DEF Types, ScanTypes, Records
      <3>3. new.id = sqlite_sequence + 1 /\ new.n = rec.n /\ new.verified = rec.verified
        OBVIOUS
      <3> HIDE DEF new
      <3>4. Taken' = Taken \cup {rec.n}
        BY <2>3, <3>1, <3>3 DEF Taken
      <3>5. \A n \in Published' : Passes(n)'
        BY <2>1, <2>3, <3>1 DEF Trail, Passes
      <3>6. \A r \in rows : r.n < new.n /\ r.id < new.id
        BY <2>1, <3>3 DEF Fresh, Taken, Trail
      <3>7. Trail'
        <4>1. \A r, s \in rows' : r.id < s.id => r.n < s.n
          BY <2>1, <3>1, <3>3, <3>6 DEF Trail
        <4>2. \A r, s \in rows' : r.n = s.n => r = s
          BY <2>1, <3>1, <3>3, <3>6 DEF Trail
        <4>3. \A r \in rows' : r.id <= sqlite_sequence'
          BY <3>1, <3>3 DEF Trail
        <4> QED
          BY <3>5, <4>1, <4>2, <4>3 DEF Trail
      <3>8. scan_pc' = "publish" => Passes(rec.n)'
        BY <2>1, <3>1, <3>2, <3>3 DEF Passes
      <3>9. \A n \in Published' : n < rec.n
        BY <2>1, <2>2 DEF Fresh
      <3>10. /\ \A i \in DOMAIN pkts : pkts[i].n <= read /\ rec.n < pkts[i].n
             /\ \A i \in DOMAIN pkts : \A n \in Taken' : n < pkts[i].n
             /\ \A n \in Taken' : n <= read /\ n <= rec.n
             /\ rec.n <= read /\ rec.n \in Taken'
        BY <2>1, <3>4 DEF Fresh
      <3> QED
        BY <2>1, <3>2, <3>7, <3>8, <3>9, <3>10 DEF Fresh
    <2>4. CASE unrecorded' = unrecorded \cup {rec.n} /\ UNCHANGED <<store, rec>>
      <3>1. UNCHANGED <<rows, sqlite_sequence, rec>>
        BY <2>4 DEF store
      <3>2. Taken' = Taken \cup {rec.n} /\ Passes(rec.n)' /\ \A n : Passes(n) => Passes(n)'
        BY <2>4, <3>1 DEF Taken, Passes
      <3>3. Trail'
        BY <2>1, <3>1, <3>2 DEF Trail
      <3>4. \A n \in Published' : n < rec.n
        BY <2>1, <2>2 DEF Fresh
      <3>5. /\ \A i \in DOMAIN pkts : pkts[i].n <= read /\ rec.n < pkts[i].n
            /\ \A i \in DOMAIN pkts : \A n \in Taken' : n < pkts[i].n
            /\ \A n \in Taken' : n <= read /\ n <= rec.n
            /\ rec.n <= read /\ rec.n \in Taken'
        BY <2>1, <3>2 DEF Fresh
      <3> QED
        BY <2>1, <3>1, <3>2, <3>3, <3>4, <3>5 DEF Fresh
    <2> QED
      BY <1>4, <2>3, <2>4 DEF insert
  <1>5. CASE publish
    <2>1. /\ scan_pc = "publish" /\ scan_pc' = "push"
          /\ UNCHANGED <<pkts, rec, read, rows, sqlite_sequence, unrecorded>>
          /\ Published' \subseteq Published \cup {rec.n}
      BY <1>5 DEF publish, store
    <2>2. UNCHANGED Taken /\ (\A n : Passes(n)' <=> Passes(n)) /\ Passes(rec.n)
      BY <1>0, <2>1 DEF Fresh
    <2>3. Trail'
      BY <2>1, <2>2 DEF Trail
    <2> QED
      BY <2>1, <2>2, <2>3 DEF Fresh, Busy
  <1>6. CASE push
    <2>1. /\ scan_pc = "push" /\ scan_pc' = "recv"
          /\ UNCHANGED <<pkts, rec, read, rows, sqlite_sequence, unrecorded>>
          /\ Published' \subseteq Published
      BY <1>6 DEF push, publish, store
    <2> QED
      BY <1>0, <2>1 DEF Fresh, Busy
  <1> QED
    BY <1>1, <1>2, <1>3, <1>4, <1>5, <1>6 DEF hci_scan_task

LEMMA TrailFreshNext == Types /\ Trail /\ Fresh /\ [GatewayNext]_gatewayvars => Trail' /\ Fresh'
  <1> SUFFICES ASSUME Types, Trail, Fresh, [GatewayNext]_gatewayvars PROVE Trail' /\ Fresh'
    OBVIOUS
  <1>1. CASE reader_thread \/ hci_scan_task
    BY <1>1, PublishedStep, ScanTrail
  <1>2. CASE publish_loop \/ event_loop \/ outage \/ broker_drops \/ stop \/ send_offline
               \/ reader_ends \/ debounce \/ UNCHANGED gatewayvars
    <2>1. UNCHANGED <<scan_pc, pkts, read, rec, rows, sqlite_sequence, unrecorded>>
      <3>1. CASE publish_loop \/ event_loop
        BY <3>1 DEF publish_loop, publish_next, client_publish, publish_timeout, event_loop, connect,
                    connected_loop, announce, poll_request, poll_ack, poll_error, scan, store
      <3>2. CASE outage \/ broker_drops \/ stop \/ send_offline \/ reader_ends \/ debounce
        BY <3>2 DEF outage, broker_drops, stop, send_offline, reader_ends, debounce, scan, store
      <3>3. CASE UNCHANGED gatewayvars
        BY <3>3 DEF gatewayvars, scan, store
      <3> QED
        BY <1>2, <3>1, <3>2, <3>3
    <2>2. Published' \subseteq Published
      <3>1. ~publish \/ scan_pc' # scan_pc
        BY DEF publish
      <3> QED
        BY <2>1, <3>1, PublishedStep
    <2> QED
      BY <2>1, <2>2, SameTrail
  <1>3. CASE exit \/ crash \/ start
    <2>1. /\ scan_pc' \in {"exited", "recv"} /\ (pkts' = <<>> \/ pkts' = pkts)
          /\ UNCHANGED <<read, rows, sqlite_sequence, unrecorded>>
      BY <1>3 DEF exit, crash, end_process, start, hci_open_raw, store
    <2>2. Published' \subseteq Published
      <3>1. ~publish \/ scan_pc' = "push"
        BY DEF publish
      <3> QED
        BY <2>1, <3>1, PublishedStep
    <2>3. UNCHANGED Taken /\ (\A n : Passes(n)' <=> Passes(n)) /\ ~Busy'
      BY <2>1 DEF Taken, Passes, Busy
    <2>4. Trail'
      BY <2>1, <2>2, <2>3 DEF Trail
    <2>5. DOMAIN pkts' = {} \/ pkts' = pkts
      BY <2>1
    <2> QED
      BY <2>1, <2>3, <2>4, <2>5 DEF Fresh, Busy
  <1> QED
    BY <1>1, <1>2, <1>3 DEF GatewayNext

----------------------------------------------------------------------------
(* The order of frames on their way and of those that arrived.             *)

\* Until a connection is first lost, what arrived is in order, and ahead of all on the way.
Once ==
    outages = 0 => /\ \A i, j \in DOMAIN delivered : i < j => delivered[i] < delivered[j]
                   /\ Before(Received, Asked \cup Held \cup Queued)

LEMMA LineOnceInit == GatewayInit => Line /\ Once
  <1> SUFFICES ASSUME GatewayInit PROVE Line /\ Once
    OBVIOUS
  <1>1. /\ mqtt_q = <<>> /\ publishing = Nothing /\ requests = <<>> /\ resend = <<>> /\ inflight = <<>>
        /\ delivered = <<>>
    BY DEF GatewayInit
  <1>2. Queued = {} /\ Held = {} /\ Asked = {} /\ Again = {} /\ Sent = {} /\ Received = {}
    BY <1>1, FramesEmpty, TypesInit, Queues DEF Queued, Held, Asked, Again, Sent, Received
  <1>3. InOrder(inflight) /\ InOrder(resend) /\ InOrder(requests) /\ InOrder(mqtt_q)
    BY <1>1, FramesEmpty
  <1>4. DOMAIN delivered = {}
    BY <1>1
  <1> QED
    BY <1>2, <1>3, <1>4 DEF Line, Once, Before

\* A frame is published behind all that went before it.
LEMMA PublishBehind ==
    ASSUME Types, Fresh, publish
    PROVE  Before(Sent \cup Again \cup Asked \cup Held \cup Queued \cup Received, {rec.n})
  <1>1. \A n \in Published : n < rec.n
    BY DEF Fresh, publish
  <1> QED
    BY <1>1, PublishedIs DEF Before

LEMMA LineNext == Types /\ Line /\ Fresh /\ [GatewayNext]_gatewayvars => Line'
  <1> SUFFICES ASSUME Types, Line, Fresh, [GatewayNext]_gatewayvars PROVE Line'
    OBVIOUS
  <1> USE DEF Line, Before
  <1>1. CASE Idle
    <2>1. UNCHANGED <<mqtt_q, publishing, requests, resend, inflight>>
      BY <1>1, IdleMoves
    <2> QED
      BY <2>1, SameMoves
  <1>2. CASE publish
    <2>1. InOrder(inflight)' = InOrder(inflight) /\ InOrder(resend)' = InOrder(resend)
          /\ InOrder(requests)' = InOrder(requests) /\ (mqtt_q' = mqtt_q => InOrder(mqtt_q)' = InOrder(mqtt_q))
      BY <1>2 DEF publish, library, InOrder
    <2> QED
      BY <1>2, <2>1, PublishMoves, PublishBehind
  <1>3. CASE publish_next
    <2>1. InOrder(inflight)' = InOrder(inflight) /\ InOrder(resend)' = InOrder(resend)
          /\ InOrder(requests)' = InOrder(requests)
      BY <1>3 DEF publish_next, library, InOrder
    <2> QED
      BY <1>3, <2>1, PublishNextMoves
  <1>4. CASE client_publish
    <2>1. InOrder(inflight)' = InOrder(inflight) /\ InOrder(resend)' = InOrder(resend)
          /\ InOrder(mqtt_q)' = InOrder(mqtt_q)
      BY <1>4 DEF client_publish, library, InOrder
    <2> QED
      BY <1>4, <2>1, ClientPublishMoves
  <1>5. CASE publish_timeout
    <2>1. InOrder(inflight)' = InOrder(inflight) /\ InOrder(resend)' = InOrder(resend)
          /\ InOrder(requests)' = InOrder(requests) /\ InOrder(mqtt_q)' = InOrder(mqtt_q)
      BY <1>5 DEF publish_timeout, library, InOrder
    <2> QED
      BY <1>5, <2>1, PublishTimeoutMoves
  <1>6. CASE announce
    <2>1. InOrder(inflight)' = InOrder(inflight) /\ InOrder(resend)' = InOrder(resend)
          /\ InOrder(mqtt_q)' = InOrder(mqtt_q)
      BY <1>6 DEF announce, library, InOrder
    <2> QED
      BY <1>6, <2>1, AnnounceMoves
  <1>7. CASE send_offline
    <2>1. InOrder(inflight)' = InOrder(inflight) /\ InOrder(resend)' = InOrder(resend)
          /\ InOrder(requests)' = InOrder(requests)
      BY <1>7 DEF send_offline, library, InOrder
    <2> QED
      BY <1>7, <2>1, SendOfflineMoves
  <1>8. CASE poll_request
    <2>1. /\ InOrder(mqtt_q)' = InOrder(mqtt_q)
          /\ requests' = requests => InOrder(requests)' = InOrder(requests)
          /\ resend' = <<>> => InOrder(resend)'
      BY <1>8 DEF poll_request, InOrder
    <2>2. PICK m \in Messages :
             /\ Sent' = Sent \cup FrameOf(m) /\ UNCHANGED <<Held, Queued>>
             /\ \/ /\ resend = <<>> /\ resend' = <<>> /\ Again = {} /\ Again' = {}
                   /\ Asked = FrameOf(m) \cup Asked'
                   /\ InOrder(requests) => InOrder(requests)' /\ Before(FrameOf(m), Asked')
                \/ /\ resend # <<>> /\ requests' = requests /\ Asked' = Asked
                   /\ Again = FrameOf(m) \cup Again'
                   /\ InOrder(resend) => InOrder(resend)' /\ Before(FrameOf(m), Again')
             /\ (InOrder(inflight) /\ Before(Sent, FrameOf(m))) => InOrder(inflight)'
      BY <1>8, PollRequestMoves
    <2> QED
      BY <2>1, <2>2
  <1>9. CASE poll_ack
    <2>1. /\ InOrder(mqtt_q)' = InOrder(mqtt_q) /\ InOrder(requests)' = InOrder(requests)
          /\ InOrder(resend)' = InOrder(resend)
      BY <1>9 DEF poll_ack, InOrder
    <2> QED
      BY <1>9, <2>1, PollAckMoves
  <1>10. CASE poll_error
    <2>1. /\ InOrder(mqtt_q)' = InOrder(mqtt_q)
          /\ requests' = requests => InOrder(requests)' = InOrder(requests)
      BY <1>10 DEF poll_error, InOrder
    <2> QED
      BY <1>10, <2>1, PollErrorMoves
  <1>11. CASE end_process
    BY <1>11, EndMoves
  <1> QED
    BY <1>1, <1>2, <1>3, <1>4, <1>5, <1>6, <1>7, <1>8, <1>9, <1>10, <1>11, Cases

LEMMA OnceNext ==
    Types /\ Session /\ Line /\ Fresh /\ Once /\ [GatewayNext]_gatewayvars => Once'
  <1> SUFFICES ASSUME Types, Session, Line, Fresh, Once, [GatewayNext]_gatewayvars, outages' = 0
               PROVE  Once'
    BY DEF Once
  <1>1. outages = 0
    <2>1. CASE reader_thread \/ reader_ends \/ hci_scan_task \/ debounce \/ stop \/ send_offline \/ start
      BY <2>1 DEF reader_thread, reader_ends, hci_scan_task, receive, scan_exits, insert, publish,
                  push, debounce, stop, send_offline, start, broker
    <2>2. CASE publish_loop \/ event_loop
      BY <2>2 DEF publish_loop, publish_next, client_publish, publish_timeout, event_loop, connect,
                  connected_loop, announce, poll_request, poll_ack, poll_error, broker
    <2>3. CASE exit \/ crash \/ broker_drops \/ UNCHANGED gatewayvars
      BY <2>3 DEF exit, crash, end_process, broker_drops, gatewayvars, broker
    <2>4. CASE outage
      BY <2>4 DEF outage, Session
    <2> QED
      BY <2>1, <2>2, <2>3, <2>4 DEF GatewayNext
  <1>2. /\ \A i, j \in DOMAIN delivered : i < j => delivered[i] < delivered[j]
        /\ Before(Received, Asked \cup Held \cup Queued)
    BY <1>1 DEF Once
  <1>3. ASSUME UNCHANGED delivered,
               Asked' \cup Held' \cup Queued' \subseteq Asked \cup Held \cup Queued
        PROVE  Once'
    BY <1>2, <1>3 DEF Once, Before, Received
  <1>4. CASE Idle
    BY <1>3, <1>4, IdleMoves, SameMoves
  <1>5. CASE publish
    <2>1. UNCHANGED delivered
      BY <1>5 DEF publish, broker
    <2> QED
      BY <1>2, <1>5, <2>1, PublishMoves, PublishBehind DEF Once, Before, Received
  <1>6. CASE publish_next \/ client_publish \/ publish_timeout \/ announce \/ send_offline
    <2>1. UNCHANGED delivered
      BY <1>6 DEF publish_next, client_publish, publish_timeout, announce, send_offline, broker
    <2> QED
      BY <1>3, <1>6, <2>1, PublishNextMoves, ClientPublishMoves, PublishTimeoutMoves, AnnounceMoves,
         SendOfflineMoves
  <1>7. CASE poll_request
    <2>1. conn = "up" /\ resend = <<>>
      BY <1>1, <1>7 DEF poll_request, Session, Types, BrokerTypes
    <2>2. PICK m \in Messages :
             /\ UNCHANGED <<Held, Queued>>
             /\ delivered' = IF conn = "up" /\ m.what = "frame" THEN Append(delivered, m.n) ELSE delivered
             /\ Asked = FrameOf(m) \cup Asked'
             /\ Before(FrameOf(m), Asked')
      BY <1>7, <2>1, PollRequestMoves DEF Line
    <2>3. CASE m.what # "frame"
      BY <1>3, <2>2, <2>3
    <2>4. CASE m.what = "frame"
      <3>1. delivered \in Seq(Receptions) /\ m.n \in Receptions /\ FrameOf(m) = {m.n}
        BY <2>4, MessageFacts DEF Types, BrokerTypes, FrameOf
      <3>2. delivered' = Append(delivered, m.n)
        BY <2>1, <2>2, <2>4
      <3>3. /\ Len(delivered) \in Nat /\ DOMAIN delivered = 1 .. Len(delivered)
            /\ DOMAIN delivered' = 1 .. Len(delivered) + 1
            /\ \A i \in 1 .. Len(delivered) : delivered'[i] = delivered[i]
            /\ delivered'[Len(delivered) + 1] = m.n
        BY <3>1, <3>2
      <3>4. \A i \in DOMAIN delivered' : \/ i \in DOMAIN delivered /\ delivered'[i] = delivered[i]
                                         \/ i = Len(delivered) + 1 /\ delivered'[i] = m.n
        BY <3>3
      <3>5. Received' \subseteq Received \cup {m.n}
        BY <3>4 DEF Received
      <3>6. \A k \in Received : k < m.n
        BY <1>2, <2>2, <3>1 DEF Before
      <3>7. ASSUME NEW i \in DOMAIN delivered', NEW j \in DOMAIN delivered', i < j
            PROVE  delivered'[i] < delivered'[j]
        <4>1. i \in DOMAIN delivered /\ delivered'[i] = delivered[i] /\ delivered[i] \in Received
          BY <3>3, <3>7 DEF Received
        <4> QED
          BY <1>2, <3>4, <3>6, <3>7, <4>1
      <3>8. Before(FrameOf(m), Held \cup Queued)
        BY <2>2 DEF Line, Before
      <3>9. Before(Received', Asked' \cup Held' \cup Queued')
        BY <1>2, <2>2, <3>1, <3>5, <3>8 DEF Before
      <3> QED
        BY <3>7, <3>9 DEF Once, Before
    <2> QED
      BY <2>3, <2>4
  <1>8. CASE poll_ack
    <2>1. UNCHANGED delivered
      BY <1>8 DEF poll_ack, broker
    <2> QED
      BY <1>3, <1>8, <2>1, PollAckMoves
  <1>9. CASE poll_error
    BY <1>1, <1>9 DEF poll_error, Session
  <1>10. CASE end_process
    <2>1. UNCHANGED delivered
      BY <1>10 DEF end_process
    <2> QED
      BY <1>3, <1>10, <2>1, EndMoves
  <1> QED
    BY <1>4, <1>5, <1>6, <1>7, <1>8, <1>9, <1>10, Cases

----------------------------------------------------------------------------
(* The screen.                                                             *)

Shown == {app.events[i].n : i \in DOMAIN app.events}

\* What the screen shows goes down from the newest reception on, and leaves no row out but
\* the one the scan task has yet to push.
Screen ==
    /\ \A i, j \in DOMAIN app.events : i < j => app.events[i].n > app.events[j].n
    /\ Shown \subseteq Taken
    /\ Busy => \A n \in Shown : n < rec.n
    /\ app.events # <<>> =>
         \A r \in rows : r.n >= app.events[Len(app.events)].n =>
           r.n \in Shown \/ (scan_pc \in {"publish", "push"} /\ r.n = rec.n)
    /\ ~Running => ~Busy

LEMMA ScreenInit == GatewayInit => Screen
  <1> SUFFICES ASSUME GatewayInit PROVE Screen
    OBVIOUS
  <1>1. app.events = <<>> /\ ~Busy
    BY DEF GatewayInit, EmptyApp, Busy
  <1>2. DOMAIN app.events = {} /\ Shown = {}
    BY <1>1 DEF Shown
  <1> QED
    BY <1>1, <1>2 DEF Screen

LEMMA ScreenSuffices == Screen => ScreenIsTrailTail
  BY DEF Screen, ScreenIsTrailTail, Shown

LEMMA ShownNumbers ==
    ASSUME Types
    PROVE  /\ app.events \in Seq(Records) /\ Len(app.events) \in Nat
           /\ DOMAIN app.events = 1 .. Len(app.events)
           /\ \A i \in DOMAIN app.events : app.events[i].n \in Int
           /\ rec.n \in Int /\ rec \in Records
  <1>1. \A r \in Records : r.n \in Int
    BY Constants DEF Records
  <1>2. app.events \in Seq(Records) /\ rec \in Records
    BY DEF Types, AppTypes, ScanTypes
  <1>3. \A i \in DOMAIN app.events : app.events[i] \in Records
    BY <1>2, ElementOfSeq
  <1> QED
    BY <1>1, <1>2, <1>3

LEMMA PushScreen ==
    ASSUME Types, Fresh, Screen, push
    PROVE  Screen'
  <1> DEFINE events == app.events
             longer == <<rec>> \o events
             new == Truncated(longer)
             len == Len(new)
  <1> USE ShownNumbers, TakenNumbers, Constants
  <1>1. /\ scan_pc = "push" /\ scan_pc' = "recv" /\ app'.events = new
        /\ UNCHANGED <<main_pc, rec, rows, unrecorded>>
    BY DEF push, App_push, Tallied, process, store
  <1>2. UNCHANGED Taken /\ Busy /\ ~Busy'
    BY <1>1 DEF Taken, Busy
  <1>3. /\ longer \in Seq(Records) /\ Len(longer) = Len(events) + 1 /\ longer[1] = rec
        /\ \A i \in 1 .. Len(events) : longer[i + 1] = events[i]
        /\ DOMAIN longer = 1 .. Len(events) + 1
    OBVIOUS
  <1> HIDE DEF longer
  <1>4. /\ len \in Nat \ {0} /\ len <= Len(longer) /\ DOMAIN new = 1 .. len
        /\ \A i \in 1 .. len : new[i] = longer[i]
    <2>1. CASE Len(longer) > Ring
      <3>1. \A k \in 1 .. Ring : longer[k] \in Records
        BY <1>3, <2>1
      <3>2. /\ SubSeq(longer, 1, Ring) \in Seq(Records) /\ Len(SubSeq(longer, 1, Ring)) = Ring
            /\ \A i \in 1 .. Ring : SubSeq(longer, 1, Ring)[i] = longer[1 + i - 1]
        BY <3>1, SubSeqProperties
      <3>3. \A i \in 1 .. Ring : 1 + i - 1 = i
        OBVIOUS
      <3>4. new = SubSeq(longer, 1, Ring)
        BY <2>1 DEF Truncated
      <3>5. DOMAIN SubSeq(longer, 1, Ring) = 1 .. Len(SubSeq(longer, 1, Ring))
        BY <3>2
      <3> QED
        BY <2>1, <3>2, <3>3, <3>4, <3>5, <1>3
    <2>2. CASE ~(Len(longer) > Ring)
      BY <1>3, <2>2 DEF Truncated
    <2> QED
      BY <2>1, <2>2
  <1> HIDE DEF new
  <1>5. \A i \in DOMAIN longer : \/ i = 1 /\ longer[i] = rec
                                 \/ i - 1 \in DOMAIN events /\ longer[i] = events[i - 1] /\ i > 1
    <2> SUFFICES ASSUME NEW i \in DOMAIN longer, i # 1
                 PROVE  i - 1 \in DOMAIN events /\ longer[i] = events[i - 1] /\ i > 1
      BY <1>3
    <2>1. i - 1 \in 1 .. Len(events) /\ (i - 1) + 1 = i /\ i > 1
      BY <1>3
    <2> QED
      BY <1>3, <2>1
  <1>6. \A i \in DOMAIN events : events[i].n < rec.n
    BY <1>2 DEF Screen, Shown
  <1>7. ASSUME NEW i \in DOMAIN longer, NEW j \in DOMAIN longer, i < j
        PROVE  longer[i].n > longer[j].n
    <2>1. j - 1 \in DOMAIN events /\ longer[j] = events[j - 1] /\ i \in Int /\ j \in Int
      BY <1>3, <1>5, <1>7, SMTT(30)
    <2>2. CASE i = 1
      BY <1>3, <1>6, <2>1, <2>2
    <2>3. CASE i # 1
      <3>1. i - 1 \in DOMAIN events /\ longer[i] = events[i - 1] /\ i - 1 < j - 1
        BY <1>5, <1>7, <2>1, <2>3
      <3> QED
        BY <2>1, <3>1 DEF Screen
    <2> QED
      BY <2>2, <2>3
  <1>8. \A i \in DOMAIN new : i \in DOMAIN longer /\ new[i] = longer[i]
    BY <1>3, <1>4
  <1>9. \A i, j \in DOMAIN new : i < j => new[i].n > new[j].n
    BY <1>7, <1>8
  <1>10. \A i \in DOMAIN new : new[i].n \in Taken
    <2>1. rec.n \in Taken
      BY <1>1 DEF Fresh
    <2>2. \A i \in DOMAIN events : events[i].n \in Taken
      BY DEF Screen, Shown
    <2> QED
      BY <1>5, <1>8, <2>1, <2>2
  <1>11. ASSUME NEW r \in rows, r.n >= new[len].n
         PROVE  \E i \in DOMAIN new : r.n = new[i].n
    <2>1. 1 \in DOMAIN new /\ new[1] = rec /\ len \in DOMAIN new
      BY <1>3, <1>4
    <2>2. r.n \in Int /\ r.n <= rec.n
      BY <1>1 DEF Fresh, Taken
    <2>3. CASE r.n = rec.n
      BY <2>1, <2>3
    <2>4. CASE r.n # rec.n
      <3>1. len > 1
        <4> SUFFICES ASSUME len = 1 PROVE FALSE
          BY <1>4
        <4> QED
          BY <1>11, <2>1, <2>2, <2>4
      <3>2. len - 1 \in DOMAIN events /\ new[len] = events[len - 1]
        BY <1>5, <1>8, <2>1, <3>1
      <3>3. Len(events) \in DOMAIN events /\ events # <<>>
        BY <3>2
      <3>4. new[len].n >= events[Len(events)].n
        <4>1. CASE len - 1 = Len(events)
          BY <3>2, <3>3, <4>1
        <4>2. CASE len - 1 < Len(events)
          BY <3>2, <3>3, <4>2 DEF Screen
        <4>3. len - 1 \in 1 .. Len(events) /\ Len(events) \in Nat
          BY <3>2
        <4>4. len - 1 = Len(events) \/ len - 1 < Len(events)
          <5> DEFINE a == len - 1
                     b == Len(events)
          <5>1. a \in 1 .. b /\ b \in Nat
            BY <4>3
          <5> HIDE DEF a, b
          <5>2. a = b \/ a < b
            BY <5>1
          <5> QED
            BY <5>2 DEF a, b
        <4> QED
          BY <4>1, <4>2, <4>4
      <3>5. r.n >= events[Len(events)].n
        BY <1>11, <2>2, <3>2, <3>3, <3>4
      <3>6. r.n \in Shown
        BY <2>4, <3>3, <3>5 DEF Screen
      <3>7. PICK k \in DOMAIN events : r.n = events[k].n
        BY <3>6 DEF Shown
      <3>8. k + 1 \in DOMAIN longer /\ longer[k + 1] = events[k] /\ k \in Int
        <4>1. k \in 1 .. Len(events) /\ Len(events) \in Nat
          BY <3>7
        <4>2. k + 1 \in 1 .. Len(events) + 1 /\ k \in Int
          BY <4>1
        <4> QED
          BY <1>3, <4>1, <4>2
      <3>9. k + 1 <= len
        <4> SUFFICES ASSUME len < k + 1 PROVE FALSE
          BY <1>4, <3>8
        <4>1. longer[len].n > longer[k + 1].n
          BY <1>7, <1>8, <2>1, <3>8
        <4>2. new[len].n > r.n
          BY <1>8, <2>1, <3>7, <3>8, <4>1
        <4> QED
          BY <1>11, <2>2, <3>2, <4>2, SMTT(30)
      <3>10. k + 1 \in DOMAIN new /\ new[k + 1].n = r.n
        BY <1>4, <1>8, <3>7, <3>8, <3>9
      <3> QED
        BY <3>10
    <2> QED
      BY <2>3, <2>4
  <1>12. Running' = Running /\ Running
    BY <1>1 DEF Running, push
  <1>13. Shown' = {new[i].n : i \in DOMAIN new}
    BY <1>1 DEF Shown
  <1> HIDE DEF len
  <1>14. Len(app'.events) = len
    BY <1>1 DEF len
  <1> QED
    BY <1>1, <1>2, <1>9, <1>10, <1>11, <1>12, <1>13, <1>14 DEF Screen

LEMMA ScreenNext == Types /\ Fresh /\ Screen /\ [GatewayNext]_gatewayvars => Screen'
  <1> SUFFICES ASSUME Types, Fresh, Screen, [GatewayNext]_gatewayvars PROVE Screen'
    OBVIOUS
  <1>1. ASSUME UNCHANGED <<app, scan_pc, rec, rows, unrecorded>>, Running' \/ UNCHANGED main_pc
        PROVE  Screen'
    BY <1>1 DEF Screen, Shown, Taken, Busy, Running
  <1>2. CASE reader_thread \/ reader_ends \/ debounce \/ outage \/ broker_drops \/ stop \/ send_offline
    <2>1. UNCHANGED <<app, scan_pc, rec, rows, unrecorded>> /\ (Running' \/ UNCHANGED main_pc)
      BY <1>2 DEF reader_thread, reader_ends, debounce, outage, broker_drops, stop, send_offline,
                  process, scan, store, Running
    <2> QED
      BY <1>1, <2>1
  <1>3. CASE publish_loop \/ event_loop
    <2>1. UNCHANGED <<app, scan_pc, rec, rows, unrecorded>> /\ UNCHANGED main_pc
      BY <1>3 DEF publish_loop, publish_next, client_publish, publish_timeout, event_loop, connect,
                  connected_loop, announce, poll_request, poll_ack, poll_error, process, scan, store
    <2> QED
      BY <1>1, <2>1
  <1>4. CASE UNCHANGED gatewayvars
    <2>1. UNCHANGED <<app, scan_pc, rec, rows, unrecorded>> /\ UNCHANGED main_pc
      BY <1>4 DEF gatewayvars, process, scan, store
    <2> QED
      BY <1>1, <2>1
  <1>5. CASE receive
    <2>1. /\ pkts # <<>> /\ scan_pc = "recv" /\ UNCHANGED <<main_pc, app, rows, unrecorded>> /\ Running
          /\ \/ scan_pc' = "recv"
             \/ scan_pc' = "insert" /\ rec'.n = Head(pkts).n
      BY <1>5 DEF receive, store, process
    <2>2. 1 \in DOMAIN pkts /\ Head(pkts) = pkts[1]
      <3> DEFINE S == [n : Receptions, reports : Packets]
      <3>1. pkts \in Seq(S)
        BY TakenNumbers
      <3> HIDE DEF S
      <3> QED
        BY <2>1, <3>1, HeadTail
    <2>3. \A n \in Taken : n < Head(pkts).n
      BY <2>2 DEF Fresh
    <2>4. UNCHANGED Shown /\ UNCHANGED Taken /\ Running'
      BY <2>1 DEF Shown, Taken, Running
    <2>5. scan_pc \notin {"publish", "push"} /\ ~Busy
      BY <2>1 DEF Busy
    <2> QED
      BY <2>1, <2>3, <2>4, <2>5 DEF Screen, Busy
  <1>6. CASE scan_exits
    BY <1>6 DEF scan_exits, Screen, Shown, Taken, Busy, Running, store, process
  <1>7. CASE insert
    <2>1. /\ scan_pc = "insert" /\ scan_pc' \in {"publish", "push"} /\ UNCHANGED <<main_pc, app>> /\ Running
          /\ rec \in Records /\ Busy
      BY <1>7, ShownNumbers DEF insert, process, Busy
    <2>2. /\ rec'.n = rec.n /\ Taken \subseteq Taken'
          /\ \A r \in rows' : r \in rows \/ r.n = rec.n
      <3>1. CASE db_insert(rec.n, rec.verified) /\ rec' = [rec EXCEPT !.id = insert_id] /\ UNCHANGED unrecorded
        BY <2>1, <3>1 DEF db_insert, Taken, Records
      <3>2. CASE unrecorded' = unrecorded \cup {rec.n} /\ UNCHANGED <<store, rec>>
        BY <3>2 DEF store, Taken
      <3> QED
        BY <1>7, <3>1, <3>2 DEF insert
    <2>3. UNCHANGED Shown /\ Running'
      BY <2>1 DEF Shown, Running
    <2> QED
      BY <2>1, <2>2, <2>3 DEF Screen
  <1>8. CASE publish
    <2>1. /\ scan_pc = "publish" /\ scan_pc' = "push" /\ UNCHANGED <<main_pc, app, rec, rows, unrecorded>>
          /\ Running
      BY <1>8 DEF publish, process, store
    <2> QED
      BY <2>1 DEF Screen, Shown, Taken, Busy, Running
  <1>9. CASE push
    BY <1>9, PushScreen
  <1>10. CASE exit \/ crash
    <2>1. app'.events = <<>> /\ scan_pc' = "exited"
      BY <1>10 DEF exit, crash, end_process, EmptyApp
    <2>2. Shown' = {} /\ DOMAIN app'.events = {} /\ ~Busy'
      BY <2>1 DEF Shown, Busy
    <2> QED
      BY <2>1, <2>2 DEF Screen
  <1>11. CASE start
    <2>1. /\ ~Running /\ scan_pc' \in {"exited", "recv"} /\ UNCHANGED <<app, rec, rows, unrecorded>>
          /\ main_pc' = "run"
      BY <1>11 DEF start, hci_open_raw, store
    <2>2. ~Busy /\ ~Busy'
      BY <2>1 DEF Screen, Busy
    <2> QED
      BY <2>1, <2>2 DEF Screen, Shown, Taken, Running, Busy
  <1> QED
    BY <1>2, <1>3, <1>4, <1>5, <1>6, <1>7, <1>8, <1>9, <1>10, <1>11 DEF GatewayNext, hci_scan_task

----------------------------------------------------------------------------
(* The outbox.                                                             *)

Waits == Queued \cup Held \cup Asked \cup Again

LEMMA PendingIs == Types => Frames(mqtt_q \o <<publishing>> \o requests \o resend) = Waits
  <1> SUFFICES ASSUME Types PROVE Frames(mqtt_q \o <<publishing>> \o requests \o resend) = Waits
    OBVIOUS
  <1> DEFINE M == Messages \cup {Nothing}
             a == mqtt_q \o <<publishing>>
             b == a \o requests
  <1>1. /\ mqtt_q \in Seq(M) /\ <<publishing>> \in Seq(M) /\ requests \in Seq(M) /\ resend \in Seq(M)
    BY Queues
  <1> HIDE DEF M
  <1>2. a \in Seq(M) /\ Frames(a) = Queued \cup Held
    BY <1>1, FramesConcat, ConcatProperties, ZenonT(60) DEF Queued, Held
  <1> HIDE DEF a
  <1>3. b \in Seq(M) /\ Frames(b) = Queued \cup Held \cup Asked
    BY <1>1, <1>2, FramesConcat, ConcatProperties DEF Asked
  <1> HIDE DEF b
  <1>4. Frames(b \o resend) = Waits
    BY <1>1, <1>3, FramesConcat DEF Again, Waits
  <1> QED
    BY <1>4 DEF a, b

\* What each step of the gateway is to the outbox.
PutIn ==
    /\ \E n \in Waits' : n \in Nat /\ (\A m \in Waits \cup Sent \cup Received : m < n) /\ Waits' = Waits \cup {n}
    /\ UNCHANGED <<Sent, delivered>> /\ (conn = "up")' = (conn = "up")
GivenUp ==
    /\ \E n \in Waits : Waits' = Waits \ {n}
    /\ UNCHANGED <<Sent, delivered>> /\ (conn = "up")' = (conn = "up")
SentOn ==
    /\ \E n \in Waits :
         /\ \A m \in Waits : n <= m
         /\ Waits' = Waits \ {n} /\ Sent' = Sent \cup {n}
         /\ delivered' = IF conn = "up" THEN Append(delivered, n) ELSE delivered
    /\ (conn = "up")' = (conn = "up")
Acked ==
    /\ conn = "up" /\ \E n \in Sent : Sent' = Sent \ {n}
    /\ UNCHANGED <<Waits, delivered>> /\ (conn = "up")' = (conn = "up")
Broken == conn = "up" /\ conn' # "up" /\ UNCHANGED <<Waits, Sent, delivered>>
Recovered ==
    /\ conn # "up" /\ Sent' = {} /\ Waits' \subseteq Waits \cup Sent
    /\ UNCHANGED delivered /\ (conn = "up")' = (conn = "up")
Connected == conn # "up" /\ Sent = {} /\ conn' = "up" /\ UNCHANGED <<Waits, Sent, delivered>>
Ended == Waits' = {} /\ Sent' = {} /\ conn' # "up" /\ UNCHANGED delivered
Unseen == UNCHANGED <<Waits, Sent, delivered>> /\ (conn = "up")' = (conn = "up")

LEMMA Translated ==
    ASSUME Types, Types',
           \/ PutIn \/ GivenUp \/ SentOn \/ Acked \/ Broken \/ Recovered \/ Connected \/ Ended \/ Unseen
    PROVE  [Out!OutboxNext]_Out!outbox
  <1> DEFINE pending == Frames(mqtt_q \o <<publishing>> \o requests \o resend)
  <1>1. pending = Waits
    BY PendingIs
  <1>2. pending' = Waits'
    <2>1. (pending = Waits)'
      BY PendingIs, PTL
    <2> QED
      BY <2>1
  <1>3. Frames(inflight) = Sent /\ Frames(inflight)' = Sent'
    BY DEF Sent
  <1>4. Out!Arrived = Received
    BY DEF Out!Arrived, Received
  <1> HIDE DEF pending
  <1>5. PutIn => Out!Put
    BY <1>1, <1>2, <1>3, <1>4 DEF PutIn, Out!Put, pending
  <1>6. GivenUp => Out!GiveUp
    BY <1>1, <1>2, <1>3 DEF GivenUp, Out!GiveUp, pending
  <1>7. SentOn => Out!Send
    BY <1>1, <1>2, <1>3 DEF SentOn, Out!Send, pending
  <1>8. Acked => Out!Acknowledge
    BY <1>1, <1>2, <1>3 DEF Acked, Out!Acknowledge, pending
  <1>9. Broken => Out!Break
    BY <1>1, <1>2, <1>3 DEF Broken, Out!Break, pending
  <1>10. Recovered => Out!Recover
    BY <1>1, <1>2, <1>3 DEF Recovered, Out!Recover, pending
  <1>11. Connected => Out!Connect
    BY <1>1, <1>2, <1>3 DEF Connected, Out!Connect, pending
  <1>12. Ended => Out!Crash
    BY <1>1, <1>2, <1>3 DEF Ended, Out!Crash, pending
  <1>13. Unseen => UNCHANGED Out!outbox
    BY <1>1, <1>2, <1>3 DEF Unseen, Out!outbox, pending
  <1> QED
    BY <1>5, <1>6, <1>7, <1>8, <1>9, <1>10, <1>11, <1>12, <1>13 DEF Out!OutboxNext

LEMMA LineNumbers ==
    ASSUME Types
    PROVE  Waits \cup Sent \subseteq Receptions /\ Receptions \subseteq Nat
  <1>1. /\ Frames(mqtt_q) \subseteq Receptions /\ Frames(requests) \subseteq Receptions
        /\ Frames(resend) \subseteq Receptions /\ Frames(inflight) \subseteq Receptions
    BY Queues, FramesNumbers
  <1>2. FrameOf(publishing) \subseteq Receptions
    BY Queues, MessageFacts DEF FrameOf
  <1> QED
    BY <1>1, <1>2, Queues DEF Waits, Sent, Again, Asked, Queued, Receptions

LEMMA OutStep ==
    ASSUME Types, Session, Line, Fresh, [GatewayNext]_gatewayvars
    PROVE  \/ PutIn \/ GivenUp \/ SentOn \/ Acked \/ Broken \/ Recovered \/ Connected \/ Ended \/ Unseen
  <1> USE LineNumbers
  <1>0. ASSUME UNCHANGED <<mqtt_q, publishing, requests, resend, inflight, delivered>>
        PROVE  UNCHANGED <<Waits, Sent, delivered>>
    BY <1>0, SameMoves DEF Waits
  <1>1. CASE reader_thread \/ reader_ends \/ receive \/ scan_exits \/ insert \/ push \/ debounce
             \/ broker_drops \/ stop \/ start \/ UNCHANGED gatewayvars
    <2>1. UNCHANGED <<mqtt_q, publishing, requests, resend, inflight, delivered>>
      BY <1>1, IdleMoves DEF Idle
    <2>2. UNCHANGED conn
      <3>1. CASE reader_thread \/ reader_ends \/ receive \/ scan_exits \/ insert \/ push \/ debounce
        BY <3>1 DEF reader_thread, reader_ends, receive, scan_exits, insert, push, debounce, broker
      <3>2. CASE broker_drops \/ stop \/ start \/ UNCHANGED gatewayvars
        BY <3>2 DEF broker_drops, stop, start, broker, gatewayvars
      <3> QED
        BY <1>1, <3>1, <3>2
    <2> QED
      BY <1>0, <2>1, <2>2 DEF Unseen
  <1>2. CASE connect
    <2>1. UNCHANGED <<mqtt_q, publishing, requests, resend, inflight, delivered>>
      BY <1>2, IdleMoves DEF Idle
    <2>2. conn # "up" /\ conn' = "up" /\ inflight = <<>>
      BY <1>2 DEF connect, Session
    <2>3. Sent = {}
      BY <2>2, FramesEmpty DEF Sent
    <2> QED
      BY <1>0, <2>1, <2>2, <2>3 DEF Connected
  <1>3. CASE outage
    <2>1. UNCHANGED <<mqtt_q, publishing, requests, resend, inflight, delivered>>
      BY <1>3, IdleMoves DEF Idle
    <2>2. conn = "up" /\ conn' # "up"
      BY <1>3 DEF outage
    <2> QED
      BY <1>0, <2>1, <2>2 DEF Broken
  <1>4. CASE publish
    <2>1. UNCHANGED <<conn, delivered>> /\ rec.n \in Nat
      BY <1>4 DEF publish, broker, Types, ScanTypes, Recording
    <2>2. /\ UNCHANGED <<Sent, Again, Asked, Held>>
          /\ Queued' = Queued \/ Queued' = Queued \cup {rec.n}
      BY <1>4, PublishMoves
    <2>3. CASE Queued' = Queued
      BY <2>1, <2>2, <2>3 DEF Unseen, Waits
    <2>4. CASE Queued' = Queued \cup {rec.n}
      <3>1. \A n \in Waits \cup Sent \cup Received : n < rec.n
        BY <1>4, PublishBehind DEF Waits, Before
      <3>2. Waits' = Waits \cup {rec.n} /\ rec.n \in Waits'
        BY <2>2, <2>4 DEF Waits
      <3> QED
        BY <2>1, <2>2, <3>1, <3>2 DEF PutIn
    <2> QED
      BY <2>2, <2>3, <2>4
  <1>5. CASE publish_next \/ client_publish \/ announce \/ send_offline
    <2>1. UNCHANGED <<conn, delivered>>
      BY <1>5 DEF publish_next, client_publish, announce, send_offline, broker
    <2>2. UNCHANGED <<Waits, Sent>>
      BY <1>5, PublishNextMoves, ClientPublishMoves, AnnounceMoves, SendOfflineMoves DEF Waits
    <2> QED
      BY <2>1, <2>2 DEF Unseen
  <1>6. CASE publish_timeout
    <2>1. UNCHANGED <<conn, delivered>>
      BY <1>6 DEF publish_timeout, broker
    <2>2. Held' = {} /\ UNCHANGED <<Sent, Again, Asked, Queued>>
      BY <1>6, PublishTimeoutMoves
    <2>3. Held = FrameOf(publishing)
      BY Queues
    <2>4. CASE publishing.what = "frame"
      <3>1. Held = {publishing.n}
        BY <2>3, <2>4 DEF FrameOf
      <3>2. publishing.n \notin Queued \cup Asked \cup Again /\ publishing.n \in Waits
        BY <3>1 DEF Line, Before, Waits
      <3>3. Waits' = Waits \ {publishing.n}
        BY <2>2, <3>1, <3>2 DEF Waits
      <3> QED
        BY <2>1, <2>2, <3>2, <3>3 DEF GivenUp
    <2>5. CASE publishing.what # "frame"
      <3>1. Held = {}
        BY <2>3, <2>5 DEF FrameOf
      <3> QED
        BY <2>1, <2>2, <3>1 DEF Unseen, Waits
    <2> QED
      BY <2>4, <2>5
  <1>7. CASE poll_request
    <2>1. UNCHANGED conn
      BY <1>7 DEF poll_request
    <2>2. PICK m \in Messages :
             /\ Sent' = Sent \cup FrameOf(m) /\ UNCHANGED <<Held, Queued>>
             /\ delivered' = IF conn = "up" /\ m.what = "frame" THEN Append(delivered, m.n) ELSE delivered
             /\ \/ /\ Again = {} /\ Again' = {} /\ Asked = FrameOf(m) \cup Asked'
                   /\ Before(FrameOf(m), Asked')
                \/ /\ Asked' = Asked /\ Again = FrameOf(m) \cup Again'
                   /\ Before(FrameOf(m), Again')
      BY <1>7, PollRequestMoves DEF Line
    <2>3. CASE m.what # "frame"
      <3>1. FrameOf(m) = {}
        BY <2>3 DEF FrameOf
      <3> QED
        BY <2>1, <2>2, <2>3, <3>1 DEF Unseen, Waits
    <2>4. CASE m.what = "frame"
      <3>1. FrameOf(m) = {m.n}
        BY <2>4 DEF FrameOf
      <3>2. Waits = {m.n} \cup Waits'
        BY <2>2, <3>1 DEF Waits
      <3>3. \A k \in Waits' : m.n < k
        BY <2>2, <3>1 DEF Waits, Line, Before
      <3>4. m.n \in Waits /\ m.n \in Nat /\ Waits' \subseteq Nat
        BY <3>2
      <3>5. Waits' = Waits \ {m.n}
        BY <3>2, <3>3, <3>4
      <3>6. \A k \in Waits : m.n <= k
        BY <3>2, <3>3, <3>4
      <3> QED
        BY <2>1, <2>2, <2>4, <3>1, <3>4, <3>5, <3>6 DEF SentOn
    <2> QED
      BY <2>3, <2>4
  <1>8. CASE poll_ack
    <2>1. conn = "up" /\ UNCHANGED <<conn, delivered>>
      BY <1>8 DEF poll_ack, broker
    <2>2. PICK m \in Messages :
             /\ Sent = FrameOf(m) \cup Sent' /\ UNCHANGED <<Again, Asked, Held, Queued>>
             /\ Before(FrameOf(m), Sent')
      BY <1>8, PollAckMoves DEF Line
    <2>3. CASE m.what # "frame"
      <3>1. FrameOf(m) = {}
        BY <2>3 DEF FrameOf
      <3> QED
        BY <2>1, <2>2, <3>1 DEF Unseen, Waits
    <2>4. CASE m.what = "frame"
      <3>1. FrameOf(m) = {m.n}
        BY <2>4 DEF FrameOf
      <3>2. m.n \in Sent /\ m.n \notin Sent'
        BY <2>2, <3>1 DEF Before
      <3>3. Sent' = Sent \ {m.n}
        BY <2>2, <3>1, <3>2
      <3> QED
        BY <2>1, <2>2, <3>2, <3>3 DEF Acked, Waits
    <2> QED
      BY <2>3, <2>4
  <1>9. CASE poll_error
    <2>1. conn # "up" /\ conn' # "up" /\ UNCHANGED delivered
      BY <1>9 DEF poll_error
    <2>2. Sent' = {} /\ Waits' \subseteq Waits \cup Sent
      BY <1>9, PollErrorMoves DEF Waits
    <2> QED
      BY <2>1, <2>2 DEF Recovered
  <1>10. CASE end_process
    <2>1. conn' # "up" /\ UNCHANGED delivered
      BY <1>10 DEF end_process
    <2> QED
      BY <1>10, <2>1, EndMoves DEF Ended, Waits
  <1> QED
    BY <1>1, <1>2, <1>3, <1>4, <1>5, <1>6, <1>7, <1>8, <1>9, <1>10, Cases DEF Idle

----------------------------------------------------------------------------
(* Theorems.                                                               *)

\* None of these parts is inductive alone: a frame is published in order only because the
\* scan task's record is newer than all it took before, is recorded only because what is
\* published was inserted, and is sent once only because the queues are in line.
GatewayInv == Types /\ Session /\ Trail /\ Fresh /\ Line /\ Once /\ Screen

\* The invariant holds in every reachable state of the gateway.
THEOREM GatewayInductive == GatewaySpec => []GatewayInv
  <1>1. GatewayInit => GatewayInv
    BY TypesInit, SessionInit, TrailFreshInit, LineOnceInit, ScreenInit DEF GatewayInv
  <1>2. GatewayInv /\ [GatewayNext]_gatewayvars => GatewayInv'
    BY TypesNext, SessionNext, TrailFreshNext, LineNext, OnceNext, ScreenNext DEF GatewayInv
  <1> QED
    BY <1>1, <1>2, PTL DEF GatewaySpec

\* Every variable keeps to its values, and no channel nor the screen (main.rs) ever holds
\* more than its capacity, whatever fails and whenever the gateway is stopped or crashes.
THEOREM GatewayTypeCorrect == GatewaySpec => []GatewayTypeOK
  <1>1. GatewayInv => GatewayTypeOK
    BY TypesSuffice DEF GatewayInv
  <1> QED
    BY <1>1, GatewayInductive, PTL

\* The last will keeps the retained health message from outliving the gateway's connection.
THEOREM LossAlwaysTold == GatewaySpec => []HealthTellsLoss
  <1>1. GatewayInv => HealthTellsLoss
    BY DEF GatewayInv, Session
  <1> QED
    BY <1>1, GatewayInductive, PTL

\* hci_scan_task records before it publishes: what MQTT, ntfy or the broker has of the
\* node has one verified row, or its insert failed.
THEOREM PublishedAlwaysRecorded == GatewaySpec => []PublishedIsRecorded
  <1>1. ASSUME GatewayInv, NEW n \in Published \ unrecorded
        PROVE  Cardinality({r \in rows : r.n = n}) = 1 /\ \E r \in rows : r.n = n /\ r.verified
    <2>1. PICK r \in rows : r.n = n /\ r.verified
      BY <1>1 DEF GatewayInv, Trail, Passes
    <2>2. {s \in rows : s.n = n} = {r}
      BY <1>1, <2>1 DEF GatewayInv, Trail
    <2>3. Cardinality({r}) = 1
      BY FS_Singleton
    <2> QED
      BY <2>1, <2>2, <2>3
  <1>2. GatewayInv => PublishedIsRecorded
    BY <1>1 DEF PublishedIsRecorded
  <1> QED
    BY <1>2, GatewayInductive, PTL

\* Between two receptions App's ring is the end of the audit trail, newest first.
THEOREM ScreenAlwaysTrailTail == GatewaySpec => []ScreenIsTrailTail
  <1>1. GatewayInv => ScreenIsTrailTail
    BY ScreenSuffices DEF GatewayInv
  <1> QED
    BY <1>1, GatewayInductive, PTL

\* The two MQTT channels, the two tasks and the client library's queues are one outbox.
THEOREM GatewayImplementsOutbox == GatewaySpec => ImplementsOutbox
  <1>1. GatewayInit => Out!OutboxInit
    <2> SUFFICES ASSUME GatewayInit PROVE Out!OutboxInit
      OBVIOUS
    <2>1. Types /\ conn = "down" /\ delivered = <<>>
      BY TypesInit DEF GatewayInit
    <2>2. Waits = {} /\ Sent = {}
      <3>1. /\ mqtt_q = <<>> /\ publishing = Nothing /\ requests = <<>> /\ resend = <<>> /\ inflight = <<>>
        BY DEF GatewayInit
      <3> QED
        BY <2>1, <3>1, FramesEmpty, Queues DEF Waits, Queued, Held, Asked, Again, Sent
    <2>3. Frames(mqtt_q \o <<publishing>> \o requests \o resend) = {}
      BY <2>1, <2>2, PendingIs
    <2> QED
      BY <2>1, <2>2, <2>3 DEF Out!OutboxInit, Sent
  <1>2. GatewayInv /\ GatewayInv' /\ [GatewayNext]_gatewayvars => [Out!OutboxNext]_Out!outbox
    BY OutStep, Translated DEF GatewayInv
  <1> QED
    BY <1>1, <1>2, GatewayInductive, PTL DEF GatewaySpec, ImplementsOutbox, Out!OutboxSpec

Arrivals == INSTANCE OutboxProofs WITH
    pending <- Frames(mqtt_q \o <<publishing>> \o requests \o resend),
    unacked <- Frames(inflight),
    connected <- conn = "up"

\* What arrives at the broker arrives in the order of the receptions, as the outbox has it.
THEOREM ArrivalsInOrder == GatewaySpec => []Out!DeliveredInOrder
  <1>1. Out!OutboxSpec => []Out!DeliveredInOrder
    <2>1. Out!OutboxInit => Arrivals!OutboxInit
      BY DEF Out!OutboxInit, Arrivals!OutboxInit
    <2>2. [Out!OutboxNext]_Out!outbox => [Arrivals!OutboxNext]_Arrivals!outbox
      BY Zenon
         DEF Out!OutboxNext, Out!outbox, Out!Put, Out!GiveUp, Out!Send, Out!Acknowledge,
             Out!Break, Out!Recover, Out!Connect, Out!Crash, Out!Arrived,
             Arrivals!OutboxNext, Arrivals!outbox, Arrivals!Put, Arrivals!GiveUp,
             Arrivals!Send, Arrivals!Acknowledge, Arrivals!Break, Arrivals!Recover,
             Arrivals!Connect, Arrivals!Crash, Arrivals!Arrived
    <2>3. Arrivals!DeliveredInOrder => Out!DeliveredInOrder
      BY DEF Out!DeliveredInOrder, Arrivals!DeliveredInOrder
    <2> QED
      BY <2>1, <2>2, <2>3, Arrivals!ArrivesInOrder, PTL DEF Out!OutboxSpec, Arrivals!OutboxSpec
  <1> QED
    BY <1>1, GatewayImplementsOutbox, PTL DEF ImplementsOutbox

\* The trail keeps the order of the receptions, and so does what arrives at the broker; it
\* gets nothing twice unless a connection was lost.
THEOREM OrderAlwaysKept == GatewaySpec => []OrderKept
  <1>1. ASSUME GatewayInv, Out!DeliveredInOrder, NEW j \in DOMAIN delivered
        PROVE  IF \E i \in 1 .. j - 1 : delivered[i] = delivered[j] THEN outages > 0
               ELSE \A i \in 1 .. j - 1 : delivered[i] < delivered[j]
    <2>1. delivered \in Seq(Receptions) /\ Receptions \subseteq Int /\ outages \in Nat
      BY <1>1 DEF GatewayInv, Types, BrokerTypes, Session, Receptions
    <2>2. CASE \E i \in 1 .. j - 1 : delivered[i] = delivered[j]
      <3>1. PICK i \in 1 .. j - 1 : delivered[i] = delivered[j]
        BY <2>2
      <3>2. i \in DOMAIN delivered /\ i < j /\ delivered[j] \in Int
        <4>1. DOMAIN delivered = 1 .. Len(delivered) /\ Len(delivered) \in Nat
          BY <2>1
        <4>2. j \in 1 .. Len(delivered) /\ i \in 1 .. Len(delivered) /\ i < j
          BY <4>1
        <4>3. delivered[j] \in Receptions
          BY <2>1, <4>2, ElementOfSeq
        <4> QED
          BY <2>1, <4>1, <4>2, <4>3
      <3>3. outages # 0
        BY <3>1, <3>2, <1>1 DEF GatewayInv, Once
      <3> QED
        BY <2>1, <2>2, <3>3
    <2>3. CASE ~ \E i \in 1 .. j - 1 : delivered[i] = delivered[j]
      BY <1>1, <2>3 DEF Out!DeliveredInOrder
    <2> QED
      BY <2>2, <2>3
  <1>2. GatewayInv /\ Out!DeliveredInOrder => OrderKept
    BY <1>1 DEF OrderKept, GatewayInv, Trail
  <1> QED
    BY <1>2, GatewayInductive, ArrivalsInOrder, PTL
=============================================================================
