------------------------------ MODULE Gateway -------------------------------
(***************************************************************************)
(* The gateway (gateway/crates/gateway/src/main.rs): a reader thread and   *)
(* the HCI scan task, which records every frame of the node and hands the  *)
(* verified ones to MQTT and ntfy; the MQTT publish loop; the MQTT         *)
(* eventloop; and main, which starts and stops them.  They run in parallel *)
(* and share bounded channels, the database and the screen.                *)
(*                                                                         *)
(* The MQTT client library and the broker are external.  Of the library    *)
(* the model has what this code relies on: publish() waits for a place in  *)
(* a bounded channel of requests, only poll() takes requests out, and what *)
(* the broker did not acknowledge when a connection is lost is sent again  *)
(* in its order, or forgotten.                                             *)
(***************************************************************************)
EXTENDS EventStore, Sequences

CONSTANTS
    PktCap,        \* capacity of the channel from the reader thread (256)
    MqttCap,       \* capacity of the channel to the publish loop (128)
    RequestCap,    \* capacity of the MQTT client's request channel (64)
    Ring,          \* rows App keeps (100)
    Debounce,      \* NTFY_DEBOUNCE_SECS, in ticks
    Packets,       \* what the controller may report: sequences of report kinds
    GatewayFaults, \* the calls that may fail: "open", "read", "insert", "post"
    MaxPackets,    \* bound on the packets of a behaviour
    MaxOutages,    \* bound on the times the broker goes away
    MaxStarts      \* bound on the times the gateway is started

ASSUME CapAssumption == {PktCap, MqttCap, RequestCap, Ring} \subseteq Nat \ {0}
ASSUME DebounceAssumption == Debounce \in Nat
ASSUME GatewayFaultAssumption == GatewayFaults \subseteq {"open", "read", "insert", "post"}
ASSUME BoundAssumption == {MaxPackets, MaxOutages, MaxStarts} \subseteq Nat

\* A LIMA frame, by what verify_outer_sig() says of it.
FrameKinds == {"valid", "invalid"}

\* What one report of a packet is to the parser: from another address, cut short, from
\* the node but without the manufacturer data of a LIMA frame, or a frame.
ReportKinds == {"other", "truncated", "foreign"} \cup FrameKinds

ASSUME PacketAssumption == Packets \subseteq Seq(ReportKinds)

Fails(call) == IF call \in GatewayFaults THEN BOOLEAN ELSE {FALSE}

VARIABLES
    main_pc,       \* main(): "run", "offline" and "grace" while it stops, or "gone"
    reader,        \* the reader thread lives, and with it pkt_tx
    pkts,          \* the channel pkt_tx -> pkt_rx: [n, reports]
    scan_pc,       \* where hci_scan_task is: "recv", "insert", "publish", "push", "exited"
    rec,           \* its EventRecord: [id, n, verified]
    app,           \* App: [events, total_valid, total_invalid], events newest first
    mqtt_q,        \* the channel mqtt_tx -> rx of mqtt_task
    publishing,    \* the message in the publish loop's hands, if any
    requests,      \* the MQTT client's request channel
    resend,        \* what the library kept of a lost connection
    inflight,      \* what it sent on this one and is not acknowledged
    eventloop,     \* "poll", or "announce": in its publish() of "online"
    conn,          \* its connection: "down", "up", or "broken" and not yet noticed
    session,       \* the broker holds a connection of this gateway open
    health,        \* the retained message of lima/gateway/health
    delivered,     \* the receptions the broker got, in order
    quiet,         \* ticks until last_ntfy no longer debounces
    alerted,       \* receptions ntfy.sh was told of
    read,          \* packets read so far
    outages,
    starts,
    unrecorded     \* history: receptions whose insert failed

process == <<main_pc, starts>>
scan == <<reader, pkts, scan_pc, rec, read>>
library == <<resend, inflight>>
mqtt == <<mqtt_q, publishing, requests, library, eventloop>>
broker == <<conn, session, health, delivered, outages>>
ntfy == <<quiet, alerted>>
gatewayvars == <<process, scan, app, mqtt, broker, ntfy, store, unrecorded>>

Message(what, n) == [what |-> what, n |-> n]
Online == Message("online", 0)
Offline == Message("offline", 0)
Nothing == Message("nothing", 0)

Running == main_pc # "gone"
NoRecord == [id |-> 0, n |-> 0, verified |-> FALSE]
EmptyApp == [events |-> <<>>, total_valid |-> 0, total_invalid |-> 0]

----------------------------------------------------------------------------
(* The reader thread and the scan task.                                    *)

\* blocking_send() waits for a place in the channel.
reader_thread ==
    /\ Running /\ reader
    /\ Len(pkts) < PktCap /\ read < MaxPackets
    /\ \E p \in Packets : pkts' = Append(pkts, [n |-> read + 1, reports |-> p])
    /\ read' = read + 1
    /\ UNCHANGED <<process, reader, scan_pc, rec, app, mqtt, broker, ntfy, store, unrecorded>>

\* read() fails: the thread ends, and the channel closes behind its last packet.
reader_ends ==
    /\ Running /\ reader
    /\ TRUE \in Fails("read")
    /\ reader' = FALSE
    /\ UNCHANGED <<process, pkts, scan_pc, rec, read, app, mqtt, broker, ntfy, store, unrecorded>>

\* parse_ext_adv_report(): reports of other addresses are skipped, and the first other
\* one decides.
parse_ext_adv_report(reports) ==
    LET ours == SelectSeq(reports, LAMBDA kind : kind # "other")
    IN  IF ours # <<>> /\ Head(ours) \in FrameKinds THEN Head(ours) ELSE "none"

\* Seeded bug: a packet without a frame ends the loop.
receive_break ==
    /\ Running /\ scan_pc = "recv" /\ pkts # <<>>
    /\ pkts' = Tail(pkts)
    /\ LET kind == parse_ext_adv_report(Head(pkts).reports)
       IN  /\ scan_pc' = IF kind = "none" THEN "exited" ELSE "insert"
           /\ rec' = IF kind = "none" THEN rec
                     ELSE [id |-> 0, n |-> Head(pkts).n, verified |-> kind = "valid"]
    /\ UNCHANGED <<process, reader, read, app, mqtt, broker, ntfy, store, unrecorded>>

receive ==
    /\ Running /\ scan_pc = "recv" /\ pkts # <<>>
    /\ pkts' = Tail(pkts)
    /\ LET kind == parse_ext_adv_report(Head(pkts).reports)
       IN  /\ scan_pc' = IF kind = "none" THEN "recv" ELSE "insert"
           /\ rec' = IF kind = "none" THEN rec
                     ELSE [id |-> 0, n |-> Head(pkts).n, verified |-> kind = "valid"]
    /\ UNCHANGED <<process, reader, read, app, mqtt, broker, ntfy, store, unrecorded>>

scan_exits ==
    /\ Running /\ scan_pc = "recv" /\ pkts = <<>> /\ ~reader
    /\ scan_pc' = "exited"
    /\ UNCHANGED <<process, reader, pkts, rec, read, app, mqtt, broker, ntfy, store, unrecorded>>

\* Seeded bug: what is not verified is published too.
insert_unfiltered ==
    /\ Running /\ scan_pc = "insert"
    /\ scan_pc' = "publish"
    /\ \/ /\ db_insert(rec.n, rec.verified)
          /\ rec' = [rec EXCEPT !.id = insert_id]
          /\ UNCHANGED unrecorded
       \/ /\ TRUE \in Fails("insert")
          /\ unrecorded' = unrecorded \cup {rec.n}
          /\ UNCHANGED <<store, rec>>
    /\ UNCHANGED <<process, reader, pkts, read, app, mqtt, broker, ntfy>>

\* A failed insert is logged, and the frame goes on with id 0.
insert ==
    /\ Running /\ scan_pc = "insert"
    /\ scan_pc' = IF rec.verified THEN "publish" ELSE "push"
    /\ \/ /\ db_insert(rec.n, rec.verified)
          /\ rec' = [rec EXCEPT !.id = insert_id]
          /\ UNCHANGED unrecorded
       \/ /\ TRUE \in Fails("insert")
          /\ unrecorded' = unrecorded \cup {rec.n}
          /\ UNCHANGED <<store, rec>>
    /\ UNCHANGED <<process, reader, pkts, read, app, mqtt, broker, ntfy>>

\* The POST to ntfy.sh, spawned and never retried.
ntfy_notify(n) == \E lost \in Fails("post") : alerted' = IF lost THEN alerted ELSE alerted \cup {n}

\* try_send() drops the frame when the channel is full.  last_ntfy is set whether the POST
\* arrives or not.
publish ==
    /\ Running /\ scan_pc = "publish"
    /\ scan_pc' = "push"
    /\ mqtt_q' = IF Len(mqtt_q) < MqttCap THEN Append(mqtt_q, Message("frame", rec.n)) ELSE mqtt_q
    /\ \/ /\ quiet = 0
          /\ quiet' = Debounce
          /\ ntfy_notify(rec.n)
       \/ quiet > 0 /\ UNCHANGED ntfy
    /\ UNCHANGED <<process, reader, pkts, rec, read, app, publishing, requests, library,
                   eventloop, broker, store, unrecorded>>

Tallied(a, r, events) ==
    [events |-> events,
     total_valid |-> a.total_valid + (IF r.verified THEN 1 ELSE 0),
     total_invalid |-> a.total_invalid + (IF r.verified THEN 0 ELSE 1)]

Truncated(events) == IF Len(events) > Ring THEN SubSeq(events, 1, Ring) ELSE events

\* Seeded bugs: the newest record goes to the end that is cut off; nothing is cut off.
App_push_last(a, r) == Tallied(a, r, Truncated(Append(a.events, r)))
App_push_uncut(a, r) == Tallied(a, r, <<r>> \o a.events)

App_push(a, r) == Tallied(a, r, Truncated(<<r>> \o a.events))

push ==
    /\ Running /\ scan_pc = "push"
    /\ scan_pc' = "recv"
    /\ app' = App_push(app, rec)
    /\ UNCHANGED <<process, reader, pkts, rec, read, mqtt, broker, ntfy, store, unrecorded>>

debounce ==
    /\ Running /\ quiet > 0
    /\ quiet' = quiet - 1
    /\ UNCHANGED <<process, scan, app, mqtt, broker, alerted, store, unrecorded>>

----------------------------------------------------------------------------
(* mqtt_task: the publish loop, and the eventloop in a task of its own.    *)

publish_next ==
    /\ Running /\ publishing = Nothing /\ mqtt_q # <<>>
    /\ publishing' = Head(mqtt_q)
    /\ mqtt_q' = Tail(mqtt_q)
    /\ UNCHANGED <<process, scan, app, requests, library, eventloop, broker, ntfy, store,
                   unrecorded>>

\* Seeded bug: the loop keeps a frame it has handed over.
client_publish_again ==
    /\ Running /\ publishing # Nothing /\ Len(requests) < RequestCap
    /\ requests' = Append(requests, publishing)
    /\ UNCHANGED <<process, scan, app, mqtt_q, publishing, library, eventloop, broker, ntfy, store,
                   unrecorded>>

client_publish ==
    /\ Running /\ publishing # Nothing /\ Len(requests) < RequestCap
    /\ requests' = Append(requests, publishing)
    /\ publishing' = Nothing
    /\ UNCHANGED <<process, scan, app, mqtt_q, library, eventloop, broker, ntfy, store, unrecorded>>

\* Seeded bug: there is no PUBLISH_TIMEOUT.
publish_timeout_none == FALSE /\ UNCHANGED gatewayvars

\* PUBLISH_TIMEOUT passes while the request channel stays full: the frame is given up.
publish_timeout ==
    /\ Running /\ publishing # Nothing /\ Len(requests) = RequestCap
    /\ publishing' = Nothing
    /\ UNCHANGED <<process, scan, app, mqtt_q, requests, library, eventloop, broker, ntfy, store,
                   unrecorded>>

\* A connection taken up anew replaces one the broker still holds open, whose last will
\* it publishes first.
connect ==
    /\ Running /\ eventloop = "poll" /\ conn = "down"
    /\ conn' = "up" /\ session' = TRUE
    /\ health' = IF session THEN "offline" ELSE health
    /\ eventloop' = "announce"
    /\ UNCHANGED <<process, scan, app, mqtt_q, publishing, requests, library, delivered, outages,
                   ntfy, store, unrecorded>>

\* The ConnAck handler publishes "online" from within the eventloop's own task.
announce ==
    /\ Running /\ eventloop = "announce" /\ Len(requests) < RequestCap
    /\ requests' = Append(requests, Online)
    /\ eventloop' = "poll"
    /\ UNCHANGED <<process, scan, app, mqtt_q, publishing, library, broker, ntfy, store, unrecorded>>

\* poll() sends, first what is left of a lost connection.  On a connection that broke and
\* was not yet found broken, the message goes nowhere.
poll_request ==
    /\ Running /\ eventloop = "poll" /\ conn # "down" /\ resend \o requests # <<>>
    /\ resend' = IF resend = <<>> THEN resend ELSE Tail(resend)
    /\ requests' = IF resend = <<>> THEN Tail(requests) ELSE requests
    /\ LET m == Head(resend \o requests)
       IN  /\ inflight' = Append(inflight, m)
           /\ delivered' = IF conn = "up" /\ m.what = "frame" THEN Append(delivered, m.n)
                                                            ELSE delivered
           /\ health' = IF conn = "up" /\ m.what # "frame" THEN m.what ELSE health
    /\ UNCHANGED <<process, scan, app, mqtt_q, publishing, eventloop, conn, session, outages,
                   ntfy, store, unrecorded>>

poll_ack ==
    /\ Running /\ eventloop = "poll" /\ conn = "up" /\ inflight # <<>>
    /\ inflight' = Tail(inflight)
    /\ UNCHANGED <<process, scan, app, mqtt_q, publishing, requests, resend, eventloop, broker,
                   ntfy, store, unrecorded>>

\* poll() finds the connection gone.  Whether what was not acknowledged survives is the
\* library's affair, and so is where the requests in the channel wait.
poll_error ==
    /\ Running /\ eventloop = "poll" /\ conn = "broken"
    /\ conn' = "down" /\ inflight' = <<>>
    /\ \E kept, drained \in BOOLEAN :
         /\ requests' = IF drained THEN <<>> ELSE requests
         /\ resend' = IF kept THEN inflight \o resend \o (IF drained THEN requests ELSE <<>>)
                              ELSE <<>>
    /\ UNCHANGED <<process, scan, app, mqtt_q, publishing, eventloop, session, health, delivered,
                   outages, ntfy, store, unrecorded>>

----------------------------------------------------------------------------
(* The broker, as far as the gateway can tell.                             *)

outage ==
    /\ conn = "up" /\ outages < MaxOutages
    /\ conn' = "broken" /\ outages' = outages + 1
    /\ UNCHANGED <<process, scan, app, mqtt, session, health, delivered, ntfy, store, unrecorded>>

\* Seeded bug: no last will is set.
broker_drops_unwilled ==
    /\ session /\ (conn # "up" \/ ~Running)
    /\ session' = FALSE
    /\ UNCHANGED <<process, scan, app, mqtt, conn, health, delivered, outages, ntfy, store,
                   unrecorded>>

\* The broker misses the gateway and publishes its last will.
broker_drops ==
    /\ session /\ (conn # "up" \/ ~Running)
    /\ session' = FALSE /\ health' = "offline"
    /\ UNCHANGED <<process, scan, app, mqtt, conn, delivered, outages, ntfy, store, unrecorded>>

----------------------------------------------------------------------------
(* main().                                                                 *)

\* SIGTERM, SIGINT or 'q'.
stop ==
    /\ main_pc = "run"
    /\ main_pc' = "offline"
    /\ UNCHANGED <<starts, scan, app, mqtt, broker, ntfy, store, unrecorded>>

\* send() waits for a place in the channel.
send_offline ==
    /\ main_pc = "offline" /\ Len(mqtt_q) < MqttCap
    /\ mqtt_q' = Append(mqtt_q, Offline)
    /\ main_pc' = "grace"
    /\ UNCHANGED <<starts, scan, app, publishing, requests, library, eventloop, broker, ntfy,
                   store, unrecorded>>

\* The process ends, 300 ms after that or of a crash, and what it held is lost.
end_process ==
    /\ main_pc' = "gone"
    /\ reader' = FALSE /\ pkts' = <<>> /\ scan_pc' = "exited" /\ rec' = NoRecord
    /\ app' = EmptyApp
    /\ mqtt_q' = <<>> /\ publishing' = Nothing /\ requests' = <<>> /\ eventloop' = "poll"
    /\ resend' = <<>> /\ inflight' = <<>>
    /\ conn' = "down" /\ quiet' = 0
    /\ UNCHANGED <<starts, read, session, health, delivered, outages, alerted, store, unrecorded>>

exit == main_pc = "grace" /\ end_process

\* Also when drawing or reading a key fails: main() returns without "offline".
crash == main_pc \in {"run", "offline"} /\ end_process

\* Without the adapter the scan task returns at once; main() goes on.
hci_open_raw ==
    \E shut \in Fails("open") :
      /\ reader' = ~shut
      /\ scan_pc' = IF shut THEN "exited" ELSE "recv"

\* systemd starts it again; by then (RestartSec) the broker has seen the old connection
\* close.
start ==
    /\ ~Running /\ ~session /\ starts < MaxStarts
    /\ main_pc' = "run" /\ starts' = starts + 1
    /\ hci_open_raw
    /\ UNCHANGED <<pkts, rec, read, app, mqtt, broker, ntfy, store, unrecorded>>

----------------------------------------------------------------------------

GatewayInit ==
    /\ main_pc = "gone" /\ starts = 0
    /\ reader = FALSE /\ pkts = <<>> /\ scan_pc = "exited" /\ rec = NoRecord /\ read = 0
    /\ app = EmptyApp
    /\ mqtt_q = <<>> /\ publishing = Nothing /\ requests = <<>> /\ eventloop = "poll"
    /\ resend = <<>> /\ inflight = <<>>
    /\ conn = "down" /\ session = FALSE /\ health = "none" /\ delivered = <<>> /\ outages = 0
    /\ quiet = 0 /\ alerted = {}
    /\ unrecorded = {}
    /\ StoreInit

hci_scan_task == receive \/ scan_exits \/ insert \/ publish \/ push
publish_loop == publish_next \/ client_publish \/ publish_timeout
connected_loop == announce \/ poll_request \/ poll_ack \/ poll_error
event_loop == connect \/ connected_loop

GatewayNext ==
    \/ reader_thread \/ reader_ends \/ hci_scan_task \/ debounce
    \/ publish_loop \/ event_loop \/ outage \/ broker_drops
    \/ stop \/ send_offline \/ exit \/ crash \/ start

GatewaySpec == GatewayInit /\ [][GatewayNext]_gatewayvars

\* Every task that can go on does: the runtime polls each task that is ready, and main,
\* once it stops, is one of them.  What the radio brings, outages and their end, stops,
\* crashes and starts are never owed.
GatewayFairSpec ==
    /\ GatewaySpec
    /\ WF_gatewayvars(hci_scan_task)
    /\ WF_gatewayvars(publish_loop)
    /\ WF_gatewayvars(connected_loop)
    /\ WF_gatewayvars(send_offline \/ exit)
    /\ WF_gatewayvars(broker_drops)

----------------------------------------------------------------------------
(* Properties.                                                             *)

Receptions == 1 .. MaxPackets
Records == [id : Nat, n : 0 .. MaxPackets, verified : BOOLEAN]
Messages == {Online, Offline} \cup {Message("frame", n) : n \in Receptions}

\* Every variable keeps to its values, and every channel to its capacity.
GatewayTypeOK ==
    /\ main_pc \in {"run", "offline", "grace", "gone"} /\ starts \in 0 .. MaxStarts
    /\ reader \in BOOLEAN /\ read \in 0 .. MaxPackets
    /\ pkts \in Seq([n : Receptions, reports : Packets]) /\ Len(pkts) <= PktCap
    /\ scan_pc \in {"recv", "insert", "publish", "push", "exited"} /\ rec \in Records
    /\ app.events \in Seq(Records) /\ Len(app.events) <= Ring
    /\ app.total_valid \in Nat /\ app.total_invalid \in Nat
    /\ mqtt_q \in Seq(Messages) /\ Len(mqtt_q) <= MqttCap
    /\ requests \in Seq(Messages) /\ Len(requests) <= RequestCap
    /\ resend \in Seq(Messages) /\ inflight \in Seq(Messages)
    /\ publishing \in Messages \cup {Nothing} /\ eventloop \in {"poll", "announce"}
    /\ conn \in {"down", "up", "broken"} /\ session \in BOOLEAN
    /\ health \in {"none", "online", "offline"} /\ delivered \in Seq(Receptions)
    /\ quiet \in 0 .. Debounce /\ alerted \subseteq Receptions
    /\ rows \subseteq [id : Nat, n : Receptions, verified : BOOLEAN, acked : BOOLEAN]
    /\ sqlite_sequence \in Nat /\ unrecorded \subseteq Receptions

Frames(q) == {q[i].n : i \in {j \in DOMAIN q : q[j].what = "frame"}}
Published ==
    Frames(mqtt_q) \cup Frames(<<publishing>>) \cup Frames(requests \o resend \o inflight)
      \cup {delivered[i] : i \in DOMAIN delivered} \cup alerted

\* "SQLite written first" (README:149): whatever went towards MQTT or ntfy was recorded
\* before, once and as verified, unless its insert failed.  A frame whose signature is
\* wrong stays in the trail (mosquitto.md:48-49).
PublishedIsRecorded ==
    \A n \in Published \ unrecorded :
      Cardinality({r \in rows : r.n = n}) = 1 /\ (\E r \in rows : r.n = n /\ r.verified)

\* Receptions keep their order in the trail, and reach the broker in that order through
\* both MQTT channels, across outages, timeouts and restarts.  Only a lost connection
\* makes the broker get one again.
OrderKept ==
    LET again(j) == \E i \in 1 .. j - 1 : delivered[i] = delivered[j]
    IN  /\ \A r, s \in rows : r.id < s.id => r.n < s.n
        /\ \A j \in DOMAIN delivered :
             IF again(j) THEN outages > 0 ELSE \A i \in 1 .. j - 1 : delivered[i] < delivered[j]

Out == INSTANCE Outbox WITH
    pending <- Frames(mqtt_q \o <<publishing>> \o requests \o resend),
    unacked <- Frames(inflight),
    connected <- conn = "up"

\* Both MQTT channels, the two tasks and the client library's queues implement one outbox,
\* whatever is full, times out, breaks or crashes: frames arrive in the order of their
\* receptions, and once, except for those a lost connection left unacknowledged.
ImplementsOutbox == Out!OutboxSpec

\* Between two receptions the screen is the end of the trail, newest first: from its
\* oldest row on, nothing recorded is missing and nothing is out of order.
ScreenIsTrailTail ==
    LET events == app.events
        Shown == {events[i].n : i \in DOMAIN events}
    IN  /\ \A i, j \in DOMAIN events : i < j => events[i].n > events[j].n
        /\ (scan_pc = "recv" /\ events # <<>>)
             => \A r \in rows : r.n >= events[Len(events)].n => r.n \in Shown

\* Once the broker has dropped the gateway's connection the retained health message no
\* longer says "online", however the process ended and whichever of its own "online" and
\* "offline" messages came last.
HealthTellsLoss == ~session => health # "online"

\* A gateway told to stop does stop, even if the queue it has to pass is full and the
\* broker is away.
EveryStopCompletes == (main_pc = "offline") ~> (main_pc = "gone")

\* A frame that was read is handled, whatever state MQTT is in: publishing never holds up
\* the audit trail.
Waiting(n) == \E i \in DOMAIN pkts : pkts[i].n = n /\ parse_ext_adv_report(pkts[i].reports) # "none"
Handled(n) == n \in unrecorded \/ \E r \in rows : r.n = n
ScanKeepsUp == \A n \in Receptions : Waiting(n) ~> (Handled(n) \/ ~Running)

\* The eventloop "handles reconnection internally" (main.rs:425), and events "survive
\* gateway internet outages, delivered on reconnect" (README:150): its task gets past
\* announcing a new connection and back to poll().
EventloopGoesOn == (eventloop = "announce") ~> (eventloop = "poll")

=============================================================================
