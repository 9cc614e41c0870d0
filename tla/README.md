# LIMA: a TLA+ verification project

LIMA is a battery-powered tamper and motion sensor (Zephyr firmware on an nRF52840), a Raspberry
Pi gateway that receives its Bluetooth advertisements, and a terminal client for the operator.
This directory models the parts of it whose correctness depends on order, time, failure,
concurrency or an agreement on bytes, checks them with TLC, and proves what TLC can only show for
small instances: every invariant, action property and refinement that a passing run checks is a
theorem for all values of the constants. Only liveness is model-checked alone. Paths below are relative to the repository; line numbers are
those of the commit the models were written from.

## 1. The system

| Component | State it keeps | Operations | Model |
|---|---|---|---|
| Node state machine, `firmware/src/fsm.c` | `current_state`, `fsm.last_event`, `last_lf`, `fault_retries`, four delayable works | `fsm_dispatch` and one enter/handle/exit per state | `NodeFsm` |
| Threads and queue, `main.c` | `fsm_msgq` (16 messages), the sensor thread's place in its cycle | `lima_post_event`, `fsm_thread_fn`, `sensor_thread_fn`, `main` | `NodeFsm` |
| BLE advertiser, `ble.c` | advertiser on or off, stop work, callback, `lf_buf` | `lima_ble_advertise`, `adv_stop_fn` | `NodeFsm` |
| Node crypto, `crypto.c` | `sequence_counter`, two PSA keys in flash | provisioning, build, sign, encrypt | `FramePath`, `Wire`; in `NodeFsm` calls that succeed or fail |
| Node clock, `rtc.c` | DS3231, epoch in NVS, `boot_epoch`, `rtc_valid`, flush work, alarm | `lima_rtc_init`, set, get, flush, arm | `RtcEpoch`; arming in `NodeFsm` |
| Gateway, `gateway/crates/gateway/src/main.rs` | three bounded channels, `App` (100 rows), debounce | reader thread, HCI scan task, publish loop, MQTT eventloop, `main` | `Gateway` |
| Gateway's parser, `parse_ext_adv_report`, `parse_ad_manufacturer` of `main.rs` | positions in a packet | one packet of the controller | `HciParse`, `FramePath` |
| Shared frame types, `gateway/crates/lima-types` | none | records and frames from and to bytes | `Wire` |
| Crypto test tool, `gateway/crates/crypto-test` | none | one round trip of a record | `Wire` |
| Event table, SQLite | rows, AUTOINCREMENT counter | insert, poll, acknowledge, delete | `EventStore` |
| Client, `client/src` | cursor, list, selection, errors | keys, poll, open | `Client` |
| Client decryption, `client/src/crypto.rs` | none (the PSK typed in) | rebuild, decrypt and parse a stored row | `Wire`, `FramePath`; in `Client` it succeeds or fails |

How they interact:

- The FSM thread takes one message at a time from `fsm_msgq`. The sensor thread, the system
  workqueue (timers, advertiser stop), the RTC interrupt, `main()` and the FSM itself put messages
  in with `K_NO_WAIT`, and none of them looks at the result.
- Entry functions call crypto, BLE and RTC synchronously. Each of these calls blocks the FSM thread
  and lets the sensor thread run; completions come back as messages.
- The node broadcasts; nothing acknowledges. The gateway's reader thread passes HCI packets to the
  scan task, which inserts a row, hands verified frames to the publish loop (`try_send`) and to a
  spawned ntfy POST, and updates the screen. The publish loop waits for a place in the request
  channel of the MQTT library, which only the eventloop task drains.
- The gateway and any number of clients share the SQLite file. A statement is a transaction.

Where it is hard:

- *Node:* messages that outlive the timer or operation that posted them; states without a timeout
  of their own (SIGNING, FAULT, DEEP_SLEEP); every blocking call as a point where others run; each
  call failing; a full queue; a boot that leaves keys, BLE or clock unusable.
- *Clock:* power failing between any two of the writes of `lima_rtc_init`; a chip that stopped, was
  exchanged, or cannot be read; three sources of time that may disagree.
- *Gateway:* five concurrent activities and three bounded channels; a broker that goes away; a
  stop or crash at any point; failing inserts and posts.
- *Frames:* five programs with a byte layout each of their own; a parser that walks lengths a
  stranger may have sent; keys generated once, at a boot that may lose power.
- *Client:* several programs deleting from one table that each follows with a cursor.

What makes each correct is in section 3, next to the model. The hazards, each at its line, with the
properties that would catch it going wrong, are in `PROJECT.json`.

## 2. Modules

    NodeFsm        state machine, queue, threads, timers, advertiser, blocking calls
    NodeFsmProofs  inductive invariant, no dead end, what is on the air, stale completions,
                   a queue depth that is enough                           (EXTENDS NodeFsm)
    RtcEpoch       wall-clock time across power cycles
    RtcEpochProofs inductive invariant and the safety properties          (EXTENDS RtcEpoch)
    EventStore     the table of events: operators only, used by the next ones
    Gateway        the gateway's tasks                                    (EXTENDS EventStore)
    GatewayProofs  inductive invariant, all safety properties, Outbox     (EXTENDS Gateway)
    Outbox         abstract: what the way to the broker promises          (Gateway implements it)
    OutboxProofs   frames arrive in order in every outbox                 (EXTENDS Outbox)
    Client         several clients and an inserting gateway               (EXTENDS EventStore)
    ClientProofs   inductive invariant and all properties of Client       (EXTENDS Client)
    Wire           the byte layouts of all programs: operators only
    WireProofs     the layouts agree, for every record and frame          (EXTENDS Wire)
    HciParse       the gateway's parser, one step per loop iteration
    HciParseProofs no packet makes the parser read beyond its end         (EXTENDS HciParse)
    FramePath      sensors to screen: node keys, frames, packets, parser, table, client
                                                    (EXTENDS HciParse, Wire, EventStore)
    FramePathProofs  inductive invariant, all properties, AuditTrail
                                              (EXTENDS FramePath, HciParseProofs, WireProofs)
    AuditTrail     abstract: what the whole system keeps                  (FramePath implements it)
    MC*            constants of the TLC instances, and a view

Conventions. Actions and helpers have the name of the function they translate. "Seeded bug"
operators stand just before the definition they alter and are used by no specification; they
document what each property rules out (`mutants` in `PROJECT.json` pairs them). A variable marked
"history" is never read by a guard. Each module's constants carry named assumptions as weak as the
code allows.

## 3. The models and what is checked

### NodeFsm

One step is what the processor does without giving way. A dispatched message is handled with all
its nested transitions up to a blocking call; `fsm_pc` says where the FSM thread waits: `init`
(before `fsm_init`), `idle` (in `k_msgq_get`), `signing`, `advertising`, `arming`. EVENT_DETECTED is
entered and left within one step (`fsm.c:334-344` goes straight on to SIGNING), so `Accept` stands
for both. The exit and entry functions are the tables `ExitCancels`, `EntrySchedules`,
`EntryPosts` and `EntryBlocks`, used by the one operator `Transition`.

- *Queue.* A sequence of at most `QueueDepth` messages. `Post` drops on a full queue and sets the
  history variable `lost`. The flag `live` of a message is history: it is cleared when the timer
  that posted it is cancelled or restarted, or the operation it completes begins anew.
- *Timers.* `timer[t]` counts ticks to expiry; an expired timer is in `due` until its callback
  runs. `k_work_schedule` on a work whose callback waits leaves that callback waiting,
  `k_work_cancel_delayable` removes it; neither recalls a message already posted.
- *Time.* `Tick` is possible only when every thread waits. Delays keep their order
  (0.5 s < 5 s = 5 s < 10 s < 24 h), not their ratio. `TimingAssumption` names the one relation the
  proof and the runs need.
- *Priorities.* The sensor thread (6) runs while the FSM thread (5) waits for a message or is
  inside a blocking call. Work callbacks, which are cooperative, run between any two steps.
- *Sensors.* A poll reads the state once (`sensor_read_state`) and posts up to two messages
  later, from whatever state the node is in by then.
- *Faults.* `Faults` names the calls that may fail at any time; `boot` says what initialisation
  left behind. `EnvEvents` are events the interface accepts but no code of this firmware posts
  yet (battery, tamper after boot, sensor fault).

| Property | Says |
|---|---|
| `TypeOK` | types; the counter stays in the 32 bits of its field; the queue in its depth |
| `NoDeadEnd` | while no message was lost, whatever ends the current state is queued or timed |
| `FrameOnAir` | on the air there is only the frame of the event being transmitted, under the sequence number last issued, and only in TRANSMITTING |
| `NoEventLost` | no producer ever meets a full queue (three entries suffice for the firmware's delays, nine for any; the code has 16) |
| `StaleCompletionsInert` | no completion, cooldown or timeout of an earlier round ends a later one |
| `AlwaysRearms` | the node always comes back to ARMED |
| `AcceptedGoesOnAir` | an accepted breach is transmitted, or the attempt ends in FAULT |

Runs. `node_firmware` has the firmware's own producers, all 24 boot outcomes and transient faults
of five calls, with the code's three retries and the smallest queue for which `NoEventLost` holds;
it checks invariants and both liveness properties. `node_api` opens the interface to `EnvEvents`
and lets every call fail, with a queue short enough to overflow and delays as short as their
order allows. `ControlView` leaves out `last_event`, `sequence_counter`, `last_lf` and `adv.buf`:
they are copied but occur in no guard, and neither property of that run mentions them, so states
equal under the view have the same behaviours as far as the run looks. `SeqMod` 2 or 3 makes the
counter wrap.

*Exclusions.* `NoDeadEnd` does not speak of LOW_BATTERY, which only an outside event ends, nor of
DEEP_SLEEP when a clock read may fail: `lima_rtc_arm_wakeup` then computes an alarm from a zero
time (`rtc.c:468`), and nothing in the repository says what should follow. It is an observation
in section 6.

*Fairness* (`FairSpec`). The FSM thread, the sensor thread once it began a poll, and the callbacks
run when they can (weak fairness): a preemptive priority scheduler owes exactly that, since none of
them spins. `Tick` has strong fairness, because sensor polls and messages keep interrupting the
moments in which the clock may move, but the processor keeps coming to rest: a poll takes
milliseconds of its 60 ms period. Starting a poll, a post from outside and any particular outcome
of a failing call are owed nothing.

### RtcEpoch

`lima_rtc_init` write by write, so that power may fail between any two: `PowerOn` (the copy of the
stored epoch), the two writes of force-provisioning, reading status and time, choosing a source
(`from_hardware`, `from_nvs`, `from_kconfig`, `from_nothing`), the final store. A running node
counts time, flushes every `FlushInterval` and before deep sleep. `ClockDisturbed` stands for the
backup battery and for an exchanged chip. `PowerOn` may fail to copy the stored epoch (fault
`nvs_read`): `rtc.c` looks at the result neither of loading it (`rtc.c:304`) nor of reading it
(`rtc.c:72`), and the boot then takes the store for one that was never written, which skips the skew
check as well. Origins (`set`, `kconfig`, `stopped`, `stray`, `uptime`)
are history: where a time comes from.

| Property | Says |
|---|---|
| `StoredEpochFresh` | as long as writes to the store succeed, a power loss costs at most one flush interval (`rtc.h:64-66`) |
| `ClockNeverFallsBack` | as long as a boot can read the DS3231 or the store, whatever else fails, the clock never falls back further than that behind what it showed while the two agreed; a boot that can read neither starts from the baked-in time or from none, as documented (`rtc.h:43`, `rtc.h:84`), and what was shown before is forgotten |
| `SkewHasReason` | a short outage alone never looks like tampering |

The run `rtc` has three builds (plain, with a provisioning time, forced) which may change at every
boot, every call failing (the driver, reading and clearing the flag, reading and writing the time,
loading the store, storing), disturbed clocks before and after every time reached, and a total of four time units with
a flush interval of two and a skew threshold of three: enough for a node to pass a flush, be off for
longer than the threshold, boot with a failure, and fall back. `MaxAge` is the only bound.

Three history variables say what the properties hold the clock to. `agreed`: the last successful
store stored the time the DS3231 had, and the DS3231 was neither written nor disturbed since.
`saved`: the last attempt to store succeeded. `shown`: the latest time shown while `agreed` and the
store no older than an interval (`Accountable`); a failed store does not forgive what was shown
before it; a disturbance, a provisioning and a boot that could read neither of the two start anew
(`NeitherRead`).

### EventStore and Gateway

`EventStore` has the table as a set of rows and the AUTOINCREMENT counter, each statement one
operator. That `poll_new_frames` skips a row whose columns are no hex (`client/src/db.rs:90-105`) is left
out: the gateway writes only what `hex::encode` made (`main.rs:831`).

`Gateway` has the reader thread, the scan task in its steps (`receive`, `insert`,
`publish`, `push`), the publish loop with its five-second timeout, the eventloop with connecting,
announcing, draining and losing its connection, SIGTERM with its 300 ms of grace, a crash, and
systemd's restart. A packet is a sequence of report kinds; `parse_ext_adv_report` keeps the code's
early return: the first report of the node decides, whatever follows.

External, modelled from how the code uses them: the MQTT library (`publish()` waits for room in a
bounded channel and only `poll()` takes from it; messages are sent with "at least once", so what was
not acknowledged when a connection is lost is sent again in its order, or forgotten with the
session; both are left open) and the broker (outages, before and after which a message may be lost;
the last will it publishes when a connection ends or is taken over). That the library keeps the
order of what it sends again is an assumption of `OrderKept`.

| Property | Says |
|---|---|
| `PublishedIsRecorded` | what went to MQTT or ntfy was inserted before, once, as verified, unless its insert failed ("SQLite written first", `README.md:149`; that a failed insert does not hold the frame back is in section 6) |
| `OrderKept` | trail and first deliveries are in the order of reception across outages, timeouts and restarts, and only a lost connection delivers a frame again |
| `ScreenIsTrailTail` | the screen shows the newest end of the trail without gaps |
| `HealthTellsLoss` | once the broker dropped the gateway, the retained health message does not say "online", in whatever order "online" and "offline" raced |
| `ImplementsOutbox` | both MQTT channels, publish loop, eventloop and library together implement `Outbox` |
| `EveryStopCompletes` | a stop completes though the queue is full and the broker away |
| `ScanKeepsUp` | every frame read is handled, whatever the reader, the other tasks and stops do; the scan never waits for MQTT (`try_send`) |

`Outbox` is what the publish loop, its timeout, the two channels, the eventloop and the library are
for, with none of them in it: frames numbered by reception, put in and sent by number, given up at
any time before they are sent; a lost connection may send again what was not acknowledged. The
refinement mapping collects the frames of both channels, of the publish loop's hands and of what
the library kept into `pending`, and those sent on this connection into `unacked`. What an outbox
delivers is in order (`OutboxProofs`), so a change of the tasks that still implements it is too.

The run `gateway` has every failing call, one outage and two lives of the gateway with two packets
and capacities of one, so that each channel is full after one message; `gateway_tasks` one life with
three packets, so that all channels are full at once around an outage (one frame in the publish
loop's hands, one in each channel). A restart waits until the broker dropped the old connection
(`RestartSec=5` of the service).

*Fairness* (`GatewayFairSpec`). The scan task, the publish loop, a connected eventloop and a main that is
stopping go on when they can: the tokio runtime polls every ready task, and each is a task or
thread of its own. For the publish loop the alternatives are one disjunction, so a full request
channel ends in `publish_timeout`. Nothing is owed by the radio, the broker's availability,
signals or systemd; the broker does notice a dead connection (keep-alive).

### Client

A client's loop is one thread: a key, then a poll. Statements meet the other clients' and the
gateway's between these steps. The poll takes all new rows in one step, in the order `Ordered` of their ids;
decryption sorts each row into list or errors, either way. A failed statement leaves the program through `?`.

| Property | Says |
|---|---|
| `NoRowMissed` | no verified row behind the cursor was passed unseen, whatever was deleted (this is what AUTOINCREMENT is for) |
| `ListFollowsTable` | the list is exactly what was polled, decrypted and not deleted here, once each, in order |
| `SelectionOnScreen` | the selection is inside the list whenever there is something in it |
| `AcknowledgedIsStored` | what is shown as acknowledged is so in the table, unless deleted |

The run `client` has two interchangeable clients, three rows and three openings: two programs
racing on one row, a third row inserted after a deletion, and a client opened again. Symmetry is
sound: no definition or property tells the clients apart, and the run checks no liveness.

### Wire, HciParse and FramePath

`Wire` has every layout as its own program has it: the packed structs of `crypto.h`, the offsets of
`lima-types`, of `crypto-test`, of the gateway's signature check and of the client's decryption. A
number below 256 is that byte. What a node draws at random, encrypts or signs has numbers of its own
(`Secret(f, k)`, byte k of frame f), and the ciphers are ideal: a decryption or verification
succeeds for exactly what was encrypted or signed, under the same key, with every byte in its place.
An offset that is wrong by one in any of the programs, or a header that is put back wrongly, is
then a failure, as it is in the code.

`HciParse` is `parse_ext_adv_report` and `parse_ad_manufacturer` with one action per loop iteration
and early return. `touched` is history: the end of the furthest byte read. On its own it is handed
any packet at all; that is what is proved about. In `FramePath` it is handed what the radio brings.

`FramePath` composes them with the node's crypto and the table. The node provisions its keys write by
write, at every boot, with any call failing and power lost between any two; the public key is logged
at every boot, the PSK by the boot that generates it. A frame is put in a packet behind other
devices' reports, the node's own reports without a frame and other AD structures, and arrives whole, cut
off or with a byte damaged: once, several times or never, in order or behind newer ones, for a frame is
bytes on the air and any radio may send them, then or later. The gateway is built with the node's
public key or another; the client is started with the PSK, another or no valid one.

The layout of a report is external. `Report` has it as Bluetooth controllers send it (Core
specification 5.4, Vol 4 Part E, 7.7.65.13: address at 3, RSSI at 13), which is also where
`parse_ext_adv_report` reads it. The comment at `main.rs:671-684` and the packets of the unit tests
(`main.rs:1087-1112`) have another layout, with the address at 17 and RSSI at 6; section 6 has what
follows.

| Property | Says |
|---|---|
| `PathTypeOK` | types; the node uses only keys that are in flash |
| `ParserInBounds` | no packet makes the parser read beyond its end |
| `ParserFindsFrame` | of a whole packet the parser gives back nothing but the frame of a report of the node that matches (its address, and the company id in the first manufacturer data with room for one), byte by byte; and if the node's reports all match it does find it, at whatever offset. Packets in which some of the node's reports match and others do not are left open, because the code and the comment above it differ on them (section 6) |
| `IntactFrameCounts` | a frame found in a whole packet verifies, decrypts to the record that was signed, and shows its own fingerprint |
| `TypesMirrorFirmware` | `lima-types` reads and writes what the firmware wrote; `crypto-test` passes for it |
| `TrailReadable` | with the PSK that was logged no verified row ends as an error, whatever boots and failures |
| `ImplementsAudit` | whatever arrives, again, late or damaged, the path implements `AuditTrail`: verified rows hold, unaltered, what the node signed; the operator sees the trail as it is or nothing of it |

`AuditTrail` has no bytes, keys or packets: records are signed, trailed and shown. It says what may
happen to a record (lost, trailed again, late, behind newer ones) and what may not (made up, altered,
mixed up with another, shown without standing in the trail). It does not say that a record is trailed
once or in the order of its sequence number, although the documents do: the gateway keeps no number
to compare with (section 6).

*Bounds.* Two boots, two events of two kinds, two recorded receptions, one client, one spoilt packet
of one shape (`Fragile`), damaged or cut at chosen places (`DamageAt`, `CutAt`: a length, the address,
the event type, the end of the signature; a byte that is not plain may read as any of `Noise`). Two
frames and two receptions are what a mix-up, an overtaking and a duplicate need, and all of them occur; two boots
are what a lost or regenerated key needs. The last boot of a behaviour does not lose power. `Quiet`: the rest does
nothing while a packet is parsed, because the packet is a copy no one else touches. The wrap of the
sequence number is `NodeFsm`'s. Nothing is owed: a frame may be missed for ever, so there is no
liveness here.

## 4. What is proved

### Node state machine

`NodeFsmProofs` holds for every queue depth, retry limit, counter width, assignment of delays with
`TimingAssumption`, set of events from outside, set of failing calls and set of boot outcomes.

- `Inductive`: `Spec => []IInv`
- `TypeCorrect`: `Spec => []TypeOK`
- `NeverDeadEnd`: `Spec => []NoDeadEnd`

`NoDeadEnd` is not inductive, for three reasons, and the strengthening
`IInv == TypeOK /\ Coherent /\ Underway /\ NoDeadEnd` answers each:

- It speaks of an idle thread only. A thread inside a blocking call must be in the state that makes
  that call, or the call's outcome would not be the exit of the state (`Coherent`).
- FAULT with its retries used up posts ERROR, which nothing handles. It is never entered with a
  counter other than zero, since every way out resets it (`Coherent`). The same fact is the reason
  for the finding on the retry limit.
- LIGHT_SLEEP has no timer of its own and lives on the inactivity timer started in ARMED; a
  transmission relies on a timeout scheduled before its HCI commands run (`Underway`).

The argument: `PostFacts`, `RetireFacts`, `TailFacts` say what happens to a queue, `SetTimersFacts`
to the timers, `TransitionFacts` combines them; `EnterStep` and `KeepStep` then derive the invariant
for a step that enters a state or stays in one; there is one lemma for each action.

On rounds of an event, under the same assumptions:

- `FrameInductive`: `Spec => [](IInv /\ FrameInv)`
- `AirAlwaysCurrent`: `Spec => []FrameOnAir`, if `bt_le_ext_adv_stop()` does not fail
- `StaleAlwaysInert`: `Spec => StaleCompletionsInert`, whatever fails

Both say that one round's messages do not reach into the next, although `transition()` recalls none of
them. `FrameInv` has the reasons, and they are about order in the queue:

- `Transmission`: a transmission is ended by one message. The clock moves only when no expired work is
  left and an advertisement is shorter than its timeout (`TimingAssumption`), so the advertisement's
  end is in the queue before the timeout can expire, and taking it cancels the timeout.
- `Signed`: there is one SIGNING_COMPLETE at most. A sensor fault may leave one queued, and then it is
  ahead of the RECOVERY_SUCCESS that leads out of FAULT.
- `Cooling`: a tamper event may leave COOLDOWN with COOLDOWN_EXPIRED queued. It is ahead of the
  SIGNING_COMPLETE of the event that left, so it is gone before the next COOLDOWN.
- `Carried`: the kept frame is that of the event at hand once it is signed; an advertisement with its
  callback outstanding has it in its buffer. A failed stop may leave an advertisement without a
  callback on the air: that is the one fault `AirAlwaysCurrent` excludes, as the run does.

`RetireOrder`, `TailOrder` and `PostOrder` say what the queue operations keep of that order;
`EnterFrame` is the step into any state, and `RestOrder` what a handler may rely on.

On the queue there is `QueueAlwaysEnough`: with no events from outside, `Spec => []NoEventLost` for any
queue of nine entries or more, whatever the delays and faults. `Coming` counts the queue and all that
can reach it before the clock moves on: a message for each expired timer, one for the blocking call,
two for a sensor poll. Dispatching takes one and owes at most one (an entry function posts or blocks,
never both); a poll begins only when the queue is empty and the thread idle, and a tick passes only
when nothing is owed. Three is the smallest depth for the firmware's order of delays, by TLC.

### Clock

`RtcEpochProofs` holds for every flush interval, skew threshold, set of builds, set of failing calls,
disturbance of the DS3231 and length of a behaviour.

- `RtcInductive`: `RtcSpec => []RInv`
- `RtcTypeCorrect`, `StoreStaysFresh`, `NoFallBack`, `SkewsHaveReasons`: `RtcTypeOK`,
  `StoredEpochFresh`, `ClockNeverFallsBack`, `SkewHasReason`

The properties speak of a running node, or of the end of a boot, and so say nothing of the state in
which power may fail. The strengthening `RInv` adds, besides the types:

- `Agreement`: while `agreed`, the DS3231 is ahead of the store by exactly the time since it was
  written, and the running clock is not ahead of the DS3231. A skew of an agreeing pair is therefore
  the time since the last store.
- `Freshness`: the store lags behind the clock by the time since the flush work was scheduled.
- `Copies`: what `lima_rtc_init` read first, if it could, still is what the store and the chip hold
  when it decides. It is where a build that provisions is left out: its copy is older than its own write.
- `Sources`: each source a boot may fall back on is at most one interval behind what was shown; the
  copy of the store only if there is one. If it falls back on the baked-in time or on nothing, then
  either nothing was stored, and at most an interval was ever shown, or the boot could read neither
  source (`NeitherRead`) and is held to nothing shown before.

`HwWriteFacts` and `NvsWriteFacts` say what a write that may fail leaves behind, `StoreClock` covers
the three places that store the running clock, and there is one lemma for each action. The step
that matters is `Elapse`: an accountable clock that moves on is not ahead of the DS3231, which is
less than an interval ahead of the store.

### Parser

`HciParseProofs` holds for every packet of any length and content and every address of a node.

- `ParseInductive`: `ParseSpec => []ParseInv`
- `AlwaysInBounds`: `ParseSpec => []ParserInBounds`

`ParseInv` adds that the AD data the inner loop walks lie inside the packet: `our_node` checks the
report's length against the packet, `WholeAd` each structure against the AD data. `FramePath` takes
the same actions with packets from the radio and has `ParseInv` as a part of its own invariant.

### Layouts

`WireProofs` is about the five programs' offsets, for every record of any values and every number of
frames. Its lemmas are cited by `FramePathProofs`; the ciphers are ideal, as in `Wire`.

- `ClientReadsRecord`: the client's `parse_ler()` of a decrypted text is the record that was signed.
- `RoundTripPasses`: `crypto-test` passes for every record; `RecordIsWritten` and
  `FrameIsWrittenBack` say the same of the two types of `lima-types`, byte for byte.
- `VerifiedIsFrame`: whatever the gateway's check lets pass is, in all its 184 bytes, one frame that
  the node built, and the gateway has the node's key.
- `FrameDecrypts`: the columns stored of a frame open with the node's key to its record, and with
  another key to nothing; what the gateway took off is put back as it was, since it is authenticated.

The argument: every layout is a function on positions (`RecordLayout`, `FrameLayout`), a slice of it
a function again (`SliceIs`, `BufferIs`), and numbers written in little endian are read back
(`LittleEndian`: division with remainder, three times). The signature check compares two slices, so
`CutsJoin` has to put the whole frame together from them, and `SlicesJoin` does so for the text the
client decrypts. Which frame it is shows in the nonce: its bytes belong to no other (`NonceIsOwn`).

### The path of a frame

`FramePathProofs` holds for any number of boots, events, receptions, damages and openings, every set
of packets, of events, of failing key calls, of damaged or cut-off positions and of noise.

- `PathInductive`: `PathSpec => []PathInv`
- `PathTypes`, `PathInBounds`, `TrailIsReadable`: `PathTypeOK`, `ParserInBounds`, `TrailReadable`
- `TypesMirror`: `PathSpec => TypesMirrorFirmware`
- `PathImplementsAudit`: `PathSpec => ImplementsAudit`
- `PathWhole`: `PathSpec => [](PathInv /\ WholeInv)`
- `FrameIsFound`, `IntactCounts`: `ParserFindsFrame`, `IntactFrameCounts`

`PathInv` has a part for each party:

- `NodeInv`: within a boot the sequence numbers of what was built are not above the counter, and no
  frame is of a later boot than this one. The counter alone says nothing: it restarts at each boot.
- `PacketInv`: whatever in a packet is not a plain byte is of the frame it was made of, even when the
  packet was damaged. This is why a spoilt packet cannot verify as another frame.
- `TrailInv`: rows have the numbers of their receptions, and a verified row holds every byte of a
  frame the node built. This is why what is decrypted later is what was signed.
- `ClientInv`: with the node's key nothing ended as an error; the cursor is not beyond the table.

The step that matters is `record`. `VerifiedArrived` says that what verifies is the frame the packet
was made of: by `VerifiedIsFrame` it is some frame, with that frame's nonce in it, and by `PacketInv` a
nonce byte in the packet can only be of the one that arrived. Nothing is assumed of the order of
arrivals.
`PathImplementsAudit` then has a lemma for each step of the audit trail (`AuditSigns`, `AuditStores`,
`AuditOpens`, `AuditShows`); all others leave it alone. What a poll shows rests on `ById`, the rows in
the order of their ids: `ByIdTail` says that the rows beyond a cursor are a tail of the trail.

`WholeInv` is for the other two properties. While a whole packet is parsed it is the one made of its
frame, and the parser is before a report with no report of the node behind it (`AtReport`), before a
structure of the node's first report with nothing but flags and short data behind it (`AtAd`), or at
the end with the frame in hand exactly if the first report of the node holds it (`AtEnd`), which is
what the code does; `FoundAsPromised` derives from it what `ParserFindsFrame` says. Without the places, the
lengths the parser adds up say nothing of the frame at their end.

A packet is joined from a sequence of reports, and each report's data from a sequence of structures.
What the join is would take an induction over data; instead, `FlattenExtends` extends a join of some
of them by one, and `FlattenExists` takes the least number for which there is none (`LeastNat`).
`FlattenJoins` gives each piece its place, `PacketIsLaid` that of every report and structure.

Assumed of the constants: events have fields of their widths (`EventAssumption`: a byte, 32 bits, four
bytes); a packet has at most 255 reports, each with at most 255 bytes of data (`ShapeAssumption`: HCI
has one byte for each length); packets are cut at natural positions (`CutAssumption`); noise is bytes
(`NoiseAssumption`); bounds are natural numbers, and a sequence number fits in its 32 bits
(`BoundAssumption`; the wrap is `NodeFsm`'s).

### Outbox

`OutboxProofs` holds for any number of frames, outages and crashes.

- `OutboxInductive`: `OutboxSpec => []OutboxInv`
- `ArrivesInOrder`: `OutboxSpec => []DeliveredInOrder`

Order alone is not inductive. `OutboxInv` adds that whatever waits or was sent and has not arrived has
a higher number than everything that arrived, and that while connected everything sent has arrived,
so that only a lost connection sends a frame again.

### Gateway

`GatewayProofs` holds for channels, a request channel and a screen of any capacity, any debounce, set
of packets and of failing calls, and any number of packets, outages and starts.

- `GatewayInductive`: `GatewaySpec => []GatewayInv`
- `GatewayTypeCorrect`, `LossAlwaysTold`, `PublishedAlwaysRecorded`, `ScreenAlwaysTrailTail`:
  `GatewayTypeOK`, `HealthTellsLoss`, `PublishedIsRecorded`, `ScreenIsTrailTail`
- `GatewayImplementsOutbox`: `GatewaySpec => ImplementsOutbox`
- `ArrivalsInOrder`, `OrderAlwaysKept`: `GatewaySpec => []Out!DeliveredInOrder`, `OrderKept`

No property is inductive by itself. `GatewayInv` adds to the types:

- `Session`: only a running gateway has a connection, and the broker knows of one that works. So
  "online" reaches the broker only while it holds a session, and the will undoes it.
- `Fresh`: what the scan task has in hand is newer than all it took before, and what waits in its
  channel newer still. This is why appending to a queue keeps it in order.
- `Trail`: rows are numbered as receptions came, one for each, and what was published passes
  verification or failed to be inserted; that the insert comes first is in `Fresh`.
- `Line`: the frames sent, kept from a lost connection, requested, in the publish loop's hands and in
  the channel are each in order, and each stage is ahead of the one that feeds it. This makes the
  frame `poll()` takes the lowest that waits, which the outbox demands of `Send`.
- `Once`: until a connection is first lost, what arrived is ahead of all on the way.
- `Screen`: the only row the screen may lack from its end on is the one still to be pushed.

The argument for the queues: `FramesAppend`, `FramesHead` and `FramesConcat` say what the operations on
a queue do to its frames and their order; one lemma for each MQTT step (`...Moves`) then gives the step
as a move between the five sets of frames, and everything later (`PublishedStep`, `LineNext`,
`OnceNext`, `OutStep`) is about those sets. `Translated` takes the moves to the actions of `Outbox`.
`OrderAlwaysKept` is not proved from the gateway again: it instantiates `OutboxProofs` with the
refinement mapping, and adds `Once` for "nothing twice without an outage".

What is assumed of the MQTT library is in the model, not in the proof: that it keeps the order of
what it sends again, and that `poll()` alone takes requests out.

### Clients

`ClientProofs` holds for any number of clients, of rows inserted and of openings, and any set of
failing statements.

- `ClientInductive`: `ClientSpec => []ClientInv`
- `ClientTypeCorrect`, `NoRowEverMissed`, `ListAlwaysFollows`, `SelectionAlwaysOnScreen`,
  `AckAlwaysStored`: `ClientTypeOK`, `NoRowMissed`, `ListFollowsTable`, `SelectionOnScreen`,
  `AcknowledgedIsStored`

The strengthening `ClientInv` has the properties for every client, open or not (`Follows`), and adds:

- `Numbered`: the n-th row inserted has the id n, and no id is given to two rows. This is
  AUTOINCREMENT; without it a row inserted after a deletion may come to lie behind a cursor.
- `Behind`: whatever a client lists, failed to decrypt, erased or handled lies behind its cursor. A
  poll then brings only rows the client knows nothing of, and the list stays in the table's order.

What other programs do to the table is `Descend`: rows may go or be acknowledged, and none comes;
`KeepsAll` shows that a client whose own variables stay keeps its part of the invariant. There is one
lemma for each kind of step; the poll rests on `PushFacts` and `AppendIds` (what is appended to a
list), the delete key on `RemoveIds`.

### Model-checked only

Liveness: `AlwaysRearms`, `AcceptedGoesOnAir`, `EveryStopCompletes`, `ScanKeepsUp`. Properties under
fairness involve ENABLED, which the proof system does not reason about. The findings of section 5 are
counterexamples of TLC, and there is nothing to prove of them.

## 5. Disagreements between the code and what the repository says

Each is a run that TLC ends with a counterexample.

| Run | Said | Done |
|---|---|---|
| `node_boot_tamper` | `rtc.h:48`, `docs/dev/context/context-w13.md:21`: a skew raises a tamper event | `main()` posts it before INIT_COMPLETE is dispatched; BOOT ignores it (`fsm.c:642-647`) and nothing is ever signed |
| `node_inactivity` | `fsm.c:220`: leaving ARMED cancels dwell and inactivity timers | only the dwell timer is cancelled; a timeout of an earlier stay sends a later one to DEEP_SLEEP |
| `node_fault_loop` | `fsm.c:522`, `docs/architecture/state.puml:158-159`: three attempts, then a watchdog reset | each recovery resets the counter, so a lasting fault goes round for ever |
| `rtc_stopped` | `rtc.c:144-145`: the time of a stopped DS3231 must not be authoritative | the stop flag is cleared before the chip is set; the next boot trusts it |
| `gateway_outage` | `main.rs:425`, `README.md:150`: reconnection is handled, events are delivered on reconnect | after an outage that filled the request channel the eventloop waits for room that only it can make |

## 6. Observations without a run

- `nvs_flush_fn` (`rtc.c:97-106`) stores the uptime as an epoch when no source gave an anchor; the
  next boot takes it for valid. Modelled (origin `uptime`), stated nowhere as wrong.
- A skew is overwritten in NVS before anything was signed (`rtc.c:397-399`); power lost in between
  erases the evidence. A force-provisioning build compares with the old store and reports a skew.
- `Kconfig:50` has provisioning force-write the epoch to DS3231 and NVS; the boot that does it and
  then cannot read the DS3231 goes on from the old epoch, copied before (`rtc.c:306`).
- A failed clock read arms the alarm in 1970 (`rtc.c:468`).
- `docs/building/CRYPTO.md:106` says that the gateway "rejects any event with a sequence number less
  than or equal to the last accepted sequence for that `node_id`", and `:108` that "on cold boot, the
  sequence counter is restored from flash" (see also `:50-54`, `:95`, `README.md:147` and
  `crypto.h:40`). The counter is a variable that begins at 0 (`crypto.c:32`;
  `docs/architecture/adr/ADR-006-persistent-key-storage.md:71` has this as open), and `hci_scan_task`
  keeps no number and compares none (`main.rs:816-855`): a frame that arrives again, or behind newer
  ones, is recorded as verified once more. The model does the same.
- The PSK is logged by the boot that generates it only (`crypto.c:86-107`). If its export fails or
  power is lost in between, the key stays and nobody can read the trail. `TrailReadable` speaks of an
  operator who has it.
- The first report of the node decides (`main.rs:741-742`), though `main.rs:658-659` says that the
  parser "handles `num_reports` in one call, returns the first report matching our MAC and company ID
  filter": a frame behind another report of the node in the same packet is not found.
- The layout in the comment at `main.rs:671-684`, which the tests build their packets by
  (`main.rs:1087-1112`), is not that of the code's offsets (address at 3, RSSI at 13; there 17 and 6).
  The tests at `main.rs:1150-1167` and `main.rs:1188-1205` expect a find in packets in which the code
  compares `NODE_MAC` with other bytes and returns `None`.
- A stored epoch that cannot be read looks like none (`rtc.c:304`, `rtc.c:72`): the skew check is
  skipped, and without the DS3231 the baked-in time replaces what was stored.
- A timeout and the completion of a transmission are never due at the same tick of the model (an
  advertisement takes half a second, its timeout is five), so that their race at `fsm.c:444` is met by
  no run.
- `crypto.h:37` documents the node id of a record as big-endian; it is copied least significant byte
  first, and the client shows it reversed.
- The screen's "evt" column (`main.rs:304`) shows `raw[1]` of the stripped payload, which is the reserved zero.
- `lima-types` has 0x04 as Heartbeat under the name of `LIMA_EVT_WAKEUP`, which is 0x06 in `events.h`.
- `crypto-test` signs nonce, ciphertext and tag without the header, 180 bytes in all with the
  signature, and prints "184B wire format".
- The client's `open_db` ignores every error of its ALTER TABLE (`db.rs:34`), not only that the column exists.
- The ntfy POST is not retried and debounces even when it failed; a frame whose insert failed is
  published all the same; frames with wrong signatures are logged but not alerted (`README.md:148`).
- The end of the reader thread leaves a process that is "online" and deaf.
- Acknowledgements made in an earlier session are not shown after a client is opened again.
- During an outage the gateway keeps for MQTT at most what its channels hold; later frames are in
  the trail only.

## 7. Plan

Done, in the order of importance: `NodeFsm`, its proofs, `RtcEpoch`, its proofs, `EventStore` and
`Gateway`, `Client`; then `Wire`, `HciParse` with its proof, `FramePath` and the abstract
`AuditTrail`, the abstract `Outbox` with its proof and the gateway's refinement of it, `ClientProofs`,
`GatewayProofs`, the rest of `NodeFsmProofs`; then `WireProofs` and `FramePathProofs` with the
refinement of `AuditTrail`. Left:

1. Should the gateway come to keep the last sequence number of a node, as the documents describe: that
   state in `FramePath`, and order and uniqueness of records in `AuditTrail`.
2. Composition of the boot of `RtcEpoch` and of `FramePath`'s provisioning with `NodeFsm`, which
   takes the outcome of both as given (`boot`), for the tamper evidence of section 6.

Runs stay few: a later module replaces or extends a run where the same question is asked.

## 8. Not modelled

- LEDs, heartbeat, watchdog feeding, I2C bus recovery, sensor registers: I/O without influence on
  the state machine. The keep-alive of the watchdog runs whatever the FSM does.
- Cryptography itself (the ciphers are ideal), the format of times, addresses and screens, drawing.
- The key agreement `crypto-test` runs: it is not that of the node.
- The HCI commands that switch scanning on: their answers are not looked at.
- `firmware/tests`, `firmware/tools`, deployment scripts: stand-alone programs and configuration. Of
  the service file, restarts appear as the action `start`.
- `purge_old_frames` (`client/src/db.rs`): never called.
