------------------------------ MODULE NodeFsm ------------------------------
(***************************************************************************)
(* The node firmware's state machine and everything that runs beside it:   *)
(* the FSM thread (fsm.c, main.c), the bounded message queue that is its   *)
(* only input, the sensor thread (main.c), the delayable works of the      *)
(* system workqueue and the RTC alarm interrupt (fsm.c, ble.c, rtc.c), and *)
(* the BLE advertiser (ble.c).                                             *)
(*                                                                         *)
(* A dispatched event is handled in one step, with every nested transition *)
(* and entry function, up to a call that blocks the FSM thread (signing,   *)
(* the HCI commands of an advertisement, the I2C and flash traffic of      *)
(* arming the wake-up alarm).  There the thread waits with fsm_pc set, and *)
(* lower-priority threads may run before the next step completes the call. *)
(*                                                                         *)
(* Time is counted in ticks.  A tick passes only when every thread waits   *)
(* and no expired work is left, so everything the processor can do it does *)
(* within the tick, in any order the priorities allow.                     *)
(***************************************************************************)
EXTENDS Naturals, Sequences, FiniteSets

CONSTANTS
    QueueDepth,       \* FSM_MSGQ_DEPTH
    MaxFaultRetries,  \* MAX_FAULT_RETRIES
    SeqMod,           \* 2^32: the width of sequence_counter
    Ticks,            \* the delay each timer is scheduled with, in ticks
    EnvEvents,        \* events posted by producers outside this firmware
    Faults,           \* the calls that may fail in this run
    Boots             \* what initialisation may have left behind in this run

Timers == {"cooldown", "tx_timeout", "armed_dwell", "inactivity", "adv_stop",
           "rtc_alarm", "rtc_fallback"}

Breaches == {"PRESSURE_BREACH", "MOTION_DETECTED", "DUAL_BREACH", "TAMPER_DETECTED"}
Battery == {"LOW_BATTERY", "CRITICAL_BATTERY"}
Completions == {"SIGNING_COMPLETE", "TX_COMPLETE", "BLE_FAULT"}
TimerEvents == {"COOLDOWN_EXPIRED", "TX_TIMEOUT", "ARMED_TIMEOUT",
                "INACTIVITY_TIMEOUT", "RTC_WAKEUP"}
Lifecycle == {"INIT_COMPLETE", "BASELINE_READY", "POLL_TICK", "RECOVERY_SUCCESS",
              "ERROR"}
EventTypes == Breaches \cup Battery \cup Completions \cup TimerEvents
                \cup Lifecycle \cup {"BATTERY_RESTORED", "SENSOR_FAULT"}

States == {"BOOT", "CALIBRATING", "ARMED", "LIGHT_SLEEP", "DEEP_SLEEP", "SIGNING",
           "TRANSMITTING", "COOLDOWN", "FAULT", "LOW_BATTERY"}
FaultKinds == {"sign", "build_lf", "set_data", "adv_start", "adv_stop",
               "rtc_read", "rtc_set_alarm"}
BootOutcomes == [keys : {"both", "sign_only", "none"}, ble : BOOLEAN,
                 rtc_valid : BOOLEAN, skew : BOOLEAN]

ASSUME DepthAssumption == QueueDepth \in Nat \ {0}
ASSUME RetryAssumption == MaxFaultRetries \in Nat \ {0}
ASSUME SeqAssumption == SeqMod \in Nat \ {0, 1}
ASSUME TicksAssumption == Ticks \in [Timers -> Nat \ {0}]
ASSUME EnvAssumption ==
    EnvEvents \subseteq Breaches \cup Battery \cup {"BATTERY_RESTORED", "SENSOR_FAULT"}
ASSUME FaultAssumption == Faults \subseteq FaultKinds
ASSUME BootAssumption == Boots \subseteq BootOutcomes

(* An advertisement ends before its confirmation times out: 500 ms         *)
(* (Kconfig:39) against 5000 ms (fsm.h:24).                                *)
ASSUME TimingAssumption == Ticks["adv_stop"] < Ticks["tx_timeout"]

NoEvent == "none"
NoFrame == [seq |-> 0, type |-> NoEvent]
Frames == [seq : 0 .. SeqMod - 1, type : EventTypes \cup {NoEvent}]
Messages == [type : EventTypes, live : BOOLEAN]

VARIABLES
    boot,           \* what main() left behind: keys, BLE, RTC validity, clock skew
    state,          \* current_state
    fsm_pc,         \* where the FSM thread waits
    queue,          \* fsm_msgq
    timer,          \* ticks left of each scheduled timer, 0 if it is not scheduled
    due,            \* timers that expired and whose callback has not run yet
    last_event,     \* fsm.last_event
    sequence_counter,
    last_lf,        \* fsm.last_lf, reduced to the sequence and type it carries
    fault_retries,  \* fsm.fault_retries
    adv,            \* the advertiser: [on, cb, buf], buf being lf_buf
    sensor,         \* the sensor thread: [pc, fired, live]
    lost            \* history: some k_msgq_put found the queue full

vars == <<boot, state, fsm_pc, queue, timer, due, last_event, sequence_counter,
          last_lf, fault_retries, adv, sensor, lost>>

----------------------------------------------------------------------------
(* The message queue.  A message is an event type and a history flag: live *)
(* until the operation that produced it is cancelled, restarted or over.   *)

Message(e, live) == [type |-> e, live |-> live]
Fresh(e) == <<Message(e, TRUE)>>

\* k_msgq_put with K_NO_WAIT: a full queue refuses the message, and no caller looks
\* at the error.  ms holds the message to post, or nothing.
Post(q, ms) ==
    /\ queue' = IF Len(q) < QueueDepth THEN q \o ms ELSE q
    /\ lost' = (lost \/ (ms # <<>> /\ Len(q) >= QueueDepth))

Retire(q, types) ==
    [i \in DOMAIN q |-> Message(q[i].type, q[i].live /\ q[i].type \notin types)]

Holds(q, e) == \E i \in DOMAIN q : q[i].type = e
Queued(e) == Holds(queue, e)

----------------------------------------------------------------------------
(* Timers.  Scheduling leaves an expired callback that has not run in the  *)
(* workqueue; cancelling removes it.                                       *)

Expiry == [t \in Timers |->
    CASE t = "cooldown"    -> "COOLDOWN_EXPIRED"
      [] t = "tx_timeout"  -> "TX_TIMEOUT"
      [] t = "armed_dwell" -> "ARMED_TIMEOUT"
      [] t = "inactivity"  -> "INACTIVITY_TIMEOUT"
      [] t = "adv_stop"    -> "TX_COMPLETE"
      [] OTHER             -> "RTC_WAKEUP"]

Pending(t) == timer[t] > 0 \/ t \in due

SetTimers(scheduled, cancelled) ==
    /\ timer' = [t \in Timers |-> CASE t \in scheduled -> Ticks[t]
                                    [] t \in cancelled \ scheduled -> 0
                                    [] OTHER -> timer[t]]
    /\ due' = due \ cancelled

----------------------------------------------------------------------------
(* transition(): the exit actions of the current state, the entry actions  *)
(* of the next.                                                            *)

\* Seeded bugs: ARMED cancels what its log line says; no exit cancels anything.
ExitCancelsAsLogged == IF state = "ARMED" THEN {"armed_dwell", "inactivity"} ELSE {}
ExitCancelsNothing == {}

ExitCancels ==
    CASE state = "ARMED"        -> {"armed_dwell"}
      [] state = "COOLDOWN"     -> {"cooldown"}
      [] state = "TRANSMITTING" -> {"tx_timeout"}
      [] OTHER                  -> {}

\* Seeded bug: COOLDOWN is entered without its timer.
EntrySchedulesNoCooldown(s) ==
    CASE s = "ARMED"        -> {"inactivity", "armed_dwell"}
      [] s = "TRANSMITTING" -> {"tx_timeout"}
      [] OTHER              -> {}

EntrySchedules(s) ==
    CASE s = "ARMED"        -> {"inactivity", "armed_dwell"}
      [] s = "TRANSMITTING" -> {"tx_timeout"}
      [] s = "COOLDOWN"     -> {"cooldown"}
      [] OTHER              -> {}

EntryPosts(s, retries) ==
    CASE s = "CALIBRATING" -> Fresh("BASELINE_READY")
      [] s = "FAULT" -> IF retries >= MaxFaultRetries THEN Fresh("ERROR")
                                                      ELSE Fresh("RECOVERY_SUCCESS")
      [] OTHER -> <<>>

\* The blocking call an entry function makes, if any.
EntryBlocks(s) ==
    CASE s = "SIGNING"      -> "signing"
      [] s = "TRANSMITTING" -> "advertising"
      [] s = "DEEP_SLEEP"   -> "arming"
      [] OTHER              -> "idle"

\* History: entering a state closes the previous round of its operation.
Closes(s) ==
    CASE s = "SIGNING"      -> {"SIGNING_COMPLETE"}
      [] s = "TRANSMITTING" -> {"TX_COMPLETE", "BLE_FAULT"}
      [] s = "COOLDOWN"     -> Breaches
      [] OTHER              -> {}

Transition(next, q, retries, also) ==
    LET scheduled == EntrySchedules(next) \cup also
        touched   == {Expiry[t] : t \in scheduled \cup ExitCancels}
    IN  /\ state' = next
        /\ fsm_pc' = EntryBlocks(next)
        /\ SetTimers(scheduled, ExitCancels)
        /\ fault_retries' = IF next = "FAULT" /\ retries < MaxFaultRetries
                            THEN retries + 1 ELSE retries
        /\ sensor' = [sensor EXCEPT !.live = @ /\ next # "COOLDOWN"]
        /\ Post(Retire(q, touched \cup Closes(next)), EntryPosts(next, retries))

Goto(next, q) ==
    /\ Transition(next, q, fault_retries, {})
    /\ UNCHANGED <<boot, last_event, sequence_counter, last_lf, adv>>

\* Seeded bug: a counter wider than the field that carries it.
next_sequence_wide == sequence_counter + 1

next_sequence == (sequence_counter + 1) % SeqMod

\* EVENT_DETECTED is entered and left within the same step: its entry function goes
\* on to SIGNING, whose entry function builds the LER under the next sequence number.
Accept(e, q, also) ==
    /\ last_event' = e
    /\ sequence_counter' = next_sequence
    /\ Transition("SIGNING", q, fault_retries, also)
    /\ UNCHANGED <<boot, last_lf, adv>>

Ignore(q) ==
    /\ queue' = q
    /\ UNCHANGED <<boot, state, fsm_pc, timer, due, last_event, sequence_counter,
                   last_lf, fault_retries, adv, sensor, lost>>

----------------------------------------------------------------------------
(* fsm_dispatch(): one handler per state.                                  *)

Dispatching == fsm_pc = "idle" /\ queue # <<>>

Handled == [s \in States |->
    CASE s = "BOOT"         -> {"INIT_COMPLETE"}
      [] s = "CALIBRATING"  -> {"BASELINE_READY"}
      [] s = "ARMED"        -> Breaches \cup Battery
                                 \cup {"INACTIVITY_TIMEOUT", "ARMED_TIMEOUT", "SENSOR_FAULT"}
      [] s = "LIGHT_SLEEP"  -> Breaches \cup Battery \cup {"INACTIVITY_TIMEOUT"}
      [] s = "DEEP_SLEEP"   -> Battery \cup {"RTC_WAKEUP"}
      [] s = "SIGNING"      -> {"SIGNING_COMPLETE", "SENSOR_FAULT"}
      [] s = "TRANSMITTING" -> {"TX_COMPLETE", "TX_TIMEOUT", "BLE_FAULT"}
      [] s = "COOLDOWN"     -> Battery \cup {"COOLDOWN_EXPIRED", "TAMPER_DETECTED"}
      [] s = "FAULT"        -> {"RECOVERY_SUCCESS"}
      [] s = "LOW_BATTERY"  -> Breaches \cup {"BATTERY_RESTORED"}]

boot_handle(e, q) ==
    \/ state = "BOOT" /\ e = "INIT_COMPLETE" /\ Goto("CALIBRATING", q)
    \/ state = "CALIBRATING" /\ e = "BASELINE_READY" /\ Goto("ARMED", q)

state_armed_handle(e, q) ==
    /\ state = "ARMED"
    /\ \/ e \in Breaches /\ Accept(e, q, {"inactivity"})
       \/ e = "INACTIVITY_TIMEOUT" /\ Goto("DEEP_SLEEP", q)
       \/ e = "ARMED_TIMEOUT" /\ Goto("LIGHT_SLEEP", q)
       \/ e \in Battery /\ Goto("LOW_BATTERY", q)
       \/ e = "SENSOR_FAULT" /\ Goto("FAULT", q)

state_light_sleep_handle(e, q) ==
    /\ state = "LIGHT_SLEEP"
    /\ \/ e \in Breaches /\ Accept(e, q, {})
       \/ e = "INACTIVITY_TIMEOUT" /\ Goto("DEEP_SLEEP", q)
       \/ e \in Battery /\ Goto("LOW_BATTERY", q)

state_deep_sleep_handle(e, q) ==
    /\ state = "DEEP_SLEEP"
    /\ \/ e = "RTC_WAKEUP" /\ Goto("ARMED", q)
       \/ e \in Battery /\ Goto("LOW_BATTERY", q)

state_signing_handle(e, q) ==
    /\ state = "SIGNING"
    /\ \/ e = "SIGNING_COMPLETE" /\ Goto("TRANSMITTING", q)
       \/ e = "SENSOR_FAULT" /\ Goto("FAULT", q)

state_transmitting_handle(e, q) ==
    /\ state = "TRANSMITTING"
    /\ \/ e \in {"TX_COMPLETE", "TX_TIMEOUT"} /\ Goto("COOLDOWN", q)
       \/ /\ e = "BLE_FAULT"
          /\ Transition("FAULT", q, 0, {})
          /\ UNCHANGED <<boot, last_event, sequence_counter, last_lf, adv>>

state_cooldown_handle(e, q) ==
    /\ state = "COOLDOWN"
    /\ \/ e = "COOLDOWN_EXPIRED" /\ Goto("ARMED", q)
       \/ e = "TAMPER_DETECTED" /\ Accept(e, q, {})
       \/ e \in Battery /\ Goto("LOW_BATTERY", q)

state_fault_handle(e, q) ==
    /\ state = "FAULT"
    /\ e = "RECOVERY_SUCCESS"
    /\ Transition("CALIBRATING", q, 0, {})
    /\ UNCHANGED <<boot, last_event, sequence_counter, last_lf, adv>>

state_low_battery_handle(e, q) ==
    /\ state = "LOW_BATTERY"
    /\ \/ e = "BATTERY_RESTORED" /\ Goto("ARMED", q)
       \/ e \in Breaches /\ Accept(e, q, {})

\* Every other event: the handler's default branch, or one that only logs.
unhandled(e, q) == e \notin Handled[state] /\ Ignore(q)

fsm_dispatch ==
    /\ Dispatching
    /\ LET e == Head(queue).type
           q == Tail(queue)
       IN  \/ boot_handle(e, q)
           \/ state_armed_handle(e, q)
           \/ state_light_sleep_handle(e, q)
           \/ state_deep_sleep_handle(e, q)
           \/ state_signing_handle(e, q)
           \/ state_transmitting_handle(e, q)
           \/ state_cooldown_handle(e, q)
           \/ state_fault_handle(e, q)
           \/ state_low_battery_handle(e, q)
           \/ unhandled(e, q)

----------------------------------------------------------------------------
(* The FSM thread's blocking calls.                                        *)

fsm_init ==
    /\ fsm_pc = "init"
    /\ fsm_pc' = "idle"
    /\ Post(queue, Fresh("INIT_COMPLETE"))
    /\ UNCHANGED <<boot, state, timer, due, last_event, sequence_counter, last_lf,
                   fault_retries, adv, sensor>>

\* Seeded bugs: a failure nobody is told of; a frame built and not kept.
SigningEndsSilently(e, lf) ==
    /\ fsm_pc' = "idle"
    /\ last_lf' = lf
    /\ Post(queue, IF e = "SENSOR_FAULT" THEN <<>> ELSE Fresh(e))
    /\ UNCHANGED <<boot, state, timer, due, last_event, sequence_counter,
                   fault_retries, adv, sensor>>

SigningEndsUnkept(e, lf) ==
    /\ fsm_pc' = "idle"
    /\ last_lf' = last_lf
    /\ Post(queue, Fresh(e))
    /\ UNCHANGED <<boot, state, timer, due, last_event, sequence_counter,
                   fault_retries, adv, sensor>>

SigningEnds(e, lf) ==
    /\ fsm_pc' = "idle"
    /\ last_lf' = lf
    /\ Post(queue, Fresh(e))
    /\ UNCHANGED <<boot, state, timer, due, last_event, sequence_counter,
                   fault_retries, adv, sensor>>

\* The frame of the LER at hand: sequence number and type are what a receiver can tell.
lima_crypto_build_lf == [seq |-> sequence_counter, type |-> last_event]

\* lima_crypto_sign_async() runs its callback, and that lima_crypto_build_lf(), before
\* it returns.  Without a signing key it does neither and the entry function gives up.
signing_complete ==
    /\ fsm_pc = "signing"
    /\ \/ boot.keys = "none" /\ Goto("FAULT", queue)
       \/ boot.keys # "none" /\ "sign" \in Faults /\ SigningEnds("SENSOR_FAULT", last_lf)
       \/ boot.keys = "sign_only" /\ SigningEnds("SENSOR_FAULT", last_lf)
       \/ boot.keys = "both" /\ "build_lf" \in Faults /\ SigningEnds("SENSOR_FAULT", NoFrame)
       \/ boot.keys = "both" /\ SigningEnds("SIGNING_COMPLETE", lima_crypto_build_lf)

AdvertiseFails(advertiser) ==
    /\ adv' = advertiser
    /\ Transition("FAULT", queue, fault_retries, {})
    /\ UNCHANGED <<boot, last_event, sequence_counter, last_lf>>

lima_ble_advertise ==
    /\ fsm_pc = "advertising"
    /\ \/ ~boot.ble /\ AdvertiseFails(adv)
       \/ boot.ble /\ "set_data" \in Faults /\ AdvertiseFails([adv EXCEPT !.buf = last_lf])
       \/ /\ boot.ble
          /\ adv.on \/ "adv_start" \in Faults
          /\ AdvertiseFails([adv EXCEPT !.buf = last_lf, !.cb = FALSE])
       \/ /\ boot.ble /\ ~adv.on
          /\ adv' = [on |-> TRUE, cb |-> TRUE, buf |-> last_lf]
          /\ fsm_pc' = "idle"
          /\ SetTimers({"adv_stop"}, {})
          /\ UNCHANGED <<boot, state, queue, last_event, sequence_counter, last_lf,
                         fault_retries, sensor, lost>>

ArmsTimer(scheduled) ==
    /\ fsm_pc' = "idle"
    /\ SetTimers(scheduled, {})
    /\ queue' = Retire(queue, {Expiry[t] : t \in scheduled})
    /\ UNCHANGED <<boot, state, last_event, sequence_counter, last_lf, fault_retries,
                   adv, sensor, lost>>

\* A failed clock read leaves now = 0 and its error unseen: the alarm is set for two
\* minutes after 1970 and, as far as this model looks, never goes off.
lima_rtc_arm_wakeup ==
    /\ fsm_pc = "arming"
    /\ \/ ~boot.rtc_valid /\ ArmsTimer({"rtc_fallback"})
       \/ boot.rtc_valid /\ "rtc_set_alarm" \in Faults /\ ArmsTimer({"rtc_fallback"})
       \/ boot.rtc_valid /\ ArmsTimer({"rtc_alarm"})
       \/ boot.rtc_valid /\ "rtc_read" \in Faults /\ ArmsTimer({})

----------------------------------------------------------------------------
(* Callbacks of the workqueue and of the RTC's interrupt.                  *)

TimerCallback(t) ==
    /\ t \in due \ {"adv_stop"}
    /\ due' = due \ {t}
    /\ Post(queue, <<Message(Expiry[t], timer[t] = 0)>>)
    /\ UNCHANGED <<boot, state, fsm_pc, timer, last_event, sequence_counter, last_lf,
                   fault_retries, adv, sensor>>

\* Both outcomes of bt_le_ext_adv_stop().  The callback, if one is set, is called once.
adv_stop_fn ==
    /\ "adv_stop" \in due
    /\ due' = due \ {"adv_stop"}
    /\ \E stopped \in IF "adv_stop" \in Faults THEN BOOLEAN ELSE {TRUE} :
         /\ adv' = [adv EXCEPT !.on = @ /\ ~stopped, !.cb = FALSE]
         /\ Post(queue, IF ~adv.cb THEN <<>>
                        ELSE IF stopped THEN Fresh("TX_COMPLETE") ELSE Fresh("BLE_FAULT"))
    /\ UNCHANGED <<boot, state, fsm_pc, timer, last_event, sequence_counter, last_lf,
                   fault_retries, sensor>>

----------------------------------------------------------------------------
(* The sensor thread: lower priority than the FSM thread, it runs while    *)
(* that one waits for a message or inside a blocking call.                 *)

FsmWaits == fsm_pc \notin {"init", "idle"} \/ (fsm_pc = "idle" /\ queue = <<>>)

SensorOnly == <<boot, state, fsm_pc, timer, due, last_event, sequence_counter, last_lf,
                fault_retries, adv>>

SensorPosts(e) == Post(queue, IF e = NoEvent THEN <<>> ELSE <<Message(e, sensor.live)>>)

\* Seeded bug: the sensors are polled whatever the state is.
sensor_read_always ==
    /\ FsmWaits
    /\ sensor.pc = "sleep"
    /\ sensor' = [pc |-> "imu", fired |-> FALSE, live |-> TRUE]
    /\ UNCHANGED <<SensorOnly, queue, lost>>

sensor_read_state ==
    /\ FsmWaits
    /\ sensor.pc = "sleep"
    /\ state \in {"ARMED", "LIGHT_SLEEP"}
    /\ sensor' = [pc |-> "imu", fired |-> FALSE, live |-> TRUE]
    /\ UNCHANGED <<SensorOnly, queue, lost>>

sensor_imu ==
    /\ FsmWaits
    /\ sensor.pc = "imu"
    /\ \E motion \in BOOLEAN :
         /\ SensorPosts(IF motion THEN "MOTION_DETECTED" ELSE NoEvent)
         /\ sensor' = [sensor EXCEPT !.pc = "baro", !.fired = motion]
    /\ UNCHANGED SensorOnly

sensor_baro ==
    /\ FsmWaits
    /\ sensor.pc = "baro"
    /\ \E breach \in BOOLEAN :
         SensorPosts(IF breach THEN "PRESSURE_BREACH"
                     ELSE IF sensor.fired THEN NoEvent ELSE "POLL_TICK")
    /\ sensor' = [pc |-> "sleep", fired |-> FALSE, live |-> TRUE]
    /\ UNCHANGED SensorOnly

\* lima_post_event() called by a producer this firmware does not have yet.
EnvPost ==
    /\ fsm_pc # "init"
    /\ \E e \in EnvEvents : Post(queue, Fresh(e))
    /\ UNCHANGED <<SensorOnly, sensor>>

----------------------------------------------------------------------------

Tick ==
    /\ fsm_pc = "idle" /\ queue = <<>> /\ due = {} /\ sensor.pc = "sleep"
    /\ \E t \in Timers : timer[t] > 0
    /\ timer' = [t \in Timers |-> IF timer[t] > 0 THEN timer[t] - 1 ELSE 0]
    /\ due' = {t \in Timers : timer[t] = 1}
    /\ UNCHANGED <<boot, state, fsm_pc, queue, last_event, sequence_counter, last_lf,
                   fault_retries, adv, sensor, lost>>

\* main() resumes the threads after it posted what lima_rtc_init() told it.
Init ==
    /\ boot \in Boots
    /\ state = "BOOT"
    /\ fsm_pc = "init"
    /\ queue = IF boot.skew THEN Fresh("TAMPER_DETECTED") ELSE <<>>
    /\ timer = [t \in Timers |-> 0]
    /\ due = {}
    /\ last_event = NoEvent
    /\ sequence_counter = 0
    /\ last_lf = NoFrame
    /\ fault_retries = 0
    /\ adv = [on |-> FALSE, cb |-> FALSE, buf |-> NoFrame]
    /\ sensor = [pc |-> "sleep", fired |-> FALSE, live |-> TRUE]
    /\ lost = FALSE

FsmThread == fsm_init \/ fsm_dispatch \/ signing_complete \/ lima_ble_advertise
                \/ lima_rtc_arm_wakeup
SensorThread == sensor_read_state \/ sensor_imu \/ sensor_baro
Callbacks == adv_stop_fn \/ \E t \in Timers : TimerCallback(t)

Next == FsmThread \/ SensorThread \/ Callbacks \/ EnvPost \/ Tick

Spec == Init /\ [][Next]_vars

\* What the scheduler owes: threads and callbacks that can run do run, a started
\* sensor poll ends, and the clock moves on whenever the processor keeps coming to rest.
Fairness ==
    /\ WF_vars(FsmThread)
    /\ WF_vars(sensor_imu \/ sensor_baro)
    /\ WF_vars(Callbacks)
    /\ SF_vars(Tick)

FairSpec == Spec /\ Fairness

----------------------------------------------------------------------------
(* Properties.                                                             *)

\* Every variable keeps to the values its C type and its writers allow.
TypeOK ==
    /\ boot \in BootOutcomes
    /\ state \in States
    /\ fsm_pc \in {"init", "idle", "signing", "advertising", "arming"}
    /\ queue \in Seq(Messages)
    /\ Len(queue) <= QueueDepth
    /\ timer \in [Timers -> Nat]
    /\ due \subseteq Timers
    /\ last_event \in Breaches \cup {NoEvent}
    /\ sequence_counter \in 0 .. SeqMod - 1
    /\ last_lf \in Frames
    /\ fault_retries \in 0 .. MaxFaultRetries
    /\ adv \in [on : BOOLEAN, cb : BOOLEAN, buf : Frames]
    /\ sensor \in [pc : {"sleep", "imu", "baro"}, fired : BOOLEAN, live : BOOLEAN]
    /\ lost \in BOOLEAN

\* What can end the stay in a state: a message, or a timer that will post one.
ExitMessages == [s \in States |->
    CASE s = "ARMED"        -> {"ARMED_TIMEOUT"}
      [] s = "LIGHT_SLEEP"  -> {"INACTIVITY_TIMEOUT"}
      [] s = "DEEP_SLEEP"   -> {"RTC_WAKEUP"}
      [] s = "COOLDOWN"     -> {"COOLDOWN_EXPIRED"}
      [] OTHER              -> Handled[s]]

ExitTimers == [s \in States |->
    CASE s = "ARMED"        -> {"armed_dwell"}
      [] s = "LIGHT_SLEEP"  -> {"inactivity"}
      [] s = "DEEP_SLEEP"   -> {"rtc_alarm", "rtc_fallback"}
      [] s = "TRANSMITTING" -> {"tx_timeout"}
      [] s = "COOLDOWN"     -> {"cooldown"}
      [] OTHER              -> {}]

Leaving(s) == \/ \E e \in ExitMessages[s] : Queued(e)
              \/ \E t \in ExitTimers[s] : Pending(t)

\* States whose end the firmware sees to itself.  A low battery ends from outside, and
\* a wake-up alarm computed from a failed clock read may never come.
SelfLeaving == States \ ({"LOW_BATTERY"} \cup
                          (IF "rtc_read" \in Faults THEN {"DEEP_SLEEP"} ELSE {}))

\* No state is a dead end: while no message was refused by a full queue, whatever the
\* next step out of the current state needs is on its way, queued or timed.  Nothing
\* else would end SIGNING, FAULT or DEEP_SLEEP: they have no timeout of their own.
NoDeadEnd ==
    (~lost /\ fsm_pc = "idle" /\ state \in SelfLeaving) => Leaving(state)

\* What is on the air is the frame of the event that is being transmitted, under the
\* sequence number last issued, and nothing is on the air in any other state: neither
\* a timed-out transmission nor a fault leaves an older frame advertising.
FrameOnAir ==
    adv.on => /\ state = "TRANSMITTING"
              /\ adv.buf = [seq |-> sequence_counter, type |-> last_event]

\* No message of this firmware is ever refused by a full queue, which no caller of
\* lima_post_event() would notice.  Three entries are enough for the order of this
\* firmware's delays, nine for any; FSM_MSGQ_DEPTH is 16.
NoEventLost == ~lost

\* The message just taken from the queue was overtaken: its timer was cancelled or
\* restarted, its operation begun anew, or its sample taken before the last cooldown.
TakesStale(types) ==
    fsm_dispatch /\ ~Head(queue).live /\ Head(queue).type \in types

\* Cancelling a timer does not recall the message it already posted.  Such a message
\* must not end a later round of the same state: no cooldown, transmission or signing
\* is cut short by its predecessor's message.
StaleCompletionsInert ==
    [][TakesStale(Completions \cup {"COOLDOWN_EXPIRED", "TX_TIMEOUT"})
         => UNCHANGED state]_vars

\* The log line of state_armed_exit() says that it cancels the inactivity timer: an
\* inactivity timeout of an earlier stay must not end the next one.
StaleInactivityInert ==
    [][TakesStale({"INACTIVITY_TIMEOUT"}) => UNCHANGED state]_vars

\* A tamper event that reaches the FSM goes on to be signed.
TamperIsSigned ==
    [][(fsm_dispatch /\ Head(queue).type = "TAMPER_DETECTED") => state' = "SIGNING"]_vars

\* Recovery is attempted a bounded number of times: a node whose faults never end
\* stays in FAULT in the end, for the watchdog to reset it.
FaultsEndInReset == []<>(state = "FAULT") => <>[](state = "FAULT")

\* The node always comes back to watching its sensors.
AlwaysRearms == []<>(state = "ARMED")

\* An accepted breach is not forgotten: its frame goes on the air, unless the attempt
\* ends in FAULT for want of a key, of BLE or of a call that succeeds.
AcceptedGoesOnAir == (state = "SIGNING") ~> (adv.on \/ state = "FAULT")

=============================================================================
