----------------------------- MODULE MCNodeFsm -----------------------------
(* Small instances of NodeFsm for TLC.                                      *)
EXTENDS NodeFsm

\* The order of the firmware's delays: 0.5 s, 5 s, 5 s, 10 s, 24 h; 2 min of sleep.
MCTicks == [t \in Timers |->
    CASE t = "adv_stop" -> 1
      [] t \in {"tx_timeout", "cooldown"} -> 2
      [] t = "armed_dwell" -> 3
      [] t = "inactivity" -> 6
      [] OTHER -> 2]

AllBoots == BootOutcomes
GoodBoot == {b \in BootOutcomes : b.keys = "both" /\ b.ble /\ b.rtc_valid /\ ~b.skew}
SkewBoot == {b \in BootOutcomes : b.keys = "both" /\ b.ble /\ b.rtc_valid /\ b.skew}

KeylessBoot == {b \in BootOutcomes : b.keys = "none" /\ b.ble /\ b.rtc_valid /\ ~b.skew}

NoEvents == {}

TransientFaults == {"sign", "build_lf", "set_data", "adv_start", "rtc_set_alarm"}
AllFaults == FaultKinds
NoFaults == {}
ApiEvents == {"TAMPER_DETECTED", "LOW_BATTERY", "BATTERY_RESTORED", "SENSOR_FAULT"}

\* Delays in the same order, but as short as that order allows.
ShortTicks == [t \in Timers |->
    CASE t \in {"adv_stop", "cooldown", "armed_dwell"} -> 1 [] OTHER -> 2]

\* What decides the next step: the contents of frames never do.
ControlView == <<boot, state, fsm_pc, queue, timer, due, fault_retries, adv.on, adv.cb,
                 sensor, lost>>
=============================================================================
