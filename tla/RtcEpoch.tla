------------------------------ MODULE RtcEpoch ------------------------------
(***************************************************************************)
(* Wall-clock time across power cycles (rtc.c): the battery-backed DS3231, *)
(* the copy of the epoch in non-volatile settings (NVS), and the software  *)
(* clock lima_rtc_init() anchors on one of them at every boot.             *)
(*                                                                         *)
(* Power may fail between any two writes.  Initialisation is a few         *)
(* milliseconds long, so time passes only while the node runs or is off.   *)
(* Seconds are counted in units of a fraction of the flush interval.       *)
(***************************************************************************)
EXTENDS Integers

CONSTANTS
    FlushInterval,   \* LIMA_RTC_NVS_FLUSH_MS
    SkewThreshold,   \* LIMA_RTC_SKEW_THRESHOLD_S
    Builds,          \* the firmware a boot may find: CONFIG_LIMA_FORCE_PROVISION and
                     \* CONFIG_LIMA_PROVISION_UNIX_TIME, 0 if it is not set
    RtcFaults,       \* the calls that may fail
    StrayTimes,      \* what a stopped or exchanged DS3231 may hold
    MaxAge           \* bound on the total time of a behaviour

ASSUME FlushAssumption == FlushInterval \in Nat \ {0}
ASSUME SkewAssumption == SkewThreshold \in Nat
ASSUME BuildAssumption == Builds \subseteq [force : BOOLEAN, provision : Nat]
ASSUME RtcFaultAssumption ==
    RtcFaults \subseteq {"ready", "osf_read", "osf_clear", "hw_read", "hw_write",
                         "nvs_read", "nvs_write"}
ASSUME StrayAssumption == StrayTimes \subseteq Nat
ASSUME AgeAssumption == MaxAge \in Nat

\* History: where a time comes from.  "stopped" is what the DS3231 holds after its
\* oscillator stopped, "stray" what another chip or hand put there; "uptime" counts from
\* boot and not from 1970.
Origins == {"set", "kconfig", "stopped", "stray", "uptime"}
Codes == {"OK", "HW", "FALLBACK", "SKEW"}

VARIABLES
    pc,          \* "off", a step of lima_rtc_init(), or "run"
    build,       \* the firmware that runs
    ds3231,      \* the chip: [time, osf, origin]
    ready,       \* device_is_ready(ds3231), fixed when the driver starts
    nvs,         \* the stored epoch: [epoch, origin], epoch 0 if there is none
    nvs_epoch,   \* lima_rtc_init()'s copy of it, taken first of all; Unset if it cannot be
    hw_epoch,    \* lima_rtc_init()'s reading of the chip
    hw_ok,
    clock,       \* lima_rtc_get_epoch(): [epoch, origin], epoch counting on from boot_epoch
    anchored,    \* boot_epoch # 0
    rtc_valid,
    ret,         \* lima_rtc_init()'s result
    since_flush, \* time since nvs_flush_work was scheduled
    age,         \* total time
    saved,       \* history: the last attempt to write NVS succeeded
    unsaved,     \* history: time since the last one that did
    agreed,      \* history: that one stored what the DS3231 then held, and the DS3231
                 \* has not been written or disturbed since
    shown        \* history: the latest clock.epoch of a running node while agreed and the
                 \* store written within the interval, since the last disturbance,
                 \* provisioning, or boot that could read neither of them

chip == <<ds3231, ready>>
init_locals == <<nvs_epoch, hw_epoch, hw_ok>>
soft == <<clock, anchored, rtc_valid>>
history == <<saved, unsaved, agreed, shown>>
rtcvars == <<pc, build, ds3231, ready, nvs, nvs_epoch, hw_epoch, hw_ok, clock, anchored,
             rtc_valid, ret, since_flush, age, history>>

May(fault) == IF fault \in RtcFaults THEN BOOLEAN ELSE {FALSE}

\* No epoch, and a clock that counts from boot.
Unset == [epoch |-> 0, origin |-> "uptime"]

Distance(a, b) == IF a > b THEN a - b ELSE b - a
Later(a, b) == IF a > b THEN a ELSE b

----------------------------------------------------------------------------
(* Writes that may fail.  No caller changes its course when they do.       *)

\* rtc_hw_write(): the DS3231 takes the epoch or keeps its time.  Whether the driver
\* clears OSF with it is left open.
rtc_hw_write(epoch, origin) ==
    \E failed \in May("hw_write"), osf \in {FALSE, ds3231.osf} :
      ds3231' = IF ready /\ ~failed
                THEN [time |-> epoch, osf |-> osf, origin |-> origin] ELSE ds3231

\* rtc_settings_write_epoch().
rtc_settings_write_epoch(epoch, origin) ==
    \E failed \in May("nvs_write") :
      /\ nvs' = IF failed THEN nvs ELSE [epoch |-> epoch, origin |-> origin]
      /\ saved' = ~failed
      /\ unsaved' = IF failed THEN unsaved ELSE 0
      /\ agreed' = IF failed THEN agreed ELSE epoch = ds3231.time
      /\ UNCHANGED shown

----------------------------------------------------------------------------
(* lima_rtc_init(), up to each write it makes.                             *)

\* The store is read into a variable that begins as 0, and neither the result of the load
\* nor that of the read is looked at.
PowerOn ==
    /\ pc = "off"
    /\ build' \in Builds
    /\ ready' \in {~absent : absent \in May("ready")}
    /\ \E unread \in May("nvs_read") : nvs_epoch' = IF unread THEN Unset ELSE nvs
    /\ hw_epoch' = 0 /\ hw_ok' = FALSE
    /\ clock' = Unset
    /\ anchored' = FALSE /\ rtc_valid' = FALSE /\ ret' = "OK"
    /\ since_flush' = 0
    /\ pc' = IF build'.force /\ build'.provision # 0 THEN "provision" ELSE "read"
    /\ UNCHANGED <<ds3231, nvs, age, history>>

\* lima_rtc_set_epoch(), called by the force-provision build.
lima_rtc_set_epoch ==
    /\ pc = "provision"
    /\ pc' = "provision_nvs"
    /\ rtc_hw_write(build.provision, "set")
    /\ clock' = [epoch |-> build.provision, origin |-> "set"]
    /\ anchored' = TRUE /\ rtc_valid' = TRUE
    /\ agreed' = FALSE /\ shown' = 0
    /\ UNCHANGED <<build, ready, nvs, init_locals, ret, since_flush, age, saved, unsaved>>

set_epoch_flush ==
    /\ pc = "provision_nvs"
    /\ pc' = "read"
    /\ rtc_settings_write_epoch(build.provision, "set")
    /\ UNCHANGED <<build, chip, init_locals, soft, ret, since_flush, age>>

\* The status register is read, then cleared, OSF with it; a failed read counts as set.
read_ds3231 ==
    /\ pc = "read"
    /\ pc' = "resolve"
    /\ \E blind \in May("osf_read"), kept \in May("osf_clear"), unread \in May("hw_read") :
         LET osf == blind \/ ds3231.osf
         IN  /\ ds3231' = IF ready THEN [ds3231 EXCEPT !.osf = @ /\ kept] ELSE ds3231
             /\ hw_ok' = (ready /\ ~osf /\ ~unread)
             /\ hw_epoch' = IF ready /\ ~osf /\ ~unread THEN ds3231.time ELSE 0
    /\ UNCHANGED <<build, ready, nvs, nvs_epoch, soft, ret, since_flush, age, history>>

\* Seeded bug: a difference as large as the threshold already counts.
from_hardware_strict ==
    /\ hw_ok
    /\ clock' = [epoch |-> hw_epoch, origin |-> ds3231.origin]
    /\ anchored' = (hw_epoch # 0) /\ rtc_valid' = TRUE
    /\ ret' = IF nvs_epoch.epoch > 0 /\ Distance(hw_epoch, nvs_epoch.epoch) >= SkewThreshold
              THEN "SKEW" ELSE "OK"
    /\ UNCHANGED <<ds3231, agreed>>

from_hardware ==
    /\ hw_ok
    /\ clock' = [epoch |-> hw_epoch, origin |-> ds3231.origin]
    /\ anchored' = (hw_epoch # 0) /\ rtc_valid' = TRUE
    /\ ret' = IF nvs_epoch.epoch > 0 /\ Distance(hw_epoch, nvs_epoch.epoch) > SkewThreshold
              THEN "SKEW" ELSE "OK"
    /\ UNCHANGED <<ds3231, agreed>>

\* Seeded bug: the baked-in time comes before the stored one.
from_kconfig_first ==
    /\ ~hw_ok /\ nvs_epoch.epoch > 0
    /\ clock' = [epoch |-> build.provision, origin |-> "kconfig"]
    /\ anchored' = TRUE /\ rtc_valid' = FALSE /\ ret' = "FALLBACK"
    /\ rtc_hw_write(build.provision, "kconfig")
    /\ agreed' = FALSE

\* The NVS write of this branch and of the next stores what flush_resolved is about to
\* store again.
from_nvs ==
    /\ ~hw_ok /\ nvs_epoch.epoch > 0
    /\ clock' = nvs_epoch
    /\ anchored' = TRUE /\ rtc_valid' = TRUE /\ ret' = "FALLBACK"
    /\ rtc_hw_write(nvs_epoch.epoch, nvs_epoch.origin)
    /\ agreed' = FALSE

from_kconfig ==
    /\ ~hw_ok /\ nvs_epoch.epoch = 0 /\ build.provision # 0
    /\ clock' = [epoch |-> build.provision, origin |-> "kconfig"]
    /\ anchored' = TRUE /\ rtc_valid' = FALSE /\ ret' = "FALLBACK"
    /\ rtc_hw_write(build.provision, "kconfig")
    /\ agreed' = FALSE

from_nothing ==
    /\ ~hw_ok /\ nvs_epoch.epoch = 0 /\ build.provision = 0
    /\ clock' = Unset
    /\ anchored' = FALSE /\ rtc_valid' = FALSE /\ ret' = "HW"
    /\ UNCHANGED <<ds3231, agreed>>

\* History: the DS3231 gave no time, and the store none of what it holds.
NeitherRead == ~hw_ok /\ nvs_epoch.epoch = 0 /\ nvs.epoch # 0

resolve_epoch ==
    /\ pc = "resolve"
    /\ pc' = "flush"
    /\ from_hardware \/ from_nvs \/ from_kconfig \/ from_nothing
    /\ shown' = IF NeitherRead THEN 0 ELSE shown
    /\ UNCHANGED <<build, ready, nvs, init_locals, since_flush, age, saved, unsaved>>

\* Seeded bug: what came from the DS3231 is not stored.
flush_resolved_fallback ==
    /\ pc = "flush"
    /\ pc' = "run"
    /\ \/ anchored /\ ~hw_ok /\ rtc_settings_write_epoch(clock.epoch, clock.origin)
       \/ ~(anchored /\ ~hw_ok) /\ UNCHANGED <<nvs, history>>
    /\ UNCHANGED <<build, chip, init_locals, soft, ret, since_flush, age>>

flush_resolved ==
    /\ pc = "flush"
    /\ pc' = "run"
    /\ \/ anchored /\ rtc_settings_write_epoch(clock.epoch, clock.origin)
       \/ ~anchored /\ UNCHANGED <<nvs, history>>
    /\ UNCHANGED <<build, chip, init_locals, soft, ret, since_flush, age>>

----------------------------------------------------------------------------
(* The running node.                                                       *)

nvs_flush_fn ==
    /\ pc = "run" /\ since_flush = FlushInterval
    /\ since_flush' = 0
    /\ rtc_settings_write_epoch(clock.epoch, clock.origin)
    /\ UNCHANGED <<pc, build, chip, init_locals, soft, ret, age>>

\* lima_rtc_arm_wakeup() saves the epoch before it arms the alarm.
lima_rtc_flush ==
    /\ pc = "run" /\ ready /\ rtc_valid /\ anchored
    /\ rtc_settings_write_epoch(clock.epoch, clock.origin)
    /\ UNCHANGED <<pc, build, chip, init_locals, soft, ret, since_flush, age>>

----------------------------------------------------------------------------
(* What happens to the node.                                               *)

\* History: the clock may be held to what it shows in the next unit of time.
Accountable == pc = "run" /\ agreed /\ unsaved < FlushInterval

\* Seeded bug: nothing keeps the flush work scheduled.
Elapse_unflushed ==
    /\ pc = "off" \/ pc = "run"
    /\ age < MaxAge
    /\ age' = age + 1
    /\ ds3231' = [ds3231 EXCEPT !.time = @ + 1]
    /\ unsaved' = unsaved + 1
    /\ clock' = IF pc = "run" THEN [clock EXCEPT !.epoch = @ + 1] ELSE clock
    /\ since_flush' = IF pc = "run" THEN since_flush + 1 ELSE since_flush
    /\ shown' = IF Accountable THEN Later(shown, clock.epoch + 1) ELSE shown
    /\ UNCHANGED <<pc, build, ready, nvs, init_locals, anchored, rtc_valid, ret, saved, agreed>>

\* The flush work is due before time goes on.
Elapse ==
    /\ pc = "off" \/ (pc = "run" /\ since_flush < FlushInterval)
    /\ age < MaxAge
    /\ age' = age + 1
    /\ ds3231' = [ds3231 EXCEPT !.time = @ + 1]
    /\ unsaved' = unsaved + 1
    /\ clock' = IF pc = "run" THEN [clock EXCEPT !.epoch = @ + 1] ELSE clock
    /\ since_flush' = IF pc = "run" THEN since_flush + 1 ELSE since_flush
    /\ shown' = IF Accountable THEN Later(shown, clock.epoch + 1) ELSE shown
    /\ UNCHANGED <<pc, build, ready, nvs, init_locals, anchored, rtc_valid, ret, saved, agreed>>

PowerLoss ==
    /\ pc # "off"
    /\ pc' = "off"
    /\ UNCHANGED <<build, chip, nvs, init_locals, soft, ret, since_flush, age, history>>

\* The backup battery fails, or the chip is exchanged: its time no longer follows from
\* what it held.  A stopped oscillator leaves its flag behind.
ClockDisturbed ==
    /\ pc = "off"
    /\ \E t \in StrayTimes, stopped \in BOOLEAN :
         ds3231' = [time |-> t, osf |-> ds3231.osf \/ stopped,
                    origin |-> IF stopped THEN "stopped" ELSE "stray"]
    /\ agreed' = FALSE /\ shown' = 0
    /\ UNCHANGED <<pc, build, ready, nvs, init_locals, soft, ret, since_flush, age, saved,
                   unsaved>>

----------------------------------------------------------------------------

\* A node fresh from the factory: nothing stored, the DS3231 never set.
RtcInit ==
    /\ pc = "off"
    /\ build \in Builds
    /\ \E t \in StrayTimes : ds3231 = [time |-> t, osf |-> TRUE, origin |-> "stopped"]
    /\ ready = FALSE
    /\ nvs = Unset
    /\ nvs_epoch = nvs /\ hw_epoch = 0 /\ hw_ok = FALSE
    /\ clock = Unset
    /\ anchored = FALSE /\ rtc_valid = FALSE /\ ret = "OK"
    /\ since_flush = 0 /\ age = 0
    /\ saved = FALSE /\ unsaved = 0 /\ agreed = FALSE /\ shown = 0

lima_rtc_init == lima_rtc_set_epoch \/ set_epoch_flush \/ read_ds3231 \/ resolve_epoch
                    \/ flush_resolved

RtcNext == PowerOn \/ lima_rtc_init \/ nvs_flush_fn \/ lima_rtc_flush
             \/ Elapse \/ PowerLoss \/ ClockDisturbed

RtcSpec == RtcInit /\ [][RtcNext]_rtcvars

----------------------------------------------------------------------------
(* Properties.                                                             *)

Times == [epoch : Nat, origin : Origins]

\* Every variable keeps to its values.
RtcTypeOK ==
    /\ pc \in {"off", "provision", "provision_nvs", "read", "resolve", "flush", "run"}
    /\ build \in [force : BOOLEAN, provision : Nat]
    /\ ds3231 \in [time : Nat, osf : BOOLEAN, origin : Origins]
    /\ ready \in BOOLEAN
    /\ nvs \in Times
    /\ nvs_epoch \in Times /\ hw_epoch \in Nat /\ hw_ok \in BOOLEAN
    /\ clock \in Times
    /\ anchored \in BOOLEAN /\ rtc_valid \in BOOLEAN /\ ret \in Codes
    /\ since_flush \in 0 .. FlushInterval
    /\ age \in Nat
    /\ saved \in BOOLEAN /\ unsaved \in Nat /\ agreed \in BOOLEAN /\ shown \in Nat

\* As long as writes to the store succeed, what it holds is never further behind the
\* running clock than one flush interval, so that a power loss costs at most that much
\* (rtc.h:64-66), and comes from the same source.
StoredEpochFresh ==
    (pc = "run" /\ anchored /\ saved)
      => /\ clock.epoch - nvs.epoch \in 0 .. FlushInterval
         /\ clock.origin = nvs.origin

\* As long as a boot can read the DS3231 or the store, and whichever of them that is and
\* whatever else fails, the clock of a running node never falls back by more than one
\* flush interval behind what it showed while the DS3231 and a fresh store agreed.  A
\* boot that can read neither falls back on the time baked in, or on none, which is what
\* is documented (rtc.h:43, rtc.h:84), and what was shown before it is then forgotten; so
\* it is by a disturbed DS3231 and a provisioning.
ClockNeverFallsBack == pc = "run" => clock.epoch + FlushInterval >= shown

\* A skew is reported for a reason: the DS3231 and the store went apart, or nothing was
\* stored for longer than the threshold, which is many flush intervals.  A short outage
\* alone never looks like tampering, at whatever point of a boot or a flush the power
\* failed.  The build that provisions compares its new epoch with the old store, and is
\* left out.
SkewHasReason ==
    (pc = "flush" /\ ret = "SKEW" /\ ~build.force) => (~agreed \/ unsaved > SkewThreshold)

\* A time the DS3231 holds because its oscillator stopped is never taken for valid: it
\* "must NOT be treated as authoritative" (rtc.c:144-145).
StoppedClockRefused == rtc_valid => clock.origin # "stopped"

=============================================================================
