--------------------------- MODULE RtcEpochProofs ---------------------------
(* Proofs about RtcEpoch for every interval, threshold, set of builds, set of *)
(* failing calls and disturbance of the clock.                               *)
EXTENDS RtcEpoch, TLAPS

----------------------------------------------------------------------------
(* The inductive invariant.                                                *)

\* While the DS3231 and the store agree, they differ by the time since the store was
\* written, and no running clock is ahead of the DS3231.
Agreement ==
    agreed => /\ ds3231.time = nvs.epoch + unsaved
              /\ pc \in {"flush", "run"} => clock.epoch <= ds3231.time

\* The store lags behind the running clock by the time since the last flush at most.
Freshness ==
    (pc = "run" /\ anchored /\ saved)
      => /\ clock.epoch - nvs.epoch \in 0 .. since_flush
         /\ clock.origin = nvs.origin

\* What lima_rtc_init() copied, if it could, is still what the store and the chip hold
\* when it decides.
Copies ==
    /\ (pc \in {"read", "resolve"} /\ ~build.force) => nvs_epoch \in {nvs, Unset}
    /\ (pc = "resolve" /\ hw_ok) => hw_epoch = ds3231.time
    /\ pc \in {"provision", "provision_nvs"} => build.force

NotBehind(epoch) == epoch + FlushInterval >= shown

\* Every source a boot may choose, and then the clock itself, is recent enough.  A copy of
\* the store may be missing; falling back on nothing is then what NeitherRead is about.
Sources ==
    /\ NotBehind(nvs.epoch)
    /\ NotBehind(ds3231.time)
    /\ (pc \in {"provision", "provision_nvs", "read", "resolve"} /\ nvs_epoch.epoch # 0)
         => NotBehind(nvs_epoch.epoch)
    /\ pc \in {"flush", "run"} => NotBehind(clock.epoch)
    /\ pc = "provision_nvs" => shown = 0

RInv == RtcTypeOK /\ Agreement /\ Freshness /\ Copies /\ Sources /\ SkewHasReason

----------------------------------------------------------------------------
(* Lemmas about the writes that may fail.                                  *)

Chips == [time : Nat, osf : BOOLEAN, origin : Origins]

\* A call that may fail either does or does not.
LEMMA MayBoolean == \A fault : May(fault) \subseteq BOOLEAN
BY DEF May

\* A write of the DS3231 leaves it with the epoch or with the time it had.
LEMMA HwWriteFacts ==
  ASSUME NEW epoch \in Nat, NEW origin \in Origins, ds3231 \in Chips,
         rtc_hw_write(epoch, origin)
  PROVE  ds3231' \in Chips /\ ds3231'.time \in {epoch, ds3231.time}
<1>1. PICK failed \in May("hw_write"), osf \in {FALSE, ds3231.osf} :
        ds3231' = IF ready /\ ~failed
                  THEN [time |-> epoch, osf |-> osf, origin |-> origin] ELSE ds3231
  BY DEF rtc_hw_write
<1>2. osf \in BOOLEAN
  BY DEF Chips
<1> QED
  BY <1>1, <1>2 DEF Chips

\* A write of the store leaves it with the epoch or as it was, and the store and the
\* DS3231 agree after it only if they differ by the time since the store was written.
LEMMA NvsWriteFacts ==
  ASSUME NEW epoch \in Nat, NEW origin \in Origins, rtc_settings_write_epoch(epoch, origin),
         RtcTypeOK, Agreement
  PROVE  /\ nvs' \in Times /\ nvs'.epoch \in {nvs.epoch, epoch}
         /\ saved' \in BOOLEAN /\ unsaved' \in Nat /\ agreed' \in BOOLEAN
         /\ shown' = shown
         /\ saved' => nvs'.epoch = epoch /\ nvs'.origin = origin
         /\ agreed' => ds3231.time = nvs'.epoch + unsaved'
         /\ agreed' => agreed \/ ds3231.time = epoch
<1>1. PICK failed \in May("nvs_write") :
        /\ nvs' = IF failed THEN nvs ELSE [epoch |-> epoch, origin |-> origin]
        /\ saved' = ~failed
        /\ unsaved' = IF failed THEN unsaved ELSE 0
        /\ agreed' = IF failed THEN agreed ELSE epoch = ds3231.time
        /\ shown' = shown
  BY DEF rtc_settings_write_epoch
<1>2. failed \in BOOLEAN
  BY MayBoolean
<1>3. nvs \in Times /\ unsaved \in Nat /\ agreed \in BOOLEAN /\ ds3231.time \in Nat
  BY DEF RtcTypeOK
<1>4. CASE failed
  <2>1. nvs' = nvs /\ saved' = FALSE /\ unsaved' = unsaved /\ agreed' = agreed
    BY <1>1, <1>4
  <2> QED
    BY <1>1, <1>3, <2>1 DEF Agreement
<1>5. CASE ~failed
  <2>1. nvs' = [epoch |-> epoch, origin |-> origin]
    BY <1>1, <1>5
  <2>2. saved' = TRUE
    BY <1>1, <1>5
  <2>3. unsaved' = 0
    BY <1>1, <1>5
  <2>4. agreed' = (epoch = ds3231.time)
    BY <1>1, <1>5
  <2>5. agreed' \in BOOLEAN /\ (agreed' => ds3231.time = epoch)
    BY <2>4
  <2>6. nvs' \in Times /\ nvs'.epoch = epoch /\ nvs'.origin = origin
    BY <2>1 DEF Times
  <2> QED
    BY <1>1, <2>2, <2>3, <2>5, <2>6
<1> QED
  BY <1>4, <1>5

----------------------------------------------------------------------------
(* One lemma for each action.                                              *)

\* A node fresh from the factory satisfies the invariant.
LEMMA RInitStep == RtcInit => RInv
<1> SUFFICES ASSUME RtcInit PROVE RInv
  OBVIOUS
<1>1. PICK t \in StrayTimes : ds3231 = [time |-> t, osf |-> TRUE, origin |-> "stopped"]
  BY DEF RtcInit
<1>2. t \in Nat /\ build \in [force : BOOLEAN, provision : Nat]
  BY StrayAssumption, BuildAssumption DEF RtcInit
<1>3. RtcTypeOK
  <2>1. Unset \in Times
    BY DEF Unset, Times, Origins
  <2>2. ds3231 \in [time : Nat, osf : BOOLEAN, origin : Origins]
    BY <1>1, <1>2 DEF Origins
  <2>3. 0 \in 0 .. FlushInterval
    BY FlushAssumption
  <2> QED
    BY <1>2, <2>1, <2>2, <2>3 DEF RtcInit, RtcTypeOK, Codes
<1>4. Agreement /\ Freshness /\ Copies /\ SkewHasReason
  BY DEF RtcInit, Unset, Agreement, Freshness, Copies, SkewHasReason
<1>5. Sources
  BY <1>1, <1>2, FlushAssumption DEF RtcInit, Unset, Sources, NotBehind
<1> QED
  BY <1>3, <1>4, <1>5 DEF RInv

\* Booting copies what is stored and forgets the clock of the last boot.
LEMMA PowerOnStep ==
  ASSUME RInv, PowerOn
  PROVE  RInv'
<1>1. build' \in [force : BOOLEAN, provision : Nat] /\ ready' \in BOOLEAN
  BY BuildAssumption, MayBoolean DEF PowerOn
<1>2. nvs_epoch' \in {nvs, Unset}
  BY DEF PowerOn
<1>3. Unset \in Times /\ Unset.epoch = 0
  BY DEF Unset, Times, Origins
<1>4. RtcTypeOK'
  <2>1. nvs_epoch' \in Times /\ clock' \in Times
    BY <1>2, <1>3 DEF RInv, PowerOn, RtcTypeOK
  <2>2. 0 \in 0 .. FlushInterval
    BY FlushAssumption
  <2> QED
    BY <1>1, <2>1, <2>2 DEF RInv, PowerOn, RtcTypeOK, Codes, history
<1>5. Copies'
  BY <1>1, <1>2 DEF RInv, PowerOn, Copies
<1>6. Agreement' /\ Freshness' /\ SkewHasReason'
  BY <1>1 DEF RInv, PowerOn, Agreement, Freshness, SkewHasReason, history
<1>7. Sources'
  BY <1>2, <1>3 DEF RInv, PowerOn, Sources, NotBehind, history
<1> QED
  BY <1>4, <1>5, <1>6, <1>7 DEF RInv

\* Provisioning: nothing agrees and nothing has been shown until the boot is over.
LEMMA SetEpochStep ==
  ASSUME RInv, lima_rtc_set_epoch
  PROVE  RInv'
<1>1. build.provision \in Nat /\ ds3231 \in Chips
  BY DEF RInv, RtcTypeOK, Chips
<1>2. ds3231' \in Chips
  BY <1>1, HwWriteFacts DEF lima_rtc_set_epoch, Origins
<1>3. RtcTypeOK'
  BY <1>1, <1>2
  DEF RInv, lima_rtc_set_epoch, RtcTypeOK, Chips, Times, Origins, init_locals
<1>4. Agreement' /\ Freshness' /\ Copies' /\ SkewHasReason'
  BY DEF RInv, lima_rtc_set_epoch, Agreement, Freshness, Copies, SkewHasReason, init_locals
<1>5. Sources'
  BY <1>2, FlushAssumption
  DEF RInv, RtcTypeOK, Times, lima_rtc_set_epoch, Sources, NotBehind, Chips, init_locals
<1> QED
  BY <1>3, <1>4, <1>5 DEF RInv

\* Provisioning, second half: the new epoch is stored, or the old one stays.
LEMMA SetEpochFlushStep ==
  ASSUME RInv, set_epoch_flush
  PROVE  RInv'
<1>1. build.provision \in Nat /\ ds3231.time \in Nat /\ "set" \in Origins
  BY DEF RInv, RtcTypeOK, Origins
<1>2. /\ nvs' \in Times /\ saved' \in BOOLEAN /\ unsaved' \in Nat /\ agreed' \in BOOLEAN
      /\ shown' = shown
      /\ agreed' => ds3231.time = nvs'.epoch + unsaved'
  BY <1>1, NvsWriteFacts DEF RInv, set_epoch_flush
<1>3. RtcTypeOK'
  BY <1>2 DEF RInv, set_epoch_flush, RtcTypeOK, chip, init_locals, soft
<1>4. Agreement' /\ Freshness' /\ Copies' /\ SkewHasReason'
  BY <1>2
  DEF RInv, set_epoch_flush, Agreement, Freshness, Copies, SkewHasReason, chip, init_locals, soft
<1>5. Sources'
  BY <1>2, <1>3, FlushAssumption
  DEF RInv, set_epoch_flush, Sources, NotBehind, RtcTypeOK, Times, chip, init_locals, soft
<1> QED
  BY <1>3, <1>4, <1>5 DEF RInv

\* Reading the DS3231 changes its flag but not its time.
LEMMA ReadStep ==
  ASSUME RInv, read_ds3231
  PROVE  RInv'
<1>1. ds3231 \in Chips
  BY DEF RInv, RtcTypeOK, Chips
<1>2. PICK blind \in May("osf_read"), kept \in May("osf_clear"), unread \in May("hw_read") :
        LET osf == blind \/ ds3231.osf
        IN  /\ ds3231' = IF ready THEN [ds3231 EXCEPT !.osf = @ /\ kept] ELSE ds3231
            /\ hw_ok' = (ready /\ ~osf /\ ~unread)
            /\ hw_epoch' = IF ready /\ ~osf /\ ~unread THEN ds3231.time ELSE 0
  BY DEF read_ds3231
<1>3. ds3231' \in Chips /\ ds3231'.time = ds3231.time
  BY <1>1, <1>2 DEF Chips
<1>4. hw_ok' \in BOOLEAN /\ hw_epoch' \in Nat /\ (hw_ok' => hw_epoch' = ds3231.time)
  BY <1>1, <1>2 DEF Chips
<1>5. RtcTypeOK'
  BY <1>3, <1>4 DEF RInv, read_ds3231, RtcTypeOK, Chips, soft, history
<1>6. Agreement' /\ Freshness' /\ Copies' /\ SkewHasReason'
  BY <1>3, <1>4
  DEF RInv, read_ds3231, Agreement, Freshness, Copies, SkewHasReason, soft, history
<1>7. Sources'
  BY <1>3 DEF RInv, read_ds3231, Sources, NotBehind, soft, history
<1> QED
  BY <1>5, <1>6, <1>7 DEF RInv

\* Each source is recent enough, and only the DS3231's time can be reported as skewed.
LEMMA ResolveStep ==
  ASSUME RInv, resolve_epoch
  PROVE  RInv'
<1>1. /\ build.provision \in Nat /\ ds3231 \in Chips /\ nvs \in Times /\ nvs_epoch \in Times
      /\ hw_epoch \in Nat /\ unsaved \in Nat /\ shown \in Nat /\ pc = "resolve"
  BY DEF RInv, RtcTypeOK, Chips, resolve_epoch
<1>2. /\ clock' \in Times /\ ds3231' \in Chips /\ anchored' \in BOOLEAN
      /\ rtc_valid' \in BOOLEAN /\ ret' \in Codes /\ agreed' \in BOOLEAN
      /\ Agreement' /\ SkewHasReason'
      /\ NeitherRead \/ (NotBehind(ds3231'.time) /\ NotBehind(clock'.epoch))
  <2>1. CASE from_hardware
    <3>1. hw_epoch = ds3231.time /\ ds3231' = ds3231 /\ agreed' = agreed
      BY <1>1, <2>1 DEF RInv, Copies, from_hardware
    <3>2. clock' \in Times /\ clock'.epoch = ds3231.time
      BY <1>1, <2>1, <3>1 DEF from_hardware, Times, Chips
    <3>3. ASSUME ret' = "SKEW", ~build.force, agreed
          PROVE  unsaved > SkewThreshold
      <4>1. nvs_epoch = nvs /\ ds3231.time = nvs.epoch + unsaved
        BY <1>1, <2>1, <3>3 DEF RInv, Copies, Agreement, from_hardware, Unset, Codes
      <4>2. Distance(hw_epoch, nvs_epoch.epoch) > SkewThreshold
        BY <2>1, <3>3 DEF from_hardware
      <4> QED
        BY <1>1, <3>1, <4>1, <4>2 DEF Distance, Times
    <3>4. SkewHasReason'
      BY <3>1, <3>3 DEF SkewHasReason, resolve_epoch
    <3>5. Agreement'
      BY <1>1, <3>1, <3>2 DEF RInv, Agreement, resolve_epoch, Chips
    <3>6. NotBehind(ds3231'.time) /\ NotBehind(clock'.epoch)
      BY <3>1, <3>2 DEF RInv, Sources
    <3> QED
      BY <1>1, <2>1, <3>1, <3>2, <3>4, <3>5, <3>6 DEF from_hardware, RInv, RtcTypeOK, Codes
  <2>2. CASE from_nvs
    <3>1. ds3231' \in Chips /\ ds3231'.time \in {nvs_epoch.epoch, ds3231.time}
      BY <1>1, <2>2, HwWriteFacts DEF from_nvs, Times
    <3>2. nvs_epoch.epoch \in Nat /\ nvs_epoch.epoch # 0
      BY <1>1, <2>2 DEF from_nvs, Times
    <3>3. NotBehind(nvs_epoch.epoch) /\ NotBehind(ds3231.time)
      BY <1>1, <3>2 DEF RInv, Sources
    <3> QED
      BY <1>1, <2>2, <3>1, <3>3 DEF from_nvs, Agreement, SkewHasReason, Codes
  <2>3. CASE from_kconfig
    <3>1. ds3231' \in Chips /\ ds3231'.time \in {build.provision, ds3231.time}
      BY <1>1, <2>3, HwWriteFacts DEF from_kconfig, Origins
    <3>2. [epoch |-> build.provision, origin |-> "kconfig"] \in Times
      BY <1>1 DEF Times, Origins
    <3>3. NeitherRead \/ (NotBehind(0) /\ NotBehind(ds3231.time))
      BY <1>1, <2>3 DEF from_kconfig, NeitherRead, RInv, Sources
    <3>4. NeitherRead \/ NotBehind(build.provision)
      BY <1>1, <3>3, FlushAssumption DEF NotBehind
    <3> QED
      BY <2>3, <3>1, <3>2, <3>3, <3>4 DEF from_kconfig, Agreement, SkewHasReason, Codes
  <2>4. CASE from_nothing
    <3>1. clock' \in Times /\ clock'.epoch = 0
      BY <2>4 DEF from_nothing, Unset, Times, Origins
    <3>2. NeitherRead \/ (NotBehind(0) /\ NotBehind(ds3231.time))
      BY <1>1, <2>4 DEF from_nothing, NeitherRead, RInv, Sources
    <3>3. Agreement'
      BY <1>1, <2>4, <3>1 DEF from_nothing, RInv, Agreement, resolve_epoch, Chips
    <3> QED
      BY <1>1, <2>4, <3>1, <3>2, <3>3
      DEF from_nothing, RInv, RtcTypeOK, SkewHasReason, Codes
  <2> QED
    BY <2>1, <2>2, <2>3, <2>4 DEF resolve_epoch
<1>3. shown' = (IF NeitherRead THEN 0 ELSE shown) /\ shown' \in Nat
  BY <1>1 DEF resolve_epoch
<1>4. RtcTypeOK'
  BY <1>2, <1>3 DEF RInv, resolve_epoch, RtcTypeOK, Chips, init_locals
<1>5. Freshness' /\ Copies'
  BY DEF resolve_epoch, Freshness, Copies
<1>6. Sources'
  <2>1. nvs' = nvs /\ pc' = "flush" /\ nvs.epoch \in Nat /\ FlushInterval \in Nat
    BY <1>1, FlushAssumption DEF resolve_epoch, Times
  <2>2. ds3231'.time \in Nat /\ clock'.epoch \in Nat
    BY <1>2 DEF Chips, Times
  <2>3. CASE NeitherRead
    BY <1>3, <2>1, <2>2, <2>3 DEF Sources, NotBehind
  <2>4. CASE ~NeitherRead
    BY <1>2, <1>3, <2>1, <2>4 DEF RInv, Sources, NotBehind
  <2> QED
    BY <2>3, <2>4
<1> QED
  BY <1>2, <1>4, <1>5, <1>6 DEF RInv

\* The three places that store the running clock: the store is then as recent as it.
LEMMA StoreClock ==
  ASSUME RInv, pc \in {"flush", "run"}, pc' = "run",
         rtc_settings_write_epoch(clock.epoch, clock.origin),
         since_flush' \in 0 .. FlushInterval,
         UNCHANGED <<build, chip, init_locals, soft, ret, age>>
  PROVE  RInv'
<1>1. clock.epoch \in Nat /\ clock.origin \in Origins
  BY DEF RInv, RtcTypeOK, Times
<1>2. /\ nvs' \in Times /\ nvs'.epoch \in {nvs.epoch, clock.epoch}
      /\ saved' \in BOOLEAN /\ unsaved' \in Nat /\ agreed' \in BOOLEAN
      /\ shown' = shown
      /\ saved' => nvs'.epoch = clock.epoch /\ nvs'.origin = clock.origin
      /\ agreed' => ds3231.time = nvs'.epoch + unsaved'
      /\ agreed' => agreed \/ ds3231.time = clock.epoch
  BY <1>1, NvsWriteFacts DEF RInv
<1>3. RtcTypeOK'
  BY <1>2 DEF RInv, RtcTypeOK, chip, init_locals, soft
<1>4. Agreement'
  BY <1>1, <1>2 DEF RInv, Agreement, chip, init_locals, soft
<1>5. Freshness'
  <2>1. clock' = clock /\ anchored' = anchored
    BY DEF soft
  <2> QED
    BY <1>1, <1>2, <2>1 DEF Freshness
<1>6. Copies' /\ SkewHasReason'
  BY DEF Copies, SkewHasReason
<1>7. Sources'
  BY <1>2 DEF RInv, Sources, NotBehind, chip, init_locals, soft
<1> QED
  BY <1>3, <1>4, <1>5, <1>6, <1>7 DEF RInv

\* A boot ends by storing the clock it resolved, or has none to store.
LEMMA FlushResolvedStep ==
  ASSUME RInv, flush_resolved
  PROVE  RInv'
<1>1. CASE anchored
  BY <1>1, StoreClock DEF RInv, RtcTypeOK, flush_resolved
<1>2. CASE ~anchored
  <2>1. UNCHANGED <<build, chip, nvs, init_locals, soft, ret, since_flush, age, history>>
        /\ pc = "flush" /\ pc' = "run"
    BY <1>2 DEF flush_resolved
  <2>2. RtcTypeOK'
    BY <2>1 DEF RInv, RtcTypeOK, chip, init_locals, soft, history
  <2>3. Agreement' /\ Freshness' /\ Copies' /\ SkewHasReason' /\ Sources'
    BY <1>2, <2>1
    DEF RInv, Agreement, Freshness, Copies, SkewHasReason, Sources, NotBehind,
        chip, init_locals, soft, history
  <2> QED
    BY <2>2, <2>3 DEF RInv
<1> QED
  BY <1>1, <1>2 DEF RInv, RtcTypeOK

\* The periodic flush and the one before an alarm is armed.
LEMMA RunningFlushStep ==
  ASSUME RInv, nvs_flush_fn \/ lima_rtc_flush
  PROVE  RInv'
<1>1. since_flush' \in 0 .. FlushInterval
  BY FlushAssumption DEF RInv, RtcTypeOK, nvs_flush_fn, lima_rtc_flush
<1> QED
  BY <1>1, StoreClock DEF nvs_flush_fn, lima_rtc_flush

\* A running clock that moves on is not ahead of the DS3231, which is ahead of the store
\* by less than a flush interval: no source falls behind what the clock now shows.
LEMMA ElapseStep ==
  ASSUME RInv, Elapse
  PROVE  RInv'
<1>1. /\ ds3231 \in Chips /\ nvs \in Times /\ clock \in Times
      /\ since_flush \in 0 .. FlushInterval /\ unsaved \in Nat /\ shown \in Nat
      /\ age \in Nat /\ FlushInterval \in Nat
  BY FlushAssumption DEF RInv, RtcTypeOK, Chips
<1>2. ds3231' \in Chips /\ ds3231'.time = ds3231.time + 1
  BY <1>1 DEF Elapse, Chips
<1>3. /\ clock' \in Times /\ clock'.origin = clock.origin
      /\ clock'.epoch = IF pc = "run" THEN clock.epoch + 1 ELSE clock.epoch
  BY <1>1 DEF Elapse, Times
<1>4. /\ since_flush' \in 0 .. FlushInterval
      /\ since_flush' = IF pc = "run" THEN since_flush + 1 ELSE since_flush
  BY <1>1 DEF Elapse
<1>5. shown' \in Nat
  BY <1>1 DEF Elapse, Later, Times
<1>6. RtcTypeOK'
  BY <1>1, <1>2, <1>3, <1>4, <1>5 DEF RInv, RtcTypeOK, Elapse, Chips, init_locals
<1>7. Agreement'
  BY <1>1, <1>2, <1>3 DEF RInv, Agreement, Elapse, Times, Chips
<1>8. Freshness'
  BY <1>1, <1>3, <1>4 DEF RInv, Freshness, Elapse, Times
<1>9. Copies' /\ SkewHasReason'
  BY DEF Elapse, Copies, SkewHasReason
<1>10. Sources'
  <2>1. CASE Accountable
    <3>1. clock.epoch <= ds3231.time /\ ds3231.time = nvs.epoch + unsaved
      BY <2>1 DEF RInv, Agreement, Accountable
    <3>2. unsaved < FlushInterval /\ pc = "run" /\ pc' = "run"
      BY <2>1 DEF Accountable, Elapse
    <3>3. shown' \in {shown, clock.epoch + 1} /\ nvs' = nvs
      BY <2>1 DEF Elapse, Later
    <3> QED
      BY <1>1, <1>2, <1>3, <3>1, <3>2, <3>3 DEF RInv, Sources, NotBehind, Times, Chips
  <2>2. CASE ~Accountable
    <3>1. shown' = shown /\ nvs' = nvs /\ pc' = pc /\ pc \in {"off", "run"}
      BY <2>2 DEF Elapse
    <3> QED
      BY <1>1, <1>2, <1>3, <3>1 DEF RInv, Sources, NotBehind, Times, Chips
  <2> QED
    BY <2>1, <2>2
<1> QED
  BY <1>6, <1>7, <1>8, <1>9, <1>10 DEF RInv

\* Losing power changes nothing that outlives it.
LEMMA PowerLossStep ==
  ASSUME RInv, PowerLoss
  PROVE  RInv'
<1>1. RtcTypeOK'
  BY DEF RInv, PowerLoss, RtcTypeOK, chip, init_locals, soft, history
<1>2. Agreement' /\ Freshness' /\ Copies' /\ SkewHasReason' /\ Sources'
  BY DEF RInv, PowerLoss, Agreement, Freshness, Copies, SkewHasReason, Sources, NotBehind,
         chip, init_locals, soft, history
<1> QED
  BY <1>1, <1>2 DEF RInv

\* A disturbed DS3231 agrees with nothing, and nothing is owed to what was shown.
LEMMA DisturbedStep ==
  ASSUME RInv, ClockDisturbed
  PROVE  RInv'
<1>1. ds3231' \in Chips
  <2>1. PICK t \in StrayTimes, stopped \in BOOLEAN :
          ds3231' = [time |-> t, osf |-> ds3231.osf \/ stopped,
                     origin |-> IF stopped THEN "stopped" ELSE "stray"]
    BY DEF ClockDisturbed
  <2>2. t \in Nat /\ (ds3231.osf \/ stopped) \in BOOLEAN
    BY StrayAssumption
  <2>3. (IF stopped THEN "stopped" ELSE "stray") \in Origins
    BY DEF Origins
  <2> QED
    BY <2>1, <2>2, <2>3 DEF Chips
<1>2. RtcTypeOK'
  BY <1>1 DEF RInv, ClockDisturbed, RtcTypeOK, Chips, init_locals, soft
<1>3. Agreement' /\ Freshness' /\ Copies' /\ SkewHasReason'
  BY DEF RInv, ClockDisturbed, Agreement, Freshness, Copies, SkewHasReason, init_locals, soft
<1>4. Sources'
  BY <1>1, <1>2, FlushAssumption
  DEF RInv, ClockDisturbed, RtcTypeOK, Sources, NotBehind, Chips, Times, init_locals, soft
<1> QED
  BY <1>2, <1>3, <1>4 DEF RInv

\* A step of something else.
LEMMA RtcStutterStep ==
  ASSUME RInv, UNCHANGED rtcvars
  PROVE  RInv'
<1>1. RtcTypeOK'
  BY DEF RInv, rtcvars, RtcTypeOK, history
<1>2. Agreement' /\ Freshness' /\ Copies' /\ SkewHasReason' /\ Sources'
  BY DEF RInv, rtcvars, Agreement, Freshness, Copies, SkewHasReason, Sources, NotBehind,
         history
<1> QED
  BY <1>1, <1>2 DEF RInv

----------------------------------------------------------------------------
(* The theorems.                                                           *)

\* The invariant holds of every behaviour of the clock: all that follows rests on it.
THEOREM RtcInductive == RtcSpec => []RInv
<1>1. RtcInit => RInv
  BY RInitStep
<1>2. RInv /\ [RtcNext]_rtcvars => RInv'
  <2> SUFFICES ASSUME RInv, [RtcNext]_rtcvars PROVE RInv'
    OBVIOUS
  <2> QED
    BY PowerOnStep, SetEpochStep, SetEpochFlushStep, ReadStep, ResolveStep,
       FlushResolvedStep, RunningFlushStep, ElapseStep, PowerLossStep, DisturbedStep,
       RtcStutterStep
    DEF RtcNext, lima_rtc_init
<1> QED
  BY <1>1, <1>2, PTL DEF RtcSpec

\* Every variable of the clock keeps to its values.
THEOREM RtcTypeCorrect == RtcSpec => []RtcTypeOK
<1>1. RInv => RtcTypeOK
  BY DEF RInv
<1> QED
  BY <1>1, RtcInductive, PTL

\* A power loss costs at most one flush interval: as long as writes to the store succeed,
\* it is no further behind the running clock, and of the same source, whatever the
\* interval, the builds and the other calls that fail.
THEOREM StoreStaysFresh == RtcSpec => []StoredEpochFresh
<1>1. RInv => StoredEpochFresh
  BY FlushAssumption DEF RInv, RtcTypeOK, Times, Freshness, StoredEpochFresh
<1> QED
  BY <1>1, RtcInductive, PTL

\* As long as a boot can read the DS3231 or the store, the clock never falls back by more
\* than a flush interval behind what it showed while the two agreed, whichever of them is
\* read and whatever else fails.  (What was shown is forgotten by a boot that reads neither.)
THEOREM NoFallBack == RtcSpec => []ClockNeverFallsBack
<1>1. RInv => ClockNeverFallsBack
  BY DEF RInv, Sources, NotBehind, ClockNeverFallsBack
<1> QED
  BY <1>1, RtcInductive, PTL

\* An outage alone, at whatever point of a boot or a flush the power fails, is never
\* reported as a skew.
THEOREM SkewsHaveReasons == RtcSpec => []SkewHasReason
<1>1. RInv => SkewHasReason
  BY DEF RInv
<1> QED
  BY <1>1, RtcInductive, PTL

=============================================================================
