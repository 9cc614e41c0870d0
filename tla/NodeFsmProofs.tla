--------------------------- MODULE NodeFsmProofs ---------------------------
(* Proofs about NodeFsm for every queue depth, delay, fault and boot outcome. *)
EXTENDS NodeFsm, SequenceTheorems, FiniteSetTheorems, TLAPS

----------------------------------------------------------------------------
(* Lemmas about the message queue.                                         *)

\* Retiring messages changes neither how many there are nor their types.
LEMMA RetireFacts ==
  ASSUME NEW q \in Seq(Messages), NEW types
  PROVE  /\ Retire(q, types) \in Seq(Messages)
         /\ Len(Retire(q, types)) = Len(q)
         /\ \A e : Holds(Retire(q, types), e) <=> Holds(q, e)
<1> DEFINE n == Len(q)
           r == Retire(q, types)
<1>1. n \in Nat /\ DOMAIN q = 1 .. n
  BY LenProperties
<1>2. \A i \in 1 .. n : q[i] \in Messages
  BY ElementOfSeq
<1>3. r \in [1 .. n -> Messages]
  BY <1>1, <1>2 DEF Retire, Message, Messages
<1>4. r \in Seq(Messages)
  BY <1>1, <1>3, SeqDef
<1>5. Len(r) = n
  BY <1>1, <1>3, <1>4, LenProperties
<1>6. \A i \in 1 .. n : r[i].type = q[i].type
  BY <1>1, <1>2 DEF Retire, Message
<1>7. \A e : Holds(r, e) <=> Holds(q, e)
  BY <1>1, <1>3, <1>6 DEF Holds
<1> QED
  BY <1>4, <1>5, <1>7

\* Taking the first message leaves every message of another type in the queue.
LEMMA TailFacts ==
  ASSUME NEW q \in Seq(Messages), q # <<>>
  PROVE  /\ Head(q) \in Messages
         /\ Tail(q) \in Seq(Messages)
         /\ Len(Tail(q)) = Len(q) - 1
         /\ \A e : Holds(q, e) /\ e # Head(q).type => Holds(Tail(q), e)
<1>1. /\ Head(q) \in Messages
      /\ Tail(q) \in Seq(Messages)
      /\ Len(Tail(q)) = Len(q) - 1
      /\ \A i \in 1 .. Len(Tail(q)) : Tail(q)[i] = q[i + 1]
  BY HeadTailProperties
<1>2. DOMAIN q = 1 .. Len(q) /\ DOMAIN Tail(q) = 1 .. Len(q) - 1 /\ Len(q) \in Nat
  BY <1>1, LenProperties
<1>3. ASSUME NEW e, Holds(q, e), e # Head(q).type
      PROVE  Holds(Tail(q), e)
  <2>1. PICK i \in 1 .. Len(q) : q[i].type = e
    BY <1>2, <1>3 DEF Holds
  <2>2. i # 1
    BY <1>3, <2>1
  <2>3. i - 1 \in 1 .. Len(Tail(q)) /\ Tail(q)[i - 1] = q[i]
    BY <1>1, <1>2, <2>1, <2>2
  <2> QED
    BY <1>1, <1>2, <2>1, <2>3 DEF Holds
<1> QED
  BY <1>1, <1>3

\* Posting keeps the messages already queued, and unless the queue was full the
\* posted message is among them.
LEMMA PostFacts ==
  ASSUME NEW q \in Seq(Messages), Len(q) <= QueueDepth,
         NEW ms \in Seq(Messages), Len(ms) <= 1,
         lost \in BOOLEAN, Post(q, ms)
  PROVE  /\ queue' \in Seq(Messages)
         /\ Len(queue') <= QueueDepth
         /\ lost' \in BOOLEAN
         /\ ~lost' => ~lost
         /\ \A e : Holds(q, e) => Holds(queue', e)
         /\ ~lost' => \A e : Holds(ms, e) => Holds(queue', e)
<1>0. QueueDepth \in Nat /\ Len(q) \in Nat /\ Len(ms) \in Nat
  BY DepthAssumption, LenProperties
<1>1. /\ q \o ms \in Seq(Messages)
      /\ Len(q \o ms) = Len(q) + Len(ms)
      /\ \A i \in 1 .. Len(q) + Len(ms) :
            (q \o ms)[i] = IF i <= Len(q) THEN q[i] ELSE ms[i - Len(q)]
  BY ConcatProperties
<1>2. /\ DOMAIN q = 1 .. Len(q)
      /\ DOMAIN ms = 1 .. Len(ms)
      /\ DOMAIN (q \o ms) = 1 .. Len(q) + Len(ms)
  BY <1>1, LenProperties
<1>3. \A e : Holds(q, e) => Holds(q \o ms, e)
  BY <1>0, <1>1, <1>2 DEF Holds
<1>4. ASSUME NEW e, Holds(ms, e) PROVE Holds(q \o ms, e)
  <2>1. PICK i \in 1 .. Len(ms) : ms[i].type = e
    BY <1>2, <1>4 DEF Holds
  <2>2. Len(q) + i \in 1 .. Len(q) + Len(ms) /\ (q \o ms)[Len(q) + i] = ms[i]
    BY <1>0, <1>1, <2>1
  <2> QED
    BY <1>2, <2>1, <2>2 DEF Holds
<1>5. CASE Len(q) < QueueDepth
  BY <1>0, <1>1, <1>3, <1>4, <1>5 DEF Post
<1>6. CASE ~(Len(q) < QueueDepth)
  <2>0. Len(q) >= QueueDepth
    BY <1>0, <1>6
  <2>1. queue' = q
    BY <1>6 DEF Post
  <2>3. (~lost' => ms = <<>> /\ ~lost) /\ lost' \in BOOLEAN
    BY <2>0, Zenon DEF Post
  <2>2. \A e : ms = <<>> => ~Holds(ms, e)
    BY DEF Holds
  <2> QED
    BY <2>1, <2>2, <2>3
<1> QED
  BY <1>5, <1>6

\* A single message to post.
LEMMA MessageFacts ==
  ASSUME NEW e \in EventTypes, NEW live \in BOOLEAN
  PROVE  /\ <<Message(e, live)>> \in Seq(Messages)
         /\ Len(<<Message(e, live)>>) <= 1
         /\ Holds(<<Message(e, live)>>, e)
<1>1. Message(e, live) \in Messages /\ Message(e, live).type = e
  BY DEF Message, Messages
<1>2. <<Message(e, live)>> \in Seq(Messages) /\ DOMAIN <<Message(e, live)>> = 1 .. 1
  BY <1>1
<1>3. Holds(<<Message(e, live)>>, e)
  BY <1>1, <1>2 DEF Holds
<1>4. Len(<<Message(e, live)>>) <= 1
  OBVIOUS
<1> QED
  BY <1>2, <1>3, <1>4

----------------------------------------------------------------------------
(* The inductive invariant.                                                *)

\* The thread's position agrees with its state, and recovery always finds its
\* counter reset.
Coherent ==
    /\ fsm_pc = "init" => state = "BOOT"
    /\ fsm_pc = "signing" => state = "SIGNING"
    /\ fsm_pc = "advertising" => state = "TRANSMITTING"
    /\ fsm_pc = "arming" => state = "DEEP_SLEEP"
    /\ state # "FAULT" => fault_retries = 0

\* What NoDeadEnd does not say and the next state will need: the timeout of a
\* transmission while its HCI commands run, and, in ARMED, that of LIGHT_SLEEP.
Underway ==
    ~lost =>
      /\ state = "ARMED" => Pending("inactivity") \/ Queued("INACTIVITY_TIMEOUT")
      /\ state = "TRANSMITTING" => Pending("tx_timeout") \/ Queued("TX_TIMEOUT")

IInv == TypeOK /\ Coherent /\ Underway /\ NoDeadEnd

----------------------------------------------------------------------------
(* Lemmas about timers and transitions.                                    *)

\* A scheduled timer is pending, and only a cancelled one stops being so.
LEMMA SetTimersFacts ==
  ASSUME timer \in [Timers -> Nat], due \subseteq Timers,
         NEW scheduled \in SUBSET Timers, NEW cancelled \in SUBSET Timers,
         SetTimers(scheduled, cancelled)
  PROVE  /\ timer' \in [Timers -> Nat]
         /\ due' \subseteq Timers
         /\ \A t \in scheduled : Pending(t)'
         /\ \A t \in Timers \ cancelled : Pending(t) => Pending(t)'
<1>1. \A t \in Timers : Ticks[t] \in Nat /\ Ticks[t] > 0
  BY TicksAssumption
<1>2. timer' \in [Timers -> Nat] /\ due' = due \ cancelled
  BY <1>1 DEF SetTimers
<1>3. \A t \in scheduled : timer'[t] > 0
  BY <1>1 DEF SetTimers
<1>4. \A t \in Timers \ (cancelled \cup scheduled) : timer'[t] = timer[t]
  BY DEF SetTimers
<1> QED
  BY <1>2, <1>3, <1>4 DEF Pending

\* What transition() leaves behind, whatever state it enters.
LEMMA TransitionFacts ==
  ASSUME TypeOK,
         NEW next \in States, NEW q \in Seq(Messages), Len(q) <= QueueDepth,
         NEW also \in SUBSET Timers,
         Transition(next, q, 0, also)
  PROVE  /\ state' = next
         /\ fsm_pc' = EntryBlocks(next)
         /\ queue' \in Seq(Messages)
         /\ Len(queue') <= QueueDepth
         /\ lost' \in BOOLEAN
         /\ ~lost' => ~lost
         /\ timer' \in [Timers -> Nat]
         /\ due' \subseteq Timers
         /\ fault_retries' = (IF next = "FAULT" THEN 1 ELSE 0)
         /\ sensor' \in [pc : {"sleep", "imu", "baro"}, fired : BOOLEAN, live : BOOLEAN]
         /\ \A t \in EntrySchedules(next) : Pending(t)'
         /\ \A t \in Timers \ ExitCancels : Pending(t) => Pending(t)'
         /\ \A e : Holds(q, e) => Holds(queue', e)
         /\ ~lost' => \A e : Holds(EntryPosts(next, 0), e) => Holds(queue', e)
<1> DEFINE scheduled == EntrySchedules(next) \cup also
           touched   == {Expiry[t] : t \in scheduled \cup ExitCancels} \cup Closes(next)
           ms        == EntryPosts(next, 0)
<1>1. /\ state' = next
      /\ fsm_pc' = EntryBlocks(next)
      /\ SetTimers(scheduled, ExitCancels)
      /\ fault_retries' = IF next = "FAULT" /\ 0 < MaxFaultRetries THEN 0 + 1 ELSE 0
      /\ sensor' = [sensor EXCEPT !.live = @ /\ next # "COOLDOWN"]
      /\ Post(Retire(q, touched), ms)
  BY Zenon DEF Transition
<1>2. scheduled \in SUBSET Timers /\ ExitCancels \in SUBSET Timers
  BY DEF EntrySchedules, ExitCancels, Timers
<1>3. /\ timer' \in [Timers -> Nat]
      /\ due' \subseteq Timers
      /\ \A t \in scheduled : Pending(t)'
      /\ \A t \in Timers \ ExitCancels : Pending(t) => Pending(t)'
  BY <1>1, <1>2, SetTimersFacts DEF TypeOK
<1>4. ms \in Seq(Messages) /\ Len(ms) <= 1
  <2>1. PICK e \in EventTypes : ms = <<>> \/ ms = Fresh(e)
    BY RetryAssumption DEF EntryPosts, EventTypes, Lifecycle
  <2>2. <<>> \in Seq(Messages) /\ Len(<<>>) = 0
    BY EmptySeq
  <2>3. Fresh(e) \in Seq(Messages) /\ Len(Fresh(e)) <= 1
    BY MessageFacts DEF Fresh
  <2> HIDE DEF ms
  <2>4. CASE ms = <<>>
    BY <2>2, <2>4
  <2>5. CASE ms = Fresh(e)
    BY <2>3, <2>5, Zenon
  <2> QED
    BY <2>1, <2>4, <2>5
<1>5. /\ Retire(q, touched) \in Seq(Messages)
      /\ Len(Retire(q, touched)) <= QueueDepth
      /\ \A e : Holds(Retire(q, touched), e) <=> Holds(q, e)
  BY RetireFacts
<1>6. /\ queue' \in Seq(Messages)
      /\ Len(queue') <= QueueDepth
      /\ lost' \in BOOLEAN
      /\ ~lost' => ~lost
      /\ \A e : Holds(Retire(q, touched), e) => Holds(queue', e)
      /\ ~lost' => \A e : Holds(ms, e) => Holds(queue', e)
  <2>1. lost \in BOOLEAN
    BY DEF TypeOK
  <2> HIDE DEF ms, touched
  <2> QED
    BY <1>1, <1>4, <1>5, <2>1, PostFacts
<1>7. fault_retries' = (IF next = "FAULT" THEN 1 ELSE 0)
  BY <1>1, RetryAssumption
<1>8. sensor' \in [pc : {"sleep", "imu", "baro"}, fired : BOOLEAN, live : BOOLEAN]
  BY <1>1, Zenon DEF TypeOK
<1> QED
  BY <1>1, <1>3, <1>5, <1>6, <1>7, <1>8

\* Every state the FSM enters has its way out underway, or a call that will provide it.
\* LIGHT_SLEEP alone relies on something set up earlier: the inactivity timer.
LEMMA TransitionStep ==
  ASSUME TypeOK,
         NEW next \in States \ {"BOOT"},
         NEW q \in Seq(Messages), Len(q) <= QueueDepth,
         NEW also \in SUBSET Timers,
         Transition(next, q, 0, also),
         /\ next = "LIGHT_SLEEP" /\ ~lost
           => \/ Pending("inactivity") /\ "inactivity" \notin ExitCancels
              \/ Holds(q, "INACTIVITY_TIMEOUT")
  PROVE  Coherent' /\ Underway' /\ NoDeadEnd'
<1>1. /\ state' = next
      /\ fsm_pc' = EntryBlocks(next)
      /\ ~lost' => ~lost
      /\ fault_retries' = (IF next = "FAULT" THEN 1 ELSE 0)
      /\ \A t \in EntrySchedules(next) : Pending(t)'
      /\ \A t \in Timers \ ExitCancels : Pending(t) => Pending(t)'
      /\ \A e : Holds(q, e) => Holds(queue', e)
      /\ ~lost' => \A e : Holds(EntryPosts(next, 0), e) => Holds(queue', e)
  BY TransitionFacts
<1>2. Coherent'
  BY <1>1 DEF Coherent, EntryBlocks
<1>3. Underway'
  BY <1>1 DEF Underway, EntrySchedules
<1>4. NoDeadEnd'
  <2> SUFFICES ASSUME ~lost', fsm_pc' = "idle", next \in SelfLeaving
               PROVE  Leaving(next)'
    BY <1>1 DEF NoDeadEnd
  <2>1. next \in {"CALIBRATING", "ARMED", "LIGHT_SLEEP", "COOLDOWN", "FAULT"}
    BY <1>1 DEF EntryBlocks, SelfLeaving, States
  <2>2. CASE next = "CALIBRATING"
    <3>1. Holds(EntryPosts(next, 0), "BASELINE_READY")
      BY <2>2, MessageFacts DEF EntryPosts, Fresh, EventTypes, Lifecycle
    <3>2. Holds(queue', "BASELINE_READY")
      BY <1>1, <3>1
    <3> QED
      BY <2>2, <3>2 DEF Leaving, Queued, ExitMessages, Handled, States
  <2>3. CASE next = "ARMED"
    BY <1>1, <2>3 DEF Leaving, EntrySchedules, ExitTimers, States
  <2>4. CASE next = "LIGHT_SLEEP"
    <3>1. Pending("inactivity")' \/ Holds(queue', "INACTIVITY_TIMEOUT")
      BY <1>1, <2>4 DEF Timers
    <3> QED
      BY <2>4, <3>1 DEF Leaving, Queued, ExitTimers, ExitMessages, States
  <2>5. CASE next = "COOLDOWN"
    BY <1>1, <2>5 DEF Leaving, EntrySchedules, ExitTimers, States
  <2>6. CASE next = "FAULT"
    <3>1. EntryPosts(next, 0) = Fresh("RECOVERY_SUCCESS")
      BY <2>6, RetryAssumption DEF EntryPosts
    <3>2. Holds(EntryPosts(next, 0), "RECOVERY_SUCCESS")
      BY <3>1, MessageFacts DEF Fresh, EventTypes, Lifecycle
    <3>3. Holds(queue', "RECOVERY_SUCCESS")
      BY <1>1, <3>2
    <3> QED
      BY <2>6, <3>3 DEF Leaving, Queued, ExitMessages, Handled, States
  <2> QED
    BY <2>1, <2>2, <2>3, <2>4, <2>5, <2>6
<1> QED
  BY <1>2, <1>3, <1>4

\* A state is entered: the whole invariant follows.
LEMMA EnterStep ==
  ASSUME IInv,
         NEW next \in States \ {"BOOT"},
         NEW q \in Seq(Messages), Len(q) <= QueueDepth,
         NEW also \in SUBSET Timers,
         Transition(next, q, 0, also),
         /\ next = "LIGHT_SLEEP" /\ ~lost
           => \/ Pending("inactivity") /\ "inactivity" \notin ExitCancels
              \/ Holds(q, "INACTIVITY_TIMEOUT"),
         boot' = boot,
         last_event' \in Breaches \cup {NoEvent},
         sequence_counter' \in 0 .. SeqMod - 1,
         last_lf' \in Frames,
         adv' \in [on : BOOLEAN, cb : BOOLEAN, buf : Frames]
  PROVE  IInv'
<1>1. TypeOK
  BY DEF IInv
<1>2. Coherent' /\ Underway' /\ NoDeadEnd'
  BY <1>1, TransitionStep
<1>3. fsm_pc' \in {"init", "idle", "signing", "advertising", "arming"}
  <2>1. fsm_pc' = EntryBlocks(next)
    BY <1>1, TransitionFacts
  <2> QED
    BY <2>1 DEF EntryBlocks
<1>4. fault_retries' \in 0 .. MaxFaultRetries
  <2>1. fault_retries' = (IF next = "FAULT" THEN 1 ELSE 0)
    BY <1>1, TransitionFacts
  <2> QED
    BY <2>1, RetryAssumption
<1>5. TypeOK'
  <2>1. /\ state' = next
        /\ queue' \in Seq(Messages)
        /\ Len(queue') <= QueueDepth
        /\ lost' \in BOOLEAN
        /\ timer' \in [Timers -> Nat]
        /\ due' \subseteq Timers
        /\ sensor' \in [pc : {"sleep", "imu", "baro"}, fired : BOOLEAN, live : BOOLEAN]
    BY <1>1, TransitionFacts
  <2> QED
    BY <1>1, <1>3, <1>4, <2>1, Zenon DEF TypeOK
<1> QED
  BY <1>2, <1>5 DEF IInv

\* A step that stays in the state keeps what is underway, if it drops no message and
\* no timer but to turn it into its message.
LEMMA KeepStep ==
  ASSUME state \in States, UNCHANGED state,
         ~lost' => /\ ~lost
                   /\ \A e : Queued(e) => Queued(e)'
                   /\ \A t \in Timers : Pending(t) => Pending(t)' \/ Queued(Expiry[t])'
  PROVE  /\ Underway => Underway'
         /\ ~lost' /\ Leaving(state) => Leaving(state)'
<1>1. Underway => Underway'
  BY DEF Underway, Timers, Expiry
<1>2. ASSUME ~lost', Leaving(state) PROVE Leaving(state)'
  <2>1. CASE \E e \in ExitMessages[state] : Queued(e)
    BY <1>2, <2>1 DEF Leaving
  <2>2. CASE \E t \in ExitTimers[state] : Pending(t)
    <3>1. PICK t \in ExitTimers[state] : Pending(t)
      BY <2>2
    <3>2. t \in Timers /\ Expiry[t] \in ExitMessages[state]
      BY <3>1 DEF ExitTimers, ExitMessages, Expiry, States, Timers, Handled
    <3> QED
      BY <1>2, <3>1, <3>2 DEF Leaving
  <2> QED
    BY <1>2, <2>1, <2>2 DEF Leaving
<1> QED
  BY <1>1, <1>2

----------------------------------------------------------------------------
(* Every action preserves the invariant.                                   *)

LEMMA GotoStep ==
  ASSUME IInv, state # "FAULT",
         NEW next \in States \ {"BOOT"},
         NEW q \in Seq(Messages), Len(q) <= QueueDepth,
         Goto(next, q),
         /\ next = "LIGHT_SLEEP" /\ ~lost
           => \/ Pending("inactivity") /\ "inactivity" \notin ExitCancels
              \/ Holds(q, "INACTIVITY_TIMEOUT")
  PROVE  IInv'
<1>1. fault_retries = 0
  BY DEF IInv, Coherent
<1>2. Transition(next, q, 0, {})
  BY <1>1 DEF Goto
<1>3. /\ boot' = boot
      /\ last_event' \in Breaches \cup {NoEvent}
      /\ sequence_counter' \in 0 .. SeqMod - 1
      /\ last_lf' \in Frames
      /\ adv' \in [on : BOOLEAN, cb : BOOLEAN, buf : Frames]
  BY DEF Goto, IInv, TypeOK
<1> QED
  BY <1>2, <1>3, EnterStep

LEMMA AcceptStep ==
  ASSUME IInv, state # "FAULT",
         NEW e \in Breaches,
         NEW q \in Seq(Messages), Len(q) <= QueueDepth,
         NEW also \in SUBSET Timers,
         Accept(e, q, also)
  PROVE  IInv'
<1>1. fault_retries = 0
  BY DEF IInv, Coherent
<1>2. Transition("SIGNING", q, 0, also)
  BY <1>1 DEF Accept
<1>3. /\ boot' = boot
      /\ last_event' \in Breaches \cup {NoEvent}
      /\ last_lf' \in Frames
      /\ adv' \in [on : BOOLEAN, cb : BOOLEAN, buf : Frames]
  BY DEF Accept, IInv, TypeOK
<1>4. sequence_counter' \in 0 .. SeqMod - 1
  BY SeqAssumption DEF Accept, next_sequence, IInv, TypeOK
<1>5. "SIGNING" \in States \ {"BOOT"}
  BY DEF States
<1> QED
  BY <1>2, <1>3, <1>4, <1>5, EnterStep

LEMMA IgnoreStep ==
  ASSUME IInv, fsm_pc = "idle", queue # <<>>,
         unhandled(Head(queue).type, Tail(queue))
  PROVE  IInv'
<1> DEFINE e == Head(queue).type
<1>1. /\ e \notin Handled[state]
      /\ queue' = Tail(queue)
      /\ UNCHANGED <<boot, state, fsm_pc, timer, due, last_event, sequence_counter,
                     last_lf, fault_retries, adv, sensor, lost>>
  BY DEF unhandled, Ignore
<1>2. TypeOK
  BY DEF IInv
<1>3. /\ Tail(queue) \in Seq(Messages)
      /\ Len(Tail(queue)) = Len(queue) - 1
      /\ \A x : Holds(queue, x) /\ x # e => Holds(Tail(queue), x)
  BY <1>2, TailFacts DEF TypeOK
<1>4. Len(Tail(queue)) <= QueueDepth
  BY <1>2, <1>3, DepthAssumption, LenProperties DEF TypeOK
<1>5. TypeOK'
  BY <1>1, <1>2, <1>3, <1>4 DEF TypeOK
<1>6. Coherent'
  BY <1>1 DEF IInv, Coherent
<1>7. Underway'
  <2>1. state = "ARMED" => e # "INACTIVITY_TIMEOUT"
    BY <1>1 DEF Handled, States
  <2>2. state = "TRANSMITTING" => e # "TX_TIMEOUT"
    BY <1>1 DEF Handled, States
  <2> QED
    BY <1>1, <1>3, <2>1, <2>2 DEF IInv, Underway, Queued, Pending
<1>8. NoDeadEnd'
  <2> SUFFICES ASSUME Leaving(state), state \in SelfLeaving
               PROVE  Leaving(state)'
    BY <1>1 DEF IInv, NoDeadEnd
  <2>1. CASE \E x \in ExitMessages[state] : Queued(x)
    <3>1. PICK x \in ExitMessages[state] : Queued(x)
      BY <2>1
    <3>2. ExitMessages[state] \subseteq Handled[state]
      BY <1>2 DEF TypeOK, ExitMessages, Handled, States
    <3>3. x # e
      BY <1>1, <3>1, <3>2
    <3>4. Queued(x)'
      BY <1>1, <1>3, <3>1, <3>3 DEF Queued
    <3> QED
      BY <1>1, <3>1, <3>4 DEF Leaving
  <2>2. CASE \E t \in ExitTimers[state] : Pending(t)
    BY <1>1, <2>2 DEF Leaving, Pending
  <2> QED
    BY <2>1, <2>2 DEF Leaving
<1> QED
  BY <1>5, <1>6, <1>7, <1>8 DEF IInv

LEMMA DispatchStep ==
  ASSUME IInv, fsm_dispatch
  PROVE  IInv'
<1> DEFINE e == Head(queue).type
           q == Tail(queue)
<1>1. fsm_pc = "idle" /\ queue # <<>>
  BY DEF fsm_dispatch, Dispatching
<1>2. state \in States /\ queue \in Seq(Messages) /\ Len(queue) <= QueueDepth
  BY DEF IInv, TypeOK
<1>3. /\ q \in Seq(Messages)
      /\ Len(q) = Len(queue) - 1
      /\ \A x : Holds(queue, x) /\ x # e => Holds(q, x)
  BY <1>1, <1>2, TailFacts
<1>4. Len(q) <= QueueDepth
  BY <1>2, <1>3, DepthAssumption, LenProperties
<1>5. \/ boot_handle(e, q)
      \/ state_armed_handle(e, q)
      \/ state_light_sleep_handle(e, q)
      \/ state_deep_sleep_handle(e, q)
      \/ state_signing_handle(e, q)
      \/ state_transmitting_handle(e, q)
      \/ state_cooldown_handle(e, q)
      \/ state_fault_handle(e, q)
      \/ state_low_battery_handle(e, q)
      \/ unhandled(e, q)
  BY DEF fsm_dispatch
<1>6. {"inactivity"} \in SUBSET Timers /\ {} \in SUBSET Timers
  BY DEF Timers
<1> HIDE DEF e, q
<1>7. CASE boot_handle(e, q)
  BY <1>3, <1>4, <1>7, GotoStep DEF boot_handle, States
<1>8. CASE state_armed_handle(e, q)
  <2>1. state = "ARMED"
    BY <1>8 DEF state_armed_handle
  <2>2. CASE e \in Breaches /\ Accept(e, q, {"inactivity"})
    BY <1>3, <1>4, <1>6, <2>1, <2>2, AcceptStep
  <2>3. CASE e = "ARMED_TIMEOUT" /\ Goto("LIGHT_SLEEP", q)
    <3>1. "inactivity" \notin ExitCancels
      BY <2>1 DEF ExitCancels
    <3>2. ~lost => Pending("inactivity") \/ Holds(q, "INACTIVITY_TIMEOUT")
      BY <1>3, <2>1, <2>3 DEF IInv, Underway, Queued
    <3> QED
      BY <1>3, <1>4, <2>1, <2>3, <3>1, <3>2, GotoStep DEF States
  <2>4. CASE \E next \in {"DEEP_SLEEP", "LOW_BATTERY", "FAULT"} : Goto(next, q)
    BY <1>3, <1>4, <2>1, <2>4, GotoStep DEF States
  <2> QED
    BY <1>8, <2>2, <2>3, <2>4 DEF state_armed_handle
<1>9. CASE state_light_sleep_handle(e, q)
  BY <1>3, <1>4, <1>6, <1>9, AcceptStep, GotoStep DEF state_light_sleep_handle, States
<1>10. CASE state_deep_sleep_handle(e, q)
  BY <1>3, <1>4, <1>10, GotoStep DEF state_deep_sleep_handle, States
<1>11. CASE state_signing_handle(e, q)
  BY <1>3, <1>4, <1>11, GotoStep DEF state_signing_handle, States
<1>12. CASE state_transmitting_handle(e, q)
  <2>1. state = "TRANSMITTING"
    BY <1>12 DEF state_transmitting_handle
  <2>2. CASE Goto("COOLDOWN", q)
    BY <1>3, <1>4, <2>1, <2>2, GotoStep DEF States
  <2>3. CASE /\ Transition("FAULT", q, 0, {})
             /\ UNCHANGED <<boot, last_event, sequence_counter, last_lf, adv>>
    BY <1>3, <1>4, <1>6, <2>3, EnterStep DEF States, IInv, TypeOK
  <2> QED
    BY <1>12, <2>2, <2>3 DEF state_transmitting_handle
<1>13. CASE state_cooldown_handle(e, q)
  <2>1. "TAMPER_DETECTED" \in Breaches
    BY DEF Breaches
  <2> QED
    BY <1>3, <1>4, <1>6, <1>13, <2>1, AcceptStep, GotoStep
    DEF state_cooldown_handle, States
<1>14. CASE state_fault_handle(e, q)
  BY <1>3, <1>4, <1>6, <1>14, EnterStep DEF state_fault_handle, States, IInv, TypeOK
<1>15. CASE state_low_battery_handle(e, q)
  BY <1>3, <1>4, <1>6, <1>15, AcceptStep, GotoStep DEF state_low_battery_handle, States
<1>16. CASE unhandled(e, q)
  BY <1>1, <1>16, IgnoreStep DEF e, q
<1> QED
  BY <1>5, <1>7, <1>8, <1>9, <1>10, <1>11, <1>12, <1>13, <1>14, <1>15, <1>16

\* A step whose only effect on the invariant is to post, and perhaps to wake the FSM
\* thread: m is what it posts.
LEMMA PostStep ==
  ASSUME IInv, TypeOK',
         NEW m \in Seq(Messages), Len(m) <= 1,
         Post(queue, m),
         UNCHANGED <<state, timer, due, fault_retries>>,
         \/ UNCHANGED fsm_pc
         \/ fsm_pc' = "idle" /\ \E e \in ExitMessages[state] : Holds(m, e)
  PROVE  IInv'
<1>1. /\ queue \in Seq(Messages) /\ Len(queue) <= QueueDepth
      /\ lost \in BOOLEAN /\ state \in States
  BY DEF IInv, TypeOK
<1>2. /\ ~lost' => ~lost
      /\ \A e : Holds(queue, e) => Holds(queue', e)
      /\ ~lost' => \A e : Holds(m, e) => Holds(queue', e)
  BY <1>1, PostFacts
<1>3. Coherent'
  BY DEF IInv, Coherent
<1>4. Underway' /\ (~lost' /\ Leaving(state) => Leaving(state)')
  BY <1>1, <1>2, KeepStep DEF IInv, Queued, Pending
<1>5. NoDeadEnd'
  <2>1. CASE UNCHANGED fsm_pc
    BY <1>2, <1>4, <2>1 DEF IInv, NoDeadEnd
  <2>2. CASE fsm_pc' = "idle" /\ \E e \in ExitMessages[state] : Holds(m, e)
    BY <1>2, <2>2 DEF NoDeadEnd, Leaving, Queued
  <2> QED
    BY <2>1, <2>2
<1> QED
  BY <1>3, <1>4, <1>5 DEF IInv

\* The variables Post assigns keep their types.
LEMMA PostType ==
  ASSUME TypeOK, NEW m \in Seq(Messages), Len(m) <= 1, Post(queue, m)
  PROVE  queue' \in Seq(Messages) /\ Len(queue') <= QueueDepth /\ lost' \in BOOLEAN
BY PostFacts DEF TypeOK

LEMMA InitStep == Init => IInv
<1> SUFFICES ASSUME Init PROVE IInv
  OBVIOUS
<1>1. queue \in Seq(Messages) /\ Len(queue) <= QueueDepth
  <2>1. /\ Fresh("TAMPER_DETECTED") \in Seq(Messages)
        /\ Len(Fresh("TAMPER_DETECTED")) <= 1
    BY MessageFacts DEF Fresh, EventTypes, Breaches
  <2>2. CASE queue = Fresh("TAMPER_DETECTED")
    BY <2>1, <2>2, DepthAssumption, LenProperties
  <2>3. CASE queue = <<>>
    BY <2>3, EmptySeq, DepthAssumption
  <2> QED
    BY <2>2, <2>3 DEF Init
<1>2. NoFrame \in Frames
  BY SeqAssumption DEF NoFrame, Frames
<1>3. TypeOK
  <2>1. 0 \in 0 .. SeqMod - 1 /\ 0 \in 0 .. MaxFaultRetries /\ 0 \in Nat
    BY SeqAssumption, RetryAssumption
  <2>2. timer \in [Timers -> Nat]
    BY <2>1 DEF Init
  <2> QED
    BY <1>1, <1>2, <2>1, <2>2, BootAssumption, Zenon DEF Init, TypeOK, States
<1>4. Coherent /\ Underway /\ NoDeadEnd
  BY DEF Init, Coherent, Underway, NoDeadEnd
<1> QED
  BY <1>3, <1>4 DEF IInv

LEMMA FsmInitStep ==
  ASSUME IInv, fsm_init
  PROVE  IInv'
<1>1. /\ Fresh("INIT_COMPLETE") \in Seq(Messages)
      /\ Len(Fresh("INIT_COMPLETE")) <= 1
      /\ Holds(Fresh("INIT_COMPLETE"), "INIT_COMPLETE")
  BY MessageFacts DEF Fresh, EventTypes, Lifecycle
<1>2. Post(queue, Fresh("INIT_COMPLETE"))
  BY DEF fsm_init
<1>3. TypeOK'
  BY <1>1, <1>2, PostType DEF IInv, TypeOK, fsm_init
<1>4. "INIT_COMPLETE" \in ExitMessages[state]
  BY DEF IInv, Coherent, fsm_init, ExitMessages, Handled, States
<1> QED
  BY <1>1, <1>2, <1>3, <1>4, PostStep DEF fsm_init

LEMMA SigningEndsStep ==
  ASSUME IInv, fsm_pc = "signing",
         NEW e \in {"SIGNING_COMPLETE", "SENSOR_FAULT"}, NEW lf \in Frames,
         SigningEnds(e, lf)
  PROVE  IInv'
<1>1. /\ Fresh(e) \in Seq(Messages)
      /\ Len(Fresh(e)) <= 1
      /\ Holds(Fresh(e), e)
  BY MessageFacts DEF Fresh, EventTypes, Completions
<1>2. Post(queue, Fresh(e))
  BY DEF SigningEnds
<1>3. TypeOK'
  BY <1>1, <1>2, PostType DEF IInv, TypeOK, SigningEnds
<1>4. e \in ExitMessages[state]
  BY DEF IInv, Coherent, ExitMessages, Handled, States
<1> QED
  BY <1>1, <1>2, <1>3, <1>4, PostStep DEF SigningEnds

LEMMA SigningStep ==
  ASSUME IInv, signing_complete
  PROVE  IInv'
<1>1. fsm_pc = "signing" /\ state = "SIGNING"
  BY DEF signing_complete, IInv, Coherent
<1>2. queue \in Seq(Messages) /\ Len(queue) <= QueueDepth /\ last_lf \in Frames
  BY DEF IInv, TypeOK
<1>3. CASE Goto("FAULT", queue)
  BY <1>1, <1>2, <1>3, GotoStep DEF States
<1>4. CASE SigningEnds("SENSOR_FAULT", last_lf)
  BY <1>1, <1>2, <1>4, SigningEndsStep
<1>5. CASE SigningEnds("SENSOR_FAULT", NoFrame)
  <2>1. NoFrame \in Frames
    BY SeqAssumption DEF NoFrame, Frames
  <2> QED
    BY <1>1, <1>5, <2>1, SigningEndsStep
<1>6. CASE SigningEnds("SIGNING_COMPLETE", lima_crypto_build_lf)
  <2>1. lima_crypto_build_lf \in Frames
    BY DEF IInv, TypeOK, Frames, EventTypes, lima_crypto_build_lf
  <2> QED
    BY <1>1, <1>6, <2>1, SigningEndsStep
<1> QED
  BY <1>3, <1>4, <1>5, <1>6 DEF signing_complete

LEMMA AdvertiseFailsStep ==
  ASSUME IInv, fsm_pc = "advertising",
         NEW a \in [on : BOOLEAN, cb : BOOLEAN, buf : Frames],
         AdvertiseFails(a)
  PROVE  IInv'
<1>1. fault_retries = 0
  BY DEF IInv, Coherent
<1>2. Transition("FAULT", queue, 0, {})
  BY <1>1 DEF AdvertiseFails
<1>3. /\ queue \in Seq(Messages) /\ Len(queue) <= QueueDepth
      /\ boot' = boot
      /\ last_event' \in Breaches \cup {NoEvent}
      /\ sequence_counter' \in 0 .. SeqMod - 1
      /\ last_lf' \in Frames
      /\ adv' \in [on : BOOLEAN, cb : BOOLEAN, buf : Frames]
  BY DEF AdvertiseFails, IInv, TypeOK
<1>4. "FAULT" \in States \ {"BOOT"} /\ {} \in SUBSET Timers
  BY DEF States
<1> QED
  BY <1>2, <1>3, <1>4, EnterStep

LEMMA AdvertiseStep ==
  ASSUME IInv, lima_ble_advertise
  PROVE  IInv'
<1>1. fsm_pc = "advertising" /\ state = "TRANSMITTING"
  BY DEF lima_ble_advertise, IInv, Coherent
<1>2. /\ adv \in [on : BOOLEAN, cb : BOOLEAN, buf : Frames]
      /\ last_lf \in Frames
  BY DEF IInv, TypeOK
<1>3. CASE \E a \in [on : BOOLEAN, cb : BOOLEAN, buf : Frames] : AdvertiseFails(a)
  BY <1>1, <1>3, AdvertiseFailsStep
<1>4. CASE /\ adv' = [on |-> TRUE, cb |-> TRUE, buf |-> last_lf]
           /\ fsm_pc' = "idle"
           /\ SetTimers({"adv_stop"}, {})
           /\ UNCHANGED <<boot, state, queue, last_event, sequence_counter, last_lf,
                          fault_retries, sensor, lost>>
  <2>1. {"adv_stop"} \in SUBSET Timers /\ {} \in SUBSET Timers
    BY DEF Timers
  <2>2. /\ timer' \in [Timers -> Nat]
        /\ due' \subseteq Timers
        /\ \A t \in Timers : Pending(t) => Pending(t)'
    <3>1. timer \in [Timers -> Nat] /\ due \subseteq Timers
      BY DEF IInv, TypeOK
    <3>2. \A t \in Timers \ {} : Pending(t) => Pending(t)'
      BY <1>4, <2>1, <3>1, SetTimersFacts
    <3> QED
      BY <1>4, <2>1, <3>1, <3>2, SetTimersFacts
  <2>3. TypeOK'
    BY <1>2, <1>4, <2>2, Zenon DEF IInv, TypeOK
  <2>4. Coherent'
    BY <1>1, <1>4 DEF IInv, Coherent
  <2>5. Underway'
    BY <1>4, <2>2, KeepStep DEF IInv, TypeOK, Queued
  <2>6. NoDeadEnd'
    BY <1>1, <1>4, <2>5
    DEF NoDeadEnd, Underway, Leaving, ExitTimers, ExitMessages, Handled, States
  <2> QED
    BY <2>3, <2>4, <2>5, <2>6 DEF IInv
<1>5. /\ adv \in [on : BOOLEAN, cb : BOOLEAN, buf : Frames]
      /\ [adv EXCEPT !.buf = last_lf] \in [on : BOOLEAN, cb : BOOLEAN, buf : Frames]
      /\ [adv EXCEPT !.buf = last_lf, !.cb = FALSE]
            \in [on : BOOLEAN, cb : BOOLEAN, buf : Frames]
  BY <1>2
<1> QED
  BY <1>3, <1>4, <1>5 DEF lima_ble_advertise

LEMMA ArmStep ==
  ASSUME IInv, lima_rtc_arm_wakeup
  PROVE  IInv'
<1>1. fsm_pc = "arming" /\ state = "DEEP_SLEEP"
  BY DEF lima_rtc_arm_wakeup, IInv, Coherent
<1>2. PICK scheduled \in {{"rtc_fallback"}, {"rtc_alarm"}, {}} :
         /\ ArmsTimer(scheduled)
         /\ scheduled = {} => "rtc_read" \in Faults
  BY DEF lima_rtc_arm_wakeup
<1> DEFINE types == {Expiry[t] : t \in scheduled}
<1>3. /\ fsm_pc' = "idle"
      /\ SetTimers(scheduled, {})
      /\ queue' = Retire(queue, types)
      /\ UNCHANGED <<boot, state, last_event, sequence_counter, last_lf, fault_retries,
                     adv, sensor, lost>>
  BY <1>2 DEF ArmsTimer
<1>4. scheduled \in SUBSET Timers /\ {} \in SUBSET Timers
  BY DEF Timers
<1>5. /\ timer' \in [Timers -> Nat]
      /\ due' \subseteq Timers
      /\ \A t \in scheduled : Pending(t)'
      /\ \A t \in Timers : Pending(t) => Pending(t)'
  BY <1>3, <1>4, SetTimersFacts DEF IInv, TypeOK
<1>6. /\ queue' \in Seq(Messages)
      /\ Len(queue') <= QueueDepth
      /\ \A e : Queued(e) => Queued(e)'
  <2>1. queue \in Seq(Messages) /\ Len(queue) <= QueueDepth
    BY DEF IInv, TypeOK
  <2> HIDE DEF types
  <2> QED
    BY <1>3, <2>1, RetireFacts DEF Queued
<1>7. TypeOK'
  BY <1>3, <1>5, <1>6, Zenon DEF IInv, TypeOK
<1>8. Coherent'
  BY <1>1, <1>3 DEF IInv, Coherent
<1>9. Underway'
  BY <1>1, <1>3 DEF Underway
<1>10. NoDeadEnd'
  <2>1. CASE scheduled = {}
    BY <1>1, <1>2, <1>3, <2>1 DEF NoDeadEnd, SelfLeaving
  <2>2. CASE scheduled \in {{"rtc_fallback"}, {"rtc_alarm"}}
    <3>1. PICK t \in {"rtc_fallback", "rtc_alarm"} : Pending(t)'
      BY <1>5, <2>2
    <3>2. t \in ExitTimers[state']
      BY <1>1, <1>3 DEF ExitTimers, States
    <3> QED
      BY <3>1, <3>2 DEF NoDeadEnd, Leaving
  <2> QED
    BY <2>1, <2>2
<1> QED
  BY <1>7, <1>8, <1>9, <1>10 DEF IInv

\* A callback turns its timer into its message.
LEMMA CallbackStep ==
  ASSUME IInv, NEW t \in Timers, TimerCallback(t)
  PROVE  IInv'
<1> DEFINE m == <<Message(Expiry[t], timer[t] = 0)>>
<1>1. /\ t \in due
      /\ due' = due \ {t}
      /\ Post(queue, m)
      /\ UNCHANGED <<boot, state, fsm_pc, timer, last_event, sequence_counter, last_lf,
                     fault_retries, adv, sensor>>
  BY DEF TimerCallback
<1>2. Expiry[t] \in EventTypes
  BY DEF Expiry, Timers, EventTypes, TimerEvents, Completions
<1>3. m \in Seq(Messages) /\ Len(m) <= 1 /\ Holds(m, Expiry[t])
  BY <1>2, MessageFacts
<1>4. /\ queue \in Seq(Messages) /\ Len(queue) <= QueueDepth
      /\ lost \in BOOLEAN /\ state \in States
  BY DEF IInv, TypeOK
<1> HIDE DEF m
<1>5. /\ queue' \in Seq(Messages)
      /\ Len(queue') <= QueueDepth
      /\ lost' \in BOOLEAN
      /\ ~lost' => ~lost
      /\ \A e : Holds(queue, e) => Holds(queue', e)
      /\ ~lost' => Holds(queue', Expiry[t])
  BY <1>1, <1>3, <1>4, PostFacts
<1>6. TypeOK'
  BY <1>1, <1>5, Zenon DEF IInv, TypeOK
<1>7. Coherent'
  BY <1>1 DEF IInv, Coherent
<1>8. Underway' /\ (~lost' /\ Leaving(state) => Leaving(state)')
  BY <1>1, <1>4, <1>5, KeepStep DEF IInv, Queued, Pending
<1>9. NoDeadEnd'
  BY <1>1, <1>5, <1>8 DEF IInv, NoDeadEnd
<1> QED
  BY <1>6, <1>7, <1>8, <1>9 DEF IInv

LEMMA AdvStopStep ==
  ASSUME IInv, adv_stop_fn
  PROVE  IInv'
<1>1. PICK stopped \in BOOLEAN :
         /\ adv' = [adv EXCEPT !.on = @ /\ ~stopped, !.cb = FALSE]
         /\ Post(queue, IF ~adv.cb THEN <<>>
                        ELSE IF stopped THEN Fresh("TX_COMPLETE") ELSE Fresh("BLE_FAULT"))
  BY DEF adv_stop_fn
<1> DEFINE m == IF ~adv.cb THEN <<>>
                ELSE IF stopped THEN Fresh("TX_COMPLETE") ELSE Fresh("BLE_FAULT")
<1>2. /\ due' = due \ {"adv_stop"}
      /\ UNCHANGED <<boot, state, fsm_pc, timer, last_event, sequence_counter, last_lf,
                     fault_retries, sensor>>
  BY DEF adv_stop_fn
<1>3. m \in Seq(Messages) /\ Len(m) <= 1
  <2>1. \A e \in {"TX_COMPLETE", "BLE_FAULT"} :
           Fresh(e) \in Seq(Messages) /\ Len(Fresh(e)) <= 1
    BY MessageFacts DEF Fresh, EventTypes, Completions
  <2>2. <<>> \in Seq(Messages) /\ Len(<<>>) <= 1
    BY EmptySeq
  <2>3. m = <<>> \/ m = Fresh("TX_COMPLETE") \/ m = Fresh("BLE_FAULT")
    OBVIOUS
  <2> HIDE DEF m
  <2> QED
    BY <2>1, <2>2, <2>3, Zenon
<1>4. /\ queue \in Seq(Messages) /\ Len(queue) <= QueueDepth
      /\ lost \in BOOLEAN /\ state \in States
  BY DEF IInv, TypeOK
<1>5. Post(queue, m)
  BY <1>1
<1> HIDE DEF m
<1>6. /\ queue' \in Seq(Messages)
      /\ Len(queue') <= QueueDepth
      /\ lost' \in BOOLEAN
      /\ ~lost' => ~lost
      /\ \A e : Holds(queue, e) => Holds(queue', e)
  BY <1>3, <1>4, <1>5, PostFacts
<1>7. adv' \in [on : BOOLEAN, cb : BOOLEAN, buf : Frames]
  BY <1>1, Zenon DEF IInv, TypeOK
<1>8. TypeOK'
  BY <1>2, <1>6, <1>7, Zenon DEF IInv, TypeOK
<1>9. Coherent'
  BY <1>2 DEF IInv, Coherent
<1>10. \A t \in Timers \ {"adv_stop"} : Pending(t) => Pending(t)'
  BY <1>2 DEF Pending
<1>11. Underway'
  BY <1>2, <1>6, <1>10 DEF IInv, Underway, Queued, Timers
<1>12. NoDeadEnd'
  <2>1. ExitTimers[state] \subseteq Timers \ {"adv_stop"}
    BY <1>4 DEF ExitTimers, States, Timers
  <2>2. ~lost' /\ Leaving(state) => Leaving(state)'
    BY <1>2, <1>6, <1>10, <2>1 DEF Leaving, Queued
  <2> QED
    BY <1>2, <1>6, <2>2 DEF IInv, NoDeadEnd
<1> QED
  BY <1>8, <1>9, <1>11, <1>12 DEF IInv

LEMMA SensorStep ==
  ASSUME IInv, SensorThread
  PROVE  IInv'
<1> DEFINE SensorType == [pc : {"sleep", "imu", "baro"}, fired : BOOLEAN, live : BOOLEAN]
<1>1. UNCHANGED SensorOnly /\ sensor' \in SensorType
  <2>0. sensor \in SensorType
    BY DEF IInv, TypeOK
  <2>1. CASE sensor_read_state
    BY <2>1 DEF sensor_read_state, SensorOnly
  <2>2. CASE sensor_imu
    <3>1. PICK motion \in BOOLEAN : sensor' = [sensor EXCEPT !.pc = "baro", !.fired = motion]
      BY <2>2 DEF sensor_imu
    <3> QED
      BY <2>0, <2>2, <3>1, Zenon DEF sensor_imu
  <2>3. CASE sensor_baro
    BY <2>3 DEF sensor_baro, SensorOnly
  <2> QED
    BY <2>1, <2>2, <2>3 DEF SensorThread
<1>2. PICK m : Post(queue, m) /\ (m = <<>> \/ \E e \in EventTypes : m = <<Message(e, sensor.live)>>)
  <2>1. CASE sensor_read_state
    <3>1. Post(queue, <<>>)
      <4>1. lost \in BOOLEAN /\ queue \in Seq(Messages) /\ UNCHANGED <<queue, lost>>
        BY <2>1 DEF IInv, TypeOK, sensor_read_state
      <4>2. queue \o <<>> = queue
        BY <4>1, ConcatEmptySeq
      <4> QED
        BY <4>1, <4>2, Zenon DEF Post
    <3> QED
      BY <3>1
  <2>2. CASE sensor_imu \/ sensor_baro
    <3>1. PICK e \in EventTypes \cup {NoEvent} : SensorPosts(e)
      BY <2>2 DEF sensor_imu, sensor_baro, EventTypes, Breaches, Lifecycle
    <3> QED
      BY <3>1, Zenon DEF SensorPosts
  <2> QED
    BY <2>1, <2>2 DEF SensorThread
<1>3. m \in Seq(Messages) /\ Len(m) <= 1
  <2>1. sensor.live \in BOOLEAN
    BY DEF IInv, TypeOK
  <2>2. CASE m = <<>>
    BY <2>2, EmptySeq
  <2>3. CASE \E e \in EventTypes : m = <<Message(e, sensor.live)>>
    BY <2>1, <2>3, MessageFacts
  <2> QED
    BY <1>2, <2>2, <2>3
<1>4. TypeOK'
  BY <1>1, <1>2, <1>3, PostType, Zenon DEF IInv, TypeOK, SensorOnly
<1> QED
  BY <1>1, <1>2, <1>3, <1>4, PostStep DEF SensorOnly

LEMMA EnvStep ==
  ASSUME IInv, EnvPost
  PROVE  IInv'
<1>1. PICK e \in EnvEvents : Post(queue, Fresh(e))
  BY DEF EnvPost
<1>2. UNCHANGED SensorOnly /\ UNCHANGED sensor
  BY DEF EnvPost
<1>3. Fresh(e) \in Seq(Messages) /\ Len(Fresh(e)) <= 1
  BY EnvAssumption, MessageFacts DEF Fresh, EventTypes
<1>4. TypeOK'
  BY <1>1, <1>2, <1>3, PostType, Zenon DEF IInv, TypeOK, SensorOnly
<1> QED
  BY <1>1, <1>2, <1>3, <1>4, PostStep DEF SensorOnly

LEMMA TickStep ==
  ASSUME IInv, Tick
  PROVE  IInv'
<1>1. /\ due = {}
      /\ timer' = [t \in Timers |-> IF timer[t] > 0 THEN timer[t] - 1 ELSE 0]
      /\ due' = {t \in Timers : timer[t] = 1}
      /\ UNCHANGED <<boot, state, fsm_pc, queue, last_event, sequence_counter, last_lf,
                     fault_retries, adv, sensor, lost>>
  BY DEF Tick
<1>2. timer \in [Timers -> Nat]
  BY DEF IInv, TypeOK
<1>3. timer' \in [Timers -> Nat] /\ due' \subseteq Timers
  BY <1>1, <1>2
<1>4. \A t \in Timers : Pending(t) => Pending(t)'
  BY <1>1, <1>2 DEF Pending
<1>5. TypeOK'
  BY <1>1, <1>3, Zenon DEF IInv, TypeOK
<1>6. Coherent'
  BY <1>1 DEF IInv, Coherent
<1>7. Underway' /\ (~lost' /\ Leaving(state) => Leaving(state)')
  BY <1>1, <1>4, KeepStep DEF IInv, TypeOK, Queued
<1>8. NoDeadEnd'
  BY <1>1, <1>7 DEF IInv, NoDeadEnd
<1> QED
  BY <1>5, <1>6, <1>7, <1>8 DEF IInv

LEMMA StutterStep ==
  ASSUME IInv, UNCHANGED vars
  PROVE  IInv'
<1>1. UNCHANGED <<boot, state, fsm_pc, queue, timer, due, last_event, sequence_counter,
                  last_lf, fault_retries, adv, sensor, lost>>
  BY DEF vars
<1>2. TypeOK'
  BY <1>1, Zenon DEF IInv, TypeOK
<1>3. Coherent' /\ Underway'
  BY <1>1 DEF IInv, Coherent, Underway, Queued, Pending
<1>4. NoDeadEnd'
  BY <1>1 DEF IInv, NoDeadEnd, Leaving, Queued, Pending
<1> QED
  BY <1>2, <1>3, <1>4 DEF IInv

----------------------------------------------------------------------------
(* Theorems.                                                               *)

\* The invariant holds of every behaviour of the node.
THEOREM Inductive == Spec => []IInv
<1>1. Init => IInv
  BY InitStep
<1>2. IInv /\ [Next]_vars => IInv'
  <2> SUFFICES ASSUME IInv, [Next]_vars PROVE IInv'
    OBVIOUS
  <2>1. CASE FsmThread
    BY <2>1, FsmInitStep, DispatchStep, SigningStep, AdvertiseStep, ArmStep DEF FsmThread
  <2>2. CASE SensorThread
    BY <2>2, SensorStep
  <2>3. CASE Callbacks
    BY <2>3, AdvStopStep, CallbackStep DEF Callbacks
  <2>4. CASE EnvPost
    BY <2>4, EnvStep
  <2>5. CASE Tick
    BY <2>5, TickStep
  <2>6. CASE UNCHANGED vars
    BY <2>6, StutterStep
  <2> QED
    BY <2>1, <2>2, <2>3, <2>4, <2>5, <2>6 DEF Next
<1> QED
  BY <1>1, <1>2, PTL DEF Spec

\* Every variable keeps its type: the queue never exceeds its depth and the recovery
\* counter never its limit, whatever events, faults and delays there are.
THEOREM TypeCorrect == Spec => []TypeOK
<1>1. IInv => TypeOK
  BY DEF IInv
<1> QED
  BY <1>1, Inductive, PTL

\* The state machine never comes to rest in a state that nothing underway will end,
\* as long as the message queue refused nothing.
THEOREM NeverDeadEnd == Spec => []NoDeadEnd
<1>1. IInv => NoDeadEnd
  BY DEF IInv
<1> QED
  BY <1>1, Inductive, PTL

----------------------------------------------------------------------------
(* What is on the air, and which completions end a round.                 *)

Endings == {"TX_COMPLETE", "TX_TIMEOUT", "BLE_FAULT"}

None(q, types) == \A i \in DOMAIN q : q[i].type \notin types
AtMostOne(q, types) ==
    \A i, j \in DOMAIN q : (q[i].type \in types /\ q[j].type \in types) => i = j
Precedes(q, e, f) == \A i, j \in DOMAIN q : (q[i].type = e /\ q[j].type = f) => i < j
Live(q, types) == \A i \in DOMAIN q : q[i].type \in types => q[i].live

----------------------------------------------------------------------------
(* Lemmas about the order of the queue.                                    *)

\* Retiring messages moves none of them.
LEMMA RetireOrder ==
  ASSUME NEW q \in Seq(Messages), NEW types
  PROVE  /\ \A T : None(q, T) => None(Retire(q, types), T)
         /\ \A T : AtMostOne(q, T) => AtMostOne(Retire(q, types), T)
         /\ \A e, f : Precedes(q, e, f) => Precedes(Retire(q, types), e, f)
         /\ \A T : Live(q, T) /\ T \cap types = {} => Live(Retire(q, types), T)
<1> DEFINE r == Retire(q, types)
<1>1. DOMAIN r = DOMAIN q
  BY DEF Retire
<1>2. \A i \in DOMAIN q : /\ r[i].type = q[i].type
                          /\ r[i].live = (q[i].live /\ q[i].type \notin types)
  BY Zenon DEF Retire, Message
<1> HIDE DEF r
<1>3. /\ \A T : None(q, T) => None(r, T)
      /\ \A T : AtMostOne(q, T) => AtMostOne(r, T)
      /\ \A e, f : Precedes(q, e, f) => Precedes(r, e, f)
  BY <1>1, <1>2 DEF None, AtMostOne, Precedes
<1>4. \A T : Live(q, T) /\ T \cap types = {} => Live(r, T)
  BY <1>1, <1>2 DEF Live
<1> QED
  BY <1>3, <1>4 DEF r

\* Taking the first message keeps the order of the others, and says what is left.
LEMMA TailOrder ==
  ASSUME NEW q \in Seq(Messages), q # <<>>
  PROVE  /\ \A T : None(q, T) => None(Tail(q), T)
         /\ \A T : AtMostOne(q, T) => AtMostOne(Tail(q), T)
         /\ \A e, f : Precedes(q, e, f) => Precedes(Tail(q), e, f)
         /\ \A T : Live(q, T) => Live(Tail(q), T)
         /\ \A T : None(q, T) => Head(q).type \notin T
         /\ \A T : Live(q, T) /\ Head(q).type \in T => Head(q).live
         /\ \A T : AtMostOne(q, T) /\ Head(q).type \in T => None(Tail(q), T)
         /\ \A e : Precedes(q, e, Head(q).type) => None(Tail(q), {e})
<1>1. /\ Tail(q) \in Seq(Messages)
      /\ Len(Tail(q)) = Len(q) - 1
      /\ Head(q) = q[1]
      /\ \A i \in 1 .. Len(Tail(q)) : Tail(q)[i] = q[i + 1]
  BY HeadTailProperties
<1>2. /\ DOMAIN q = 1 .. Len(q)
      /\ DOMAIN Tail(q) = 1 .. Len(q) - 1
      /\ Len(q) \in Nat \ {0}
  BY <1>1, LenProperties, EmptySeq
<1> DEFINE r == Tail(q)
           n == Len(q)
<1>3. /\ \A i \in 1 .. n - 1 : i + 1 \in 1 .. n /\ r[i] = q[i + 1]
      /\ DOMAIN r = 1 .. n - 1 /\ DOMAIN q = 1 .. n /\ n \in Nat \ {0}
      /\ 1 \in 1 .. n /\ Head(q) = q[1]
  BY <1>1, <1>2
<1> HIDE DEF r, n
<1>4. \A T : None(q, T) => None(r, T)
  BY <1>3 DEF None
<1>5. \A T : AtMostOne(q, T) => AtMostOne(r, T)
  <2> SUFFICES ASSUME NEW T, AtMostOne(q, T),
                      NEW i \in DOMAIN r, NEW j \in DOMAIN r,
                      r[i].type \in T, r[j].type \in T
               PROVE  i = j
    BY DEF AtMostOne
  <2>1. i + 1 \in DOMAIN q /\ j + 1 \in DOMAIN q /\ r[i] = q[i + 1] /\ r[j] = q[j + 1]
    BY <1>3
  <2>2. i + 1 = j + 1
    BY <2>1 DEF AtMostOne
  <2>3. i \in Int /\ j \in Int
    BY <1>3
  <2> QED
    BY <2>2, <2>3
<1>6. \A e, f : Precedes(q, e, f) => Precedes(r, e, f)
  <2> SUFFICES ASSUME NEW e, NEW f, Precedes(q, e, f),
                      NEW i \in DOMAIN r, NEW j \in DOMAIN r,
                      r[i].type = e, r[j].type = f
               PROVE  i < j
    BY DEF Precedes
  <2>1. i + 1 \in DOMAIN q /\ j + 1 \in DOMAIN q /\ r[i] = q[i + 1] /\ r[j] = q[j + 1]
    BY <1>3
  <2>2. i + 1 < j + 1
    BY <2>1 DEF Precedes
  <2>3. i \in Int /\ j \in Int
    BY <1>3
  <2> QED
    BY <2>2, <2>3
<1>7. \A T : Live(q, T) => Live(r, T)
  BY <1>3 DEF Live
<1>8. /\ \A T : None(q, T) => Head(q).type \notin T
      /\ \A T : Live(q, T) /\ Head(q).type \in T => Head(q).live
  BY <1>3 DEF None, Live
<1>9. \A T : AtMostOne(q, T) /\ Head(q).type \in T => None(r, T)
  BY <1>3, SMTT(30) DEF AtMostOne, None
<1>10. \A e : Precedes(q, e, Head(q).type) => None(r, {e})
  BY <1>3, SMTT(30) DEF Precedes, None
<1> QED
  BY <1>4, <1>5, <1>6, <1>7, <1>8, <1>9, <1>10 DEF r

\* A posted message comes last.
LEMMA PostOrder ==
  ASSUME NEW q \in Seq(Messages), NEW ms \in Seq(Messages), Len(ms) <= 1, Post(q, ms)
  PROVE  /\ \A T : None(q, T) /\ None(ms, T) => None(queue', T)
         /\ \A T : AtMostOne(q, T) /\ (None(q, T) \/ None(ms, T)) => AtMostOne(queue', T)
         /\ \A e, f : /\ Precedes(q, e, f)
                      /\ e # f
                      /\ None(ms, {e}) \/ None(q, {f})
                      => Precedes(queue', e, f)
         /\ \A T : Live(q, T) /\ Live(ms, T) => Live(queue', T)
<1>1. CASE queue' = q
  BY <1>1
<1>2. CASE queue' = q \o ms
  <2> DEFINE r == q \o ms
             n == Len(q)
             k == Len(ms)
  <2>1. /\ r \in Seq(Messages)
        /\ Len(r) = n + k
        /\ \A i \in 1 .. n + k : r[i] = IF i <= n THEN q[i] ELSE ms[i - n]
    BY ConcatProperties
  <2>2. /\ DOMAIN q = 1 .. n /\ DOMAIN ms = 1 .. k /\ DOMAIN r = 1 .. n + k
        /\ n \in Nat /\ k \in Nat /\ k <= 1
    BY <2>1, LenProperties
  <2>3. \A i \in 1 .. n + k : \/ i \in 1 .. n /\ r[i] = q[i]
                              \/ i = n + 1 /\ k = 1 /\ r[i] = ms[1] /\ 1 \in 1 .. k
    BY <2>1, <2>2
  <2> HIDE DEF r, n, k
  <2>4. \A T : None(q, T) /\ None(ms, T) => None(r, T)
    BY <2>2, <2>3 DEF None
  <2>5. \A T : AtMostOne(q, T) /\ (None(q, T) \/ None(ms, T)) => AtMostOne(r, T)
    BY <2>2, <2>3 DEF None, AtMostOne
  <2>6. \A e, f : /\ Precedes(q, e, f)
                  /\ e # f
                  /\ None(ms, {e}) \/ None(q, {f})
                  => Precedes(r, e, f)
    <3> SUFFICES ASSUME NEW e, NEW f, Precedes(q, e, f), e # f,
                        None(ms, {e}) \/ None(q, {f}),
                        NEW i \in DOMAIN r, NEW j \in DOMAIN r,
                        r[i].type = e, r[j].type = f
                 PROVE  i < j
      BY DEF Precedes
    <3>1. CASE i \in 1 .. n /\ r[i] = q[i] /\ j \in 1 .. n /\ r[j] = q[j]
      BY <2>2, <3>1 DEF Precedes
    <3>2. CASE i \in 1 .. n /\ j = n + 1
      BY <2>2, <3>2
    <3>3. CASE i = n + 1 /\ r[i] = ms[1] /\ 1 \in 1 .. k
      <4>1. ~None(ms, {e})
        BY <2>2, <3>3 DEF None
      <4>2. j \notin 1 .. n \/ r[j] # q[j]
        BY <2>2, <4>1 DEF None
      <4> QED
        BY <2>2, <2>3, <3>3, <4>2
    <3> QED
      BY <2>2, <2>3, <3>1, <3>2, <3>3
  <2>7. \A T : Live(q, T) /\ Live(ms, T) => Live(r, T)
    BY <2>2, <2>3 DEF Live
  <2> QED
    BY <1>2, <2>4, <2>5, <2>6, <2>7 DEF r
<1>3. queue' = q \/ queue' = q \o ms
  BY DEF Post
<1> QED
  BY <1>1, <1>2, <1>3

\* What a sequence of at most one message holds.
LEMMA OneMessage ==
  ASSUME NEW e \in EventTypes, NEW live \in BOOLEAN
  PROVE  /\ <<Message(e, live)>> \in Seq(Messages)
         /\ Len(<<Message(e, live)>>) <= 1
         /\ \A T : e \notin T => None(<<Message(e, live)>>, T)
         /\ \A T : e \notin T \/ live => Live(<<Message(e, live)>>, T)
<1>1. <<Message(e, live)>> \in Seq(Messages) /\ Len(<<Message(e, live)>>) <= 1
  BY MessageFacts
<1>2. Message(e, live).type = e /\ Message(e, live).live = live
  BY DEF Message
<1>3. /\ DOMAIN <<Message(e, live)>> = {1}
      /\ <<Message(e, live)>>[1] = Message(e, live)
  OBVIOUS
<1> QED
  BY <1>1, <1>2, <1>3, Zenon DEF None, Live

LEMMA NoMessage ==
  /\ <<>> \in Seq(Messages)
  /\ Len(<<>>) <= 1
  /\ \A T : None(<<>>, T)
  /\ \A T : Live(<<>>, T)
<1>1. <<>> \in Seq(Messages) /\ Len(<<>>) = 0 /\ DOMAIN <<>> = {}
  BY EmptySeq
<1> QED
  BY <1>1 DEF None, Live

----------------------------------------------------------------------------
(* The inductive invariant.                                                *)

\* A transmission is ended once: by the advertisement's end, which comes first, or by
\* its timeout; outside TRANSMITTING neither is left over.
Transmission ==
    /\ state # "TRANSMITTING" =>
         timer["tx_timeout"] = 0 /\ "tx_timeout" \notin due /\ ~adv.cb /\ None(queue, Endings)
    /\ fsm_pc = "advertising" =>
         /\ timer["tx_timeout"] = Ticks["tx_timeout"] /\ "tx_timeout" \notin due
         /\ ~adv.cb /\ None(queue, Endings)
    /\ adv.cb =>
         /\ "adv_stop" \in due \/ (0 < timer["adv_stop"] /\ timer["adv_stop"] < timer["tx_timeout"])
         /\ "tx_timeout" \notin due /\ None(queue, Endings)
    /\ "tx_timeout" \in due => timer["tx_timeout"] = 0 /\ None(queue, Endings)
    /\ AtMostOne(queue, Endings) /\ Live(queue, Endings)

\* A signature is reported once, in SIGNING or, after a sensor fault, in FAULT, where
\* its report is dropped before recovery is attempted.
Signed ==
    /\ state \notin {"SIGNING", "FAULT"} => None(queue, {"SIGNING_COMPLETE"})
    /\ fsm_pc = "signing" => None(queue, {"SIGNING_COMPLETE"})
    /\ AtMostOne(queue, {"SIGNING_COMPLETE"})
    /\ state = "SIGNING" => Live(queue, {"SIGNING_COMPLETE"})
    /\ state # "FAULT" => None(queue, {"RECOVERY_SUCCESS"})
    /\ AtMostOne(queue, {"RECOVERY_SUCCESS"})
    /\ Precedes(queue, "SIGNING_COMPLETE", "RECOVERY_SUCCESS")

\* A cooldown that was left while its message was queued is over, message and all,
\* before the next one begins.
Cooling ==
    /\ state # "COOLDOWN" => timer["cooldown"] = 0 /\ "cooldown" \notin due
    /\ "cooldown" \in due => timer["cooldown"] = 0
    /\ state = "TRANSMITTING" => None(queue, {"COOLDOWN_EXPIRED"})
    /\ state = "SIGNING" => Precedes(queue, "COOLDOWN_EXPIRED", "SIGNING_COMPLETE")
    /\ state = "COOLDOWN" => Live(queue, {"COOLDOWN_EXPIRED"})

\* The frame of the event at hand is the one kept, and the one on the air.
Carried ==
    /\ state = "SIGNING" /\ ~None(queue, {"SIGNING_COMPLETE"}) => last_lf = lima_crypto_build_lf
    /\ state = "TRANSMITTING" => last_lf = lima_crypto_build_lf
    /\ adv.cb => adv.on /\ adv.buf = lima_crypto_build_lf
    /\ "adv_stop" \notin Faults /\ adv.on => adv.cb

FrameInv == Transmission /\ Signed /\ Cooling /\ Carried

Watched == Endings \cup {"SIGNING_COMPLETE", "RECOVERY_SUCCESS", "COOLDOWN_EXPIRED"}

----------------------------------------------------------------------------
(* Entering a state.                                                       *)

\* What transition() does to the timers and messages the invariant is about.
LEMMA TransitionOrder ==
  ASSUME TypeOK,
         NEW next \in States, NEW q \in Seq(Messages), NEW retries,
         NEW also \in SUBSET {"inactivity"},
         Transition(next, q, retries, also)
  PROVE  /\ state' = next
         /\ fsm_pc' = EntryBlocks(next)
         /\ timer'["tx_timeout"] = (IF next = "TRANSMITTING" THEN Ticks["tx_timeout"]
                                    ELSE IF state = "TRANSMITTING" THEN 0
                                    ELSE timer["tx_timeout"])
         /\ timer'["cooldown"] = (IF next = "COOLDOWN" THEN Ticks["cooldown"]
                                  ELSE IF state = "COOLDOWN" THEN 0
                                  ELSE timer["cooldown"])
         /\ "tx_timeout" \in due' <=> "tx_timeout" \in due /\ state # "TRANSMITTING"
         /\ "cooldown" \in due' <=> "cooldown" \in due /\ state # "COOLDOWN"
         /\ \A T : None(q, T) /\ T \cap {"BASELINE_READY", "ERROR", "RECOVERY_SUCCESS"} = {}
                     => None(queue', T)
         /\ None(q, {"RECOVERY_SUCCESS"}) =>
              /\ next # "FAULT" => None(queue', {"RECOVERY_SUCCESS"})
              /\ AtMostOne(queue', {"RECOVERY_SUCCESS"})
         /\ AtMostOne(q, {"SIGNING_COMPLETE"}) => AtMostOne(queue', {"SIGNING_COMPLETE"})
         /\ Precedes(q, "SIGNING_COMPLETE", "RECOVERY_SUCCESS")
              => Precedes(queue', "SIGNING_COMPLETE", "RECOVERY_SUCCESS")
<1> DEFINE scheduled == EntrySchedules(next) \cup also
           types == {Expiry[t] : t \in scheduled \cup ExitCancels} \cup Closes(next)
           r == Retire(q, types)
           ms == EntryPosts(next, retries)
<1>1. /\ state' = next
      /\ fsm_pc' = EntryBlocks(next)
      /\ SetTimers(scheduled, ExitCancels)
      /\ Post(r, ms)
  BY Zenon DEF Transition
<1>2. /\ timer'["tx_timeout"] = (IF next = "TRANSMITTING" THEN Ticks["tx_timeout"]
                                 ELSE IF state = "TRANSMITTING" THEN 0
                                 ELSE timer["tx_timeout"])
      /\ timer'["cooldown"] = (IF next = "COOLDOWN" THEN Ticks["cooldown"]
                               ELSE IF state = "COOLDOWN" THEN 0
                               ELSE timer["cooldown"])
      /\ "tx_timeout" \in due' <=> "tx_timeout" \in due /\ state # "TRANSMITTING"
      /\ "cooldown" \in due' <=> "cooldown" \in due /\ state # "COOLDOWN"
  BY <1>1 DEF SetTimers, EntrySchedules, ExitCancels, Timers
<1>3. /\ r \in Seq(Messages)
      /\ \A T : None(q, T) => None(r, T)
      /\ \A T : AtMostOne(q, T) => AtMostOne(r, T)
      /\ \A e, f : Precedes(q, e, f) => Precedes(r, e, f)
  <2> HIDE DEF types
  <2> QED
    BY RetireFacts, RetireOrder
<1>4. /\ ms \in Seq(Messages) /\ Len(ms) <= 1
      /\ \A T : T \cap {"BASELINE_READY", "ERROR", "RECOVERY_SUCCESS"} = {} => None(ms, T)
      /\ next # "FAULT" => None(ms, {"RECOVERY_SUCCESS"})
  <2>1. \/ ms = <<>>
        \/ \E e \in {"BASELINE_READY", "ERROR", "RECOVERY_SUCCESS"} :
              ms = <<Message(e, TRUE)>> /\ (e = "RECOVERY_SUCCESS" => next = "FAULT")
    BY DEF EntryPosts, Fresh
  <2>2. {"BASELINE_READY", "ERROR", "RECOVERY_SUCCESS"} \subseteq EventTypes
    BY DEF EventTypes, Lifecycle
  <2> HIDE DEF ms
  <2>3. CASE ms = <<>>
    BY <2>3, NoMessage
  <2>4. CASE \E e \in {"BASELINE_READY", "ERROR", "RECOVERY_SUCCESS"} :
               ms = <<Message(e, TRUE)>> /\ (e = "RECOVERY_SUCCESS" => next = "FAULT")
    BY <2>2, <2>4, OneMessage
  <2> QED
    BY <2>1, <2>3, <2>4
<1> HIDE DEF r, ms
<1>5. /\ \A T : None(r, T) /\ None(ms, T) => None(queue', T)
      /\ \A T : AtMostOne(r, T) /\ (None(r, T) \/ None(ms, T)) => AtMostOne(queue', T)
      /\ \A e, f : /\ Precedes(r, e, f)
                   /\ e # f
                   /\ None(ms, {e}) \/ None(r, {f})
                   => Precedes(queue', e, f)
  BY <1>1, <1>3, <1>4, PostOrder
<1>6. \A T : None(q, T) => AtMostOne(q, T)
  BY DEF None, AtMostOne
<1> QED
  BY <1>1, <1>2, <1>3, <1>4, <1>5, <1>6

\* A state is entered: nothing of the last transmission is left over, and the messages
\* that the next rounds must not meet are gone.
LEMMA EnterFrame ==
  ASSUME TypeOK, FrameInv,
         NEW next \in States, NEW q \in Seq(Messages), NEW retries,
         NEW also \in SUBSET {"inactivity"},
         Transition(next, q, retries, also),
         None(q, Endings), ~adv'.cb,
         "adv_stop" \notin Faults => ~adv'.on,
         next # "FAULT" => None(q, {"SIGNING_COMPLETE"}),
         AtMostOne(q, {"SIGNING_COMPLETE"}),
         None(q, {"RECOVERY_SUCCESS"}),
         next \in {"TRANSMITTING", "COOLDOWN"} => None(q, {"COOLDOWN_EXPIRED"}),
         next = "TRANSMITTING" => last_lf' = lima_crypto_build_lf',
         next = "TRANSMITTING" => state # "TRANSMITTING",
         next = "COOLDOWN" => state # "COOLDOWN"
  PROVE  FrameInv'
<1>1. /\ state' = next
      /\ fsm_pc' = EntryBlocks(next)
      /\ timer'["tx_timeout"] = (IF next = "TRANSMITTING" THEN Ticks["tx_timeout"]
                                 ELSE IF state = "TRANSMITTING" THEN 0
                                 ELSE timer["tx_timeout"])
      /\ timer'["cooldown"] = (IF next = "COOLDOWN" THEN Ticks["cooldown"]
                               ELSE IF state = "COOLDOWN" THEN 0
                               ELSE timer["cooldown"])
      /\ "tx_timeout" \in due' <=> "tx_timeout" \in due /\ state # "TRANSMITTING"
      /\ "cooldown" \in due' <=> "cooldown" \in due /\ state # "COOLDOWN"
  BY TransitionOrder
<1>2. /\ \A T : None(q, T) /\ T \cap {"BASELINE_READY", "ERROR", "RECOVERY_SUCCESS"} = {}
                  => None(queue', T)
      /\ None(q, {"RECOVERY_SUCCESS"}) =>
           /\ next # "FAULT" => None(queue', {"RECOVERY_SUCCESS"})
           /\ AtMostOne(queue', {"RECOVERY_SUCCESS"})
      /\ AtMostOne(q, {"SIGNING_COMPLETE"}) => AtMostOne(queue', {"SIGNING_COMPLETE"})
      /\ Precedes(q, "SIGNING_COMPLETE", "RECOVERY_SUCCESS")
           => Precedes(queue', "SIGNING_COMPLETE", "RECOVERY_SUCCESS")
  BY TransitionOrder
<1>3. /\ None(queue', Endings)
      /\ next # "FAULT" => None(queue', {"SIGNING_COMPLETE"})
      /\ next \in {"TRANSMITTING", "COOLDOWN"} => None(queue', {"COOLDOWN_EXPIRED"})
  <2>1. \A T \in {Endings, {"SIGNING_COMPLETE"}, {"COOLDOWN_EXPIRED"}} :
           T \cap {"BASELINE_READY", "ERROR", "RECOVERY_SUCCESS"} = {}
    BY DEF Endings
  <2> QED
    BY <1>2, <2>1
<1>4. /\ None(q, {"RECOVERY_SUCCESS"})
           => Precedes(q, "SIGNING_COMPLETE", "RECOVERY_SUCCESS")
      /\ \A T : None(queue', T) => AtMostOne(queue', T) /\ Live(queue', T)
      /\ None(queue', {"SIGNING_COMPLETE"})
           => Precedes(queue', "COOLDOWN_EXPIRED", "SIGNING_COMPLETE")
  BY DEF None, AtMostOne, Live, Precedes
<1>5. "tx_timeout" \notin due' /\ "cooldown" \notin due'
  BY <1>1 DEF FrameInv, Transmission, Cooling
<1>6. /\ fsm_pc' = "advertising" => next = "TRANSMITTING"
      /\ fsm_pc' = "signing" => next = "SIGNING"
  BY <1>1 DEF EntryBlocks
<1>7. Transmission'
  <2>1. next # "TRANSMITTING" => timer'["tx_timeout"] = 0
    BY <1>1 DEF FrameInv, Transmission
  <2>2. AtMostOne(queue', Endings) /\ Live(queue', Endings)
    BY <1>3, <1>4
  <2> QED
    BY <1>1, <1>3, <1>5, <1>6, <2>1, <2>2 DEF Transmission
<1>8. Signed'
  BY <1>1, <1>2, <1>3, <1>4, <1>6 DEF Signed
<1>9. Cooling'
  <2>1. next # "COOLDOWN" => timer'["cooldown"] = 0
    BY <1>1 DEF FrameInv, Cooling
  <2> QED
    BY <1>1, <1>3, <1>4, <1>5, <2>1 DEF Cooling
<1>10. Carried'
  BY <1>1, <1>3 DEF Carried
<1> QED
  BY <1>7, <1>8, <1>9, <1>10 DEF FrameInv

----------------------------------------------------------------------------
(* Dispatching an event.                                                   *)

\* Goto and Accept are transitions that leave the advertiser and the kept frame alone.
LEMMA GotoFrame ==
  ASSUME TypeOK, FrameInv,
         NEW next \in States, NEW q \in Seq(Messages), Goto(next, q),
         None(q, Endings), ~adv.cb,
         next # "FAULT" => None(q, {"SIGNING_COMPLETE"}),
         AtMostOne(q, {"SIGNING_COMPLETE"}),
         None(q, {"RECOVERY_SUCCESS"}),
         next \in {"TRANSMITTING", "COOLDOWN"} => None(q, {"COOLDOWN_EXPIRED"}),
         next = "TRANSMITTING" => last_lf = lima_crypto_build_lf,
         next \in {"TRANSMITTING", "COOLDOWN"} => state # next
  PROVE  FrameInv'
<1>1. /\ Transition(next, q, fault_retries, {})
      /\ UNCHANGED <<boot, last_event, sequence_counter, last_lf, adv>>
  BY DEF Goto
<1>2. {} \in SUBSET {"inactivity"}
  OBVIOUS
<1>3. ~adv'.cb /\ ("adv_stop" \notin Faults => ~adv'.on)
  BY <1>1 DEF FrameInv, Carried
<1>4. next = "TRANSMITTING" => last_lf' = lima_crypto_build_lf'
  BY <1>1 DEF lima_crypto_build_lf
<1> QED
  BY <1>1, <1>2, <1>3, <1>4, EnterFrame

LEMMA AcceptFrame ==
  ASSUME TypeOK, FrameInv,
         NEW q \in Seq(Messages), NEW e, NEW also \in SUBSET {"inactivity"},
         Accept(e, q, also),
         None(q, Endings), ~adv.cb,
         None(q, {"SIGNING_COMPLETE"}),
         None(q, {"RECOVERY_SUCCESS"})
  PROVE  FrameInv'
<1>1. /\ Transition("SIGNING", q, fault_retries, also)
      /\ adv' = adv
  BY DEF Accept
<1>2. "SIGNING" \in States
  BY DEF States
<1>3. ~adv'.cb /\ ("adv_stop" \notin Faults => ~adv'.on)
  BY <1>1 DEF FrameInv, Carried
<1>4. AtMostOne(q, {"SIGNING_COMPLETE"})
  BY DEF None, AtMostOne
<1> QED
  BY <1>1, <1>2, <1>3, <1>4, EnterFrame

\* What the invariant says of the rest of the queue when an event is taken.
LEMMA RestOrder ==
  ASSUME TypeOK, FrameInv, Dispatching
  PROVE  /\ Tail(queue) \in Seq(Messages)
         /\ state # "TRANSMITTING" => None(Tail(queue), Endings) /\ ~adv.cb
         /\ Head(queue).type \in Endings => None(Tail(queue), Endings) /\ ~adv.cb
         /\ state \notin {"SIGNING", "FAULT"} => None(Tail(queue), {"SIGNING_COMPLETE"})
         /\ AtMostOne(Tail(queue), {"SIGNING_COMPLETE"})
         /\ Head(queue).type \in {"SIGNING_COMPLETE", "RECOVERY_SUCCESS"}
              => None(Tail(queue), {"SIGNING_COMPLETE"})
         /\ state # "FAULT" \/ Head(queue).type = "RECOVERY_SUCCESS"
              => None(Tail(queue), {"RECOVERY_SUCCESS"})
         /\ state = "TRANSMITTING" => None(Tail(queue), {"COOLDOWN_EXPIRED"})
         /\ state = "SIGNING" /\ Head(queue).type = "SIGNING_COMPLETE"
              => None(Tail(queue), {"COOLDOWN_EXPIRED"}) /\ last_lf = lima_crypto_build_lf
<1> DEFINE e == Head(queue).type
           q == Tail(queue)
<1>1. queue \in Seq(Messages) /\ queue # <<>>
  BY DEF TypeOK, Dispatching
<1>2. /\ \A T : None(queue, T) => None(q, T)
      /\ \A T : AtMostOne(queue, T) => AtMostOne(q, T)
      /\ \A T : None(queue, T) => e \notin T
      /\ \A T : AtMostOne(queue, T) /\ e \in T => None(q, T)
      /\ \A f : Precedes(queue, f, e) => None(q, {f})
  BY <1>1, TailOrder
<1>3. q \in Seq(Messages)
  BY <1>1, TailFacts
<1> HIDE DEF e, q
<1>4. /\ state # "TRANSMITTING" => None(q, Endings) /\ ~adv.cb
      /\ e \in Endings => None(q, Endings) /\ ~adv.cb
  BY <1>2 DEF FrameInv, Transmission
<1>5. /\ state \notin {"SIGNING", "FAULT"} => None(q, {"SIGNING_COMPLETE"})
      /\ AtMostOne(q, {"SIGNING_COMPLETE"})
      /\ e \in {"SIGNING_COMPLETE", "RECOVERY_SUCCESS"} => None(q, {"SIGNING_COMPLETE"})
      /\ state # "FAULT" \/ e = "RECOVERY_SUCCESS" => None(q, {"RECOVERY_SUCCESS"})
  BY <1>2 DEF FrameInv, Signed
<1>6. state = "TRANSMITTING" => None(q, {"COOLDOWN_EXPIRED"})
  BY <1>2 DEF FrameInv, Cooling
<1>7. state = "SIGNING" /\ e = "SIGNING_COMPLETE"
        => None(q, {"COOLDOWN_EXPIRED"}) /\ last_lf = lima_crypto_build_lf
  BY <1>2 DEF FrameInv, Cooling, Carried
<1> QED
  BY <1>3, <1>4, <1>5, <1>6, <1>7 DEF e, q

\* An event that is dropped takes nothing from the invariant.
LEMMA IgnoreFrame ==
  ASSUME TypeOK, FrameInv, Dispatching, Ignore(Tail(queue))
  PROVE  FrameInv'
<1>1. /\ queue' = Tail(queue)
      /\ UNCHANGED <<state, fsm_pc, timer, due, last_event, sequence_counter, last_lf, adv>>
  BY DEF Ignore
<1>2. /\ \A T : None(queue, T) => None(queue', T)
      /\ \A T : AtMostOne(queue, T) => AtMostOne(queue', T)
      /\ \A e, f : Precedes(queue, e, f) => Precedes(queue', e, f)
      /\ \A T : Live(queue, T) => Live(queue', T)
  BY <1>1, TailOrder DEF TypeOK, Dispatching
<1>3. Transmission'
  BY <1>1, <1>2 DEF FrameInv, Transmission
<1>4. Signed'
  BY <1>1, <1>2 DEF FrameInv, Signed
<1>5. Cooling'
  BY <1>1, <1>2 DEF FrameInv, Cooling
<1>6. Carried'
  BY <1>1, <1>2 DEF FrameInv, Carried, lima_crypto_build_lf
<1> QED
  BY <1>3, <1>4, <1>5, <1>6 DEF FrameInv

\* Every handler: the states that are entered from it, and why their messages are gone.
LEMMA DispatchFrame ==
  ASSUME TypeOK, FrameInv, fsm_dispatch
  PROVE  FrameInv'
<1> DEFINE e == Head(queue).type
           q == Tail(queue)
<1>0. Dispatching
  BY DEF fsm_dispatch
<1>1. /\ q \in Seq(Messages)
      /\ state # "TRANSMITTING" => None(q, Endings) /\ ~adv.cb
      /\ e \in Endings => None(q, Endings) /\ ~adv.cb
      /\ state \notin {"SIGNING", "FAULT"} => None(q, {"SIGNING_COMPLETE"})
      /\ AtMostOne(q, {"SIGNING_COMPLETE"})
      /\ e \in {"SIGNING_COMPLETE", "RECOVERY_SUCCESS"} => None(q, {"SIGNING_COMPLETE"})
      /\ state # "FAULT" \/ e = "RECOVERY_SUCCESS" => None(q, {"RECOVERY_SUCCESS"})
      /\ state = "TRANSMITTING" => None(q, {"COOLDOWN_EXPIRED"})
      /\ state = "SIGNING" /\ e = "SIGNING_COMPLETE"
           => None(q, {"COOLDOWN_EXPIRED"}) /\ last_lf = lima_crypto_build_lf
  BY <1>0, RestOrder
<1>2. \/ boot_handle(e, q)
      \/ state_armed_handle(e, q)
      \/ state_light_sleep_handle(e, q)
      \/ state_deep_sleep_handle(e, q)
      \/ state_signing_handle(e, q)
      \/ state_transmitting_handle(e, q)
      \/ state_cooldown_handle(e, q)
      \/ state_fault_handle(e, q)
      \/ state_low_battery_handle(e, q)
      \/ unhandled(e, q)
  BY DEF fsm_dispatch
<1>3. CASE unhandled(e, q)
  BY <1>0, <1>3, IgnoreFrame DEF unhandled
<1> HIDE DEF e, q
<1>4. ASSUME state \notin {"SIGNING", "FAULT", "TRANSMITTING"},
             \/ \E next \in {"CALIBRATING", "ARMED", "LIGHT_SLEEP", "DEEP_SLEEP",
                             "LOW_BATTERY", "FAULT"} : Goto(next, q)
             \/ \E also \in SUBSET {"inactivity"} : Accept(e, q, also)
      PROVE  FrameInv'
  <2>1. CASE \E next \in {"CALIBRATING", "ARMED", "LIGHT_SLEEP", "DEEP_SLEEP",
                          "LOW_BATTERY", "FAULT"} : Goto(next, q)
    <3>1. PICK next \in {"CALIBRATING", "ARMED", "LIGHT_SLEEP", "DEEP_SLEEP",
                         "LOW_BATTERY", "FAULT"} : Goto(next, q)
      BY <2>1
    <3>2. next \in States /\ next \notin {"TRANSMITTING", "COOLDOWN"}
      BY <3>1 DEF States
    <3> QED
      BY <1>1, <1>4, <3>1, <3>2, GotoFrame
  <2>2. CASE \E also \in SUBSET {"inactivity"} : Accept(e, q, also)
    BY <1>1, <1>4, <2>2, AcceptFrame
  <2> QED
    BY <1>4, <2>1, <2>2
<1>5. CASE \/ boot_handle(e, q)
           \/ state_armed_handle(e, q)
           \/ state_light_sleep_handle(e, q)
           \/ state_deep_sleep_handle(e, q)
           \/ state_cooldown_handle(e, q)
           \/ state_low_battery_handle(e, q)
  <2>1. /\ state \notin {"SIGNING", "FAULT", "TRANSMITTING"}
        /\ \/ \E next \in {"CALIBRATING", "ARMED", "LIGHT_SLEEP", "DEEP_SLEEP",
                           "LOW_BATTERY", "FAULT"} : Goto(next, q)
           \/ Accept(e, q, {"inactivity"}) \/ Accept(e, q, {})
    BY <1>5, Zenon
    DEF boot_handle, state_armed_handle, state_light_sleep_handle, state_deep_sleep_handle,
        state_cooldown_handle, state_low_battery_handle
  <2>2. {"inactivity"} \in SUBSET {"inactivity"} /\ {} \in SUBSET {"inactivity"}
    OBVIOUS
  <2> QED
    BY <1>4, <2>1, <2>2
<1>6. CASE state_signing_handle(e, q)
  <2>1. state = "SIGNING" /\ "TRANSMITTING" \in States /\ "FAULT" \in States
    BY <1>6 DEF state_signing_handle, States
  <2>2. CASE e = "SIGNING_COMPLETE" /\ Goto("TRANSMITTING", q)
    BY <1>1, <2>1, <2>2, GotoFrame
  <2>3. CASE Goto("FAULT", q)
    BY <1>1, <2>1, <2>3, GotoFrame
  <2> QED
    BY <1>6, <2>2, <2>3 DEF state_signing_handle
<1>7. CASE state_transmitting_handle(e, q)
  <2>1. /\ state = "TRANSMITTING" /\ "COOLDOWN" \in States /\ "FAULT" \in States
        /\ e \in Endings
    BY <1>7 DEF state_transmitting_handle, States, Endings
  <2>2. CASE Goto("COOLDOWN", q)
    BY <1>1, <2>1, <2>2, GotoFrame
  <2>3. CASE Transition("FAULT", q, 0, {}) /\ adv' = adv
    <3>1. ~adv'.cb /\ ("adv_stop" \notin Faults => ~adv'.on)
      BY <1>1, <2>1, <2>3 DEF FrameInv, Carried
    <3>2. {} \in SUBSET {"inactivity"}
      OBVIOUS
    <3> QED
      BY <1>1, <2>1, <2>3, <3>1, <3>2, EnterFrame
  <2> QED
    BY <1>7, <2>2, <2>3 DEF state_transmitting_handle
<1>8. CASE state_fault_handle(e, q)
  <2>1. /\ state = "FAULT" /\ e = "RECOVERY_SUCCESS"
        /\ Transition("CALIBRATING", q, 0, {}) /\ adv' = adv
    BY <1>8 DEF state_fault_handle
  <2>2. "CALIBRATING" \in States /\ {} \in SUBSET {"inactivity"}
    BY DEF States
  <2>3. ~adv'.cb /\ ("adv_stop" \notin Faults => ~adv'.on)
    BY <1>1, <2>1 DEF FrameInv, Carried
  <2> QED
    BY <1>1, <2>1, <2>2, <2>3, EnterFrame
<1> QED
  BY <1>2, <1>3, <1>5, <1>6, <1>7, <1>8

----------------------------------------------------------------------------
(* The other actions.                                                      *)

\* Posting a message the invariant does not watch.
LEMMA PostFrame ==
  ASSUME IInv, FrameInv,
         NEW ms \in Seq(Messages), Len(ms) <= 1, None(ms, Watched), Post(queue, ms),
         UNCHANGED <<state, adv, sequence_counter, last_event>>,
         fsm_pc' = fsm_pc \/ fsm_pc' = "idle",
         \A t \in {"tx_timeout", "adv_stop", "cooldown"} :
            timer'[t] = timer[t] /\ (t \in due' <=> t \in due),
         last_lf' = last_lf \/ fsm_pc = "signing"
  PROVE  FrameInv'
<1>1. /\ queue \in Seq(Messages)
      /\ fsm_pc = "signing" => state = "SIGNING"
  BY DEF IInv, TypeOK, Coherent
<1>2. \A T \in SUBSET Watched : None(ms, T) /\ Live(ms, T)
  BY DEF None, Live
<1>3. /\ Endings \in SUBSET Watched
      /\ \A e \in {"SIGNING_COMPLETE", "RECOVERY_SUCCESS", "COOLDOWN_EXPIRED"} :
            {e} \in SUBSET Watched
  BY DEF Watched
<1>4. /\ \A T \in SUBSET Watched : None(queue, T) => None(queue', T)
      /\ \A T \in SUBSET Watched : AtMostOne(queue, T) => AtMostOne(queue', T)
      /\ \A T \in SUBSET Watched : Live(queue, T) => Live(queue', T)
      /\ \A e, f : Precedes(queue, e, f) /\ e # f /\ {e} \in SUBSET Watched
                     => Precedes(queue', e, f)
  BY <1>1, <1>2, PostOrder
<1>5. Transmission'
  BY <1>3, <1>4 DEF FrameInv, Transmission
<1>6. Signed'
  BY <1>3, <1>4 DEF FrameInv, Signed
<1>7. Cooling'
  BY <1>3, <1>4 DEF FrameInv, Cooling
<1>8. Carried'
  <2>1. lima_crypto_build_lf' = lima_crypto_build_lf
    BY DEF lima_crypto_build_lf
  <2>2. fsm_pc = "signing" => None(queue', {"SIGNING_COMPLETE"})
    BY <1>3, <1>4 DEF FrameInv, Signed
  <2>3. ~None(queue', {"SIGNING_COMPLETE"}) => ~None(queue, {"SIGNING_COMPLETE"})
    BY <1>3, <1>4
  <2> QED
    BY <1>1, <2>1, <2>2, <2>3 DEF FrameInv, Carried
<1> QED
  BY <1>5, <1>6, <1>7, <1>8 DEF FrameInv

LEMMA InitFrame == Init => FrameInv
<1> SUFFICES ASSUME Init PROVE FrameInv
  OBVIOUS
<1>1. /\ state = "BOOT" /\ fsm_pc = "init" /\ due = {}
      /\ timer = [t \in Timers |-> 0]
      /\ adv.cb = FALSE /\ adv.on = FALSE
  BY DEF Init
<1>2. None(queue, Watched)
  <2>1. CASE queue = <<>>
    BY <2>1, NoMessage
  <2>2. CASE queue = <<Message("TAMPER_DETECTED", TRUE)>>
    <3>1. "TAMPER_DETECTED" \in EventTypes /\ "TAMPER_DETECTED" \notin Watched
      BY DEF EventTypes, Breaches, Watched, Endings
    <3> QED
      BY <2>2, <3>1, OneMessage
  <2> QED
    BY <2>1, <2>2 DEF Init, Fresh
<1>3. \A T \in SUBSET Watched : None(queue, T) /\ AtMostOne(queue, T) /\ Live(queue, T)
  BY <1>2 DEF None, AtMostOne, Live
<1>4. /\ Endings \in SUBSET Watched
      /\ {"SIGNING_COMPLETE"} \in SUBSET Watched /\ {"RECOVERY_SUCCESS"} \in SUBSET Watched
  BY DEF Watched
<1>5. Precedes(queue, "SIGNING_COMPLETE", "RECOVERY_SUCCESS")
  BY <1>2 DEF None, Precedes, Watched
<1>6. timer["tx_timeout"] = 0 /\ timer["cooldown"] = 0
  BY <1>1 DEF Timers
<1>7. Transmission /\ Signed /\ Cooling /\ Carried
  BY <1>1, <1>3, <1>4, <1>5, <1>6 DEF Transmission, Signed, Cooling, Carried
<1> QED
  BY <1>7 DEF FrameInv

LEMMA FsmInitFrame ==
  ASSUME IInv, FrameInv, fsm_init
  PROVE  FrameInv'
<1>1. /\ Fresh("INIT_COMPLETE") \in Seq(Messages)
      /\ Len(Fresh("INIT_COMPLETE")) <= 1
      /\ None(Fresh("INIT_COMPLETE"), Watched)
  <2>1. "INIT_COMPLETE" \in EventTypes /\ "INIT_COMPLETE" \notin Watched
    BY DEF EventTypes, Lifecycle, Watched, Endings
  <2> QED
    BY <2>1, OneMessage DEF Fresh
<1> QED
  BY <1>1, PostFrame DEF fsm_init

\* A report of failure leaves the state to its handler; a signature is the first one of
\* its round, and its frame is kept with it.
LEMMA SigningFrame ==
  ASSUME IInv, FrameInv, signing_complete
  PROVE  FrameInv'
<1>1. /\ fsm_pc = "signing" /\ state = "SIGNING"
      /\ TypeOK /\ queue \in Seq(Messages)
  BY DEF signing_complete, IInv, Coherent, TypeOK
<1>2. /\ None(queue, {"SIGNING_COMPLETE"}) /\ None(queue, {"RECOVERY_SUCCESS"})
      /\ AtMostOne(queue, {"SIGNING_COMPLETE"})
      /\ None(queue, Endings) /\ ~adv.cb
  BY <1>1 DEF FrameInv, Signed, Transmission
<1>3. CASE Goto("FAULT", queue)
  BY <1>1, <1>2, <1>3, GotoFrame DEF States
<1>4. ASSUME NEW lf, SigningEnds("SENSOR_FAULT", lf)
      PROVE  FrameInv'
  <2>1. "SENSOR_FAULT" \in EventTypes /\ "SENSOR_FAULT" \notin Watched
    BY DEF EventTypes, Watched, Endings
  <2>2. /\ Fresh("SENSOR_FAULT") \in Seq(Messages)
        /\ Len(Fresh("SENSOR_FAULT")) <= 1
        /\ None(Fresh("SENSOR_FAULT"), Watched)
    BY <2>1, OneMessage DEF Fresh
  <2> QED
    BY <1>1, <1>4, <2>2, PostFrame DEF SigningEnds
<1>5. CASE SigningEnds("SIGNING_COMPLETE", lima_crypto_build_lf)
  <2> DEFINE ms == Fresh("SIGNING_COMPLETE")
  <2>1. /\ ms \in Seq(Messages) /\ Len(ms) <= 1
        /\ \A T : "SIGNING_COMPLETE" \notin T => None(ms, T)
        /\ \A T : Live(ms, T)
    BY OneMessage DEF Fresh, EventTypes, Completions
  <2>2. /\ fsm_pc' = "idle" /\ last_lf' = lima_crypto_build_lf
        /\ Post(queue, ms)
        /\ UNCHANGED <<state, timer, due, last_event, sequence_counter, adv>>
    BY <1>5 DEF SigningEnds
  <2> HIDE DEF ms
  <2>3. /\ \A T : None(queue, T) /\ None(ms, T) => None(queue', T)
        /\ \A T : AtMostOne(queue, T) /\ (None(queue, T) \/ None(ms, T))
                    => AtMostOne(queue', T)
        /\ \A e, f : /\ Precedes(queue, e, f)
                     /\ e # f
                     /\ None(ms, {e}) \/ None(queue, {f})
                     => Precedes(queue', e, f)
        /\ \A T : Live(queue, T) /\ Live(ms, T) => Live(queue', T)
    BY <1>1, <2>1, <2>2, PostOrder
  <2>4. None(ms, Endings) /\ None(ms, {"RECOVERY_SUCCESS"}) /\ None(ms, {"COOLDOWN_EXPIRED"})
    BY <2>1 DEF Endings
  <2>5. Transmission'
    BY <1>1, <1>2, <2>1, <2>2, <2>3, <2>4 DEF FrameInv, Transmission
  <2>6. Signed'
    BY <1>1, <1>2, <2>1, <2>2, <2>3, <2>4 DEF FrameInv, Signed
  <2>7. Cooling'
    BY <1>1, <1>2, <2>1, <2>2, <2>3, <2>4 DEF FrameInv, Cooling
  <2>8. Carried'
    BY <1>1, <1>2, <2>2 DEF FrameInv, Carried, lima_crypto_build_lf
  <2> QED
    BY <2>5, <2>6, <2>7, <2>8 DEF FrameInv
<1> QED
  BY <1>3, <1>4, <1>5 DEF signing_complete

\* The advertisement starts within the tick its timeout was scheduled in, and ends first.
LEMMA AdvertiseFrame ==
  ASSUME IInv, FrameInv, lima_ble_advertise
  PROVE  FrameInv'
<1>1. /\ fsm_pc = "advertising" /\ state = "TRANSMITTING"
      /\ TypeOK /\ queue \in Seq(Messages) /\ timer \in [Timers -> Nat]
      /\ adv \in [on : BOOLEAN, cb : BOOLEAN, buf : Frames]
  BY DEF lima_ble_advertise, IInv, Coherent, TypeOK
<1>2. /\ timer["tx_timeout"] = Ticks["tx_timeout"] /\ "tx_timeout" \notin due
      /\ None(queue, Endings) /\ ~adv.cb
      /\ None(queue, {"SIGNING_COMPLETE"}) /\ None(queue, {"RECOVERY_SUCCESS"})
      /\ AtMostOne(queue, {"SIGNING_COMPLETE"})
      /\ last_lf = lima_crypto_build_lf
      /\ "adv_stop" \notin Faults => ~adv.on
  BY <1>1 DEF FrameInv, Transmission, Signed, Carried
<1>3. ASSUME NEW a, AdvertiseFails(a), ~a.cb, "adv_stop" \notin Faults => ~a.on
      PROVE  FrameInv'
  <2>1. Transition("FAULT", queue, fault_retries, {}) /\ adv' = a
    BY <1>3 DEF AdvertiseFails
  <2>2. "FAULT" \in States /\ {} \in SUBSET {"inactivity"}
    BY DEF States
  <2> QED
    BY <1>1, <1>2, <1>3, <2>1, <2>2, EnterFrame
<1>4. CASE /\ adv' = [on |-> TRUE, cb |-> TRUE, buf |-> last_lf]
           /\ fsm_pc' = "idle"
           /\ SetTimers({"adv_stop"}, {})
           /\ UNCHANGED <<boot, state, queue, last_event, sequence_counter, last_lf,
                          fault_retries, sensor, lost>>
  <2>1. /\ timer'["adv_stop"] = Ticks["adv_stop"]
        /\ timer'["tx_timeout"] = timer["tx_timeout"]
        /\ timer'["cooldown"] = timer["cooldown"]
        /\ due' = due
    BY <1>4 DEF SetTimers, Timers
  <2>2. 0 < Ticks["adv_stop"] /\ Ticks["adv_stop"] < Ticks["tx_timeout"]
    BY TicksAssumption, TimingAssumption DEF Timers
  <2>3. adv'.on /\ adv'.cb /\ adv'.buf = last_lf
    BY <1>4
  <2>4. Transmission'
    BY <1>1, <1>2, <1>4, <2>1, <2>2 DEF FrameInv, Transmission
  <2>5. Signed'
    BY <1>1, <1>4 DEF FrameInv, Signed
  <2>6. Cooling'
    BY <1>1, <1>4, <2>1 DEF FrameInv, Cooling
  <2>7. Carried'
    BY <1>1, <1>2, <1>4, <2>3 DEF FrameInv, Carried, lima_crypto_build_lf
  <2> QED
    BY <2>4, <2>5, <2>6, <2>7 DEF FrameInv
<1>5. /\ [adv EXCEPT !.buf = last_lf].cb = adv.cb
      /\ [adv EXCEPT !.buf = last_lf].on = adv.on
      /\ [adv EXCEPT !.buf = last_lf, !.cb = FALSE].cb = FALSE
      /\ [adv EXCEPT !.buf = last_lf, !.cb = FALSE].on = adv.on
  BY <1>1
<1> QED
  BY <1>2, <1>3, <1>4, <1>5 DEF lima_ble_advertise

LEMMA ArmFrame ==
  ASSUME IInv, FrameInv, lima_rtc_arm_wakeup
  PROVE  FrameInv'
<1>1. fsm_pc = "arming" /\ state = "DEEP_SLEEP" /\ queue \in Seq(Messages)
  BY DEF lima_rtc_arm_wakeup, IInv, Coherent, TypeOK
<1>2. PICK scheduled \in {{"rtc_fallback"}, {"rtc_alarm"}, {}} : ArmsTimer(scheduled)
  BY DEF lima_rtc_arm_wakeup
<1> DEFINE types == {Expiry[t] : t \in scheduled}
<1>3. /\ fsm_pc' = "idle"
      /\ queue' = Retire(queue, types)
      /\ UNCHANGED <<state, last_event, sequence_counter, last_lf, adv>>
      /\ \A t \in {"tx_timeout", "adv_stop", "cooldown"} : timer'[t] = timer[t]
      /\ due' = due
  BY <1>2 DEF ArmsTimer, SetTimers, Timers
<1>4. types \subseteq {"RTC_WAKEUP"}
  BY DEF Expiry, Timers
<1> HIDE DEF types
<1>5. /\ \A T : None(queue, T) => None(queue', T)
      /\ \A T : AtMostOne(queue, T) => AtMostOne(queue', T)
      /\ \A e, f : Precedes(queue, e, f) => Precedes(queue', e, f)
      /\ \A T : Live(queue, T) /\ T \cap types = {} => Live(queue', T)
  BY <1>1, <1>3, RetireOrder
<1>6. Endings \cap types = {}
  BY <1>4 DEF Endings
<1>7. Transmission'
  BY <1>1, <1>3, <1>5, <1>6 DEF FrameInv, Transmission
<1>8. Signed'
  BY <1>1, <1>3, <1>5 DEF FrameInv, Signed
<1>9. Cooling'
  BY <1>1, <1>3, <1>5 DEF FrameInv, Cooling
<1>10. Carried'
  BY <1>1, <1>3, <1>5 DEF FrameInv, Carried, lima_crypto_build_lf
<1> QED
  BY <1>7, <1>8, <1>9, <1>10 DEF FrameInv

\* The timeout's message and the cooldown's are the first of their round, and live.
LEMMA CallbackFrame ==
  ASSUME IInv, FrameInv, NEW t \in Timers, TimerCallback(t)
  PROVE  FrameInv'
<1> DEFINE ms == <<Message(Expiry[t], timer[t] = 0)>>
<1>1. /\ t \in due /\ t # "adv_stop"
      /\ due' = due \ {t}
      /\ Post(queue, ms)
      /\ UNCHANGED <<state, fsm_pc, timer, last_event, sequence_counter, last_lf, adv>>
      /\ queue \in Seq(Messages)
  BY DEF TimerCallback, IInv, TypeOK
<1>2. Expiry[t] \in EventTypes
  BY DEF Expiry, Timers, EventTypes, TimerEvents, Completions
<1>3. /\ ms \in Seq(Messages) /\ Len(ms) <= 1
      /\ \A T : Expiry[t] \notin T => None(ms, T)
      /\ \A T : Expiry[t] \notin T \/ timer[t] = 0 => Live(ms, T)
  BY <1>2, OneMessage
<1> HIDE DEF ms
<1>4. /\ \A T : None(queue, T) /\ None(ms, T) => None(queue', T)
      /\ \A T : AtMostOne(queue, T) /\ (None(queue, T) \/ None(ms, T)) => AtMostOne(queue', T)
      /\ \A e, f : /\ Precedes(queue, e, f)
                   /\ e # f
                   /\ None(ms, {e}) \/ None(queue, {f})
                   => Precedes(queue', e, f)
      /\ \A T : Live(queue, T) /\ Live(ms, T) => Live(queue', T)
  BY <1>1, <1>3, PostOrder
<1>5. CASE t = "tx_timeout"
  <2>1. Expiry[t] = "TX_TIMEOUT"
    BY <1>5 DEF Expiry, Timers
  <2>2. /\ state = "TRANSMITTING" /\ fsm_pc # "advertising" /\ ~adv.cb
        /\ timer[t] = 0 /\ None(queue, Endings)
    BY <1>1, <1>5 DEF FrameInv, Transmission
  <2>3. \A e \in {"SIGNING_COMPLETE", "RECOVERY_SUCCESS", "COOLDOWN_EXPIRED"} : None(ms, {e})
    BY <1>3, <2>1
  <2>4. Transmission'
    BY <1>1, <1>3, <1>4, <1>5, <2>2 DEF FrameInv, Transmission
  <2>5. Signed'
    BY <1>1, <1>4, <2>2, <2>3 DEF FrameInv, Signed
  <2>6. Cooling'
    BY <1>1, <1>4, <1>5, <2>2, <2>3 DEF FrameInv, Cooling
  <2>7. Carried'
    BY <1>1, <2>2 DEF FrameInv, Carried, lima_crypto_build_lf
  <2> QED
    BY <2>4, <2>5, <2>6, <2>7 DEF FrameInv
<1>6. CASE t = "cooldown"
  <2>1. Expiry[t] = "COOLDOWN_EXPIRED"
    BY <1>6 DEF Expiry, Timers
  <2>2. state = "COOLDOWN" /\ timer[t] = 0
    BY <1>1, <1>6 DEF FrameInv, Cooling
  <2>3. /\ None(ms, Endings) /\ Live(ms, Endings)
        /\ None(ms, {"SIGNING_COMPLETE"}) /\ None(ms, {"RECOVERY_SUCCESS"})
        /\ Live(ms, {"COOLDOWN_EXPIRED"})
    BY <1>3, <2>1, <2>2 DEF Endings
  <2>4. Transmission'
    BY <1>1, <1>4, <1>6, <2>2, <2>3 DEF FrameInv, Transmission
  <2>5. Signed'
    BY <1>1, <1>4, <2>2, <2>3 DEF FrameInv, Signed
  <2>6. Cooling'
    BY <1>1, <1>4, <1>6, <2>2, <2>3 DEF FrameInv, Cooling
  <2>7. Carried'
    BY <1>1, <1>4, <2>2, <2>3 DEF FrameInv, Transmission, Carried, lima_crypto_build_lf
  <2> QED
    BY <2>4, <2>5, <2>6, <2>7 DEF FrameInv
<1>7. CASE t \notin {"tx_timeout", "cooldown"}
  <2>1. Expiry[t] \notin Watched
    BY <1>1, <1>7 DEF Expiry, Timers, Watched, Endings
  <2> QED
    BY <1>1, <1>3, <1>7, <2>1, PostFrame
<1> QED
  BY <1>5, <1>6, <1>7

\* The end of the advertisement is told once, before the timeout can be.
LEMMA AdvStopFrame ==
  ASSUME IInv, FrameInv, adv_stop_fn
  PROVE  FrameInv'
<1>1. PICK stopped \in BOOLEAN :
         /\ "adv_stop" \notin Faults => stopped
         /\ adv' = [adv EXCEPT !.on = @ /\ ~stopped, !.cb = FALSE]
         /\ Post(queue, IF ~adv.cb THEN <<>>
                        ELSE IF stopped THEN Fresh("TX_COMPLETE") ELSE Fresh("BLE_FAULT"))
  BY DEF adv_stop_fn
<1>2. /\ due' = due \ {"adv_stop"}
      /\ UNCHANGED <<state, fsm_pc, timer, last_event, sequence_counter, last_lf>>
      /\ queue \in Seq(Messages)
      /\ adv \in [on : BOOLEAN, cb : BOOLEAN, buf : Frames]
  BY DEF adv_stop_fn, IInv, TypeOK
<1> DEFINE ms == IF ~adv.cb THEN <<>>
                 ELSE IF stopped THEN Fresh("TX_COMPLETE") ELSE Fresh("BLE_FAULT")
<1>3. /\ ms \in Seq(Messages) /\ Len(ms) <= 1
      /\ \A T : T \cap Endings = {} \/ ~adv.cb => None(ms, T)
      /\ \A T : Live(ms, T)
  <2>1. {"TX_COMPLETE", "BLE_FAULT"} \subseteq EventTypes \cap Endings
    BY DEF EventTypes, Completions, Endings
  <2>2. \/ ms = <<>>
        \/ adv.cb /\ \E e \in {"TX_COMPLETE", "BLE_FAULT"} : ms = <<Message(e, TRUE)>>
    BY DEF Fresh
  <2> HIDE DEF ms
  <2>3. CASE ms = <<>>
    BY <2>3, NoMessage
  <2>4. CASE adv.cb /\ \E e \in {"TX_COMPLETE", "BLE_FAULT"} : ms = <<Message(e, TRUE)>>
    <3>1. PICK e \in {"TX_COMPLETE", "BLE_FAULT"} : ms = <<Message(e, TRUE)>>
      BY <2>4
    <3>2. /\ ms \in Seq(Messages) /\ Len(ms) <= 1
          /\ \A T : e \notin T => None(ms, T)
          /\ \A T : Live(ms, T)
      BY <2>1, <3>1, OneMessage
    <3> QED
      BY <2>1, <2>4, <3>2
  <2> QED
    BY <2>2, <2>3, <2>4
<1>4. Post(queue, ms)
  BY <1>1
<1> HIDE DEF ms
<1>5. /\ \A T : None(queue, T) /\ None(ms, T) => None(queue', T)
      /\ \A T : AtMostOne(queue, T) /\ (None(queue, T) \/ None(ms, T)) => AtMostOne(queue', T)
      /\ \A e, f : /\ Precedes(queue, e, f)
                   /\ e # f
                   /\ None(ms, {e}) \/ None(queue, {f})
                   => Precedes(queue', e, f)
      /\ \A T : Live(queue, T) /\ Live(ms, T) => Live(queue', T)
  BY <1>2, <1>3, <1>4, PostOrder
<1>6. /\ \A e \in {"SIGNING_COMPLETE", "RECOVERY_SUCCESS", "COOLDOWN_EXPIRED"} : None(ms, {e})
      /\ ~adv.cb => None(ms, Endings)
  BY <1>3 DEF Endings
<1>7. adv'.cb = FALSE /\ (adv'.on => adv.on /\ ~stopped) /\ "adv_stop" # "tx_timeout"
  BY <1>1, <1>2
<1>8. adv.cb => /\ state = "TRANSMITTING" /\ fsm_pc # "advertising"
                /\ "tx_timeout" \notin due /\ None(queue, Endings)
  BY DEF FrameInv, Transmission
<1>9. Transmission'
  <2>1. "tx_timeout" \in due' <=> "tx_timeout" \in due
    BY <1>2
  <2>2. /\ state # "TRANSMITTING" => None(queue', Endings)
        /\ fsm_pc = "advertising" => None(queue', Endings)
        /\ "tx_timeout" \in due => None(queue', Endings)
    BY <1>5, <1>6, <1>8 DEF FrameInv, Transmission
  <2>3. AtMostOne(queue', Endings) /\ Live(queue', Endings)
    BY <1>3, <1>5, <1>6, <1>8 DEF FrameInv, Transmission
  <2> QED
    BY <1>2, <1>7, <2>1, <2>2, <2>3 DEF FrameInv, Transmission
<1>10. Signed'
  BY <1>2, <1>3, <1>5, <1>6 DEF FrameInv, Signed
<1>11. Cooling'
  BY <1>2, <1>3, <1>5, <1>6 DEF FrameInv, Cooling
<1>12. Carried'
  <2>1. None(queue, {"SIGNING_COMPLETE"}) => None(queue', {"SIGNING_COMPLETE"})
    BY <1>5, <1>6
  <2> QED
    BY <1>1, <1>2, <1>7, <2>1 DEF FrameInv, Carried, lima_crypto_build_lf
<1> QED
  BY <1>9, <1>10, <1>11, <1>12 DEF FrameInv

LEMMA SensorFrame ==
  ASSUME IInv, FrameInv, SensorThread
  PROVE  FrameInv'
<1>1. UNCHANGED <<state, fsm_pc, timer, due, last_event, sequence_counter, last_lf, adv>>
  BY Zenon DEF SensorThread, sensor_read_state, sensor_imu, sensor_baro, SensorOnly
<1>2. CASE UNCHANGED queue
  BY <1>1, <1>2 DEF FrameInv, Transmission, Signed, Cooling, Carried, lima_crypto_build_lf
<1>3. CASE \E e \in {"MOTION_DETECTED", "PRESSURE_BREACH", "POLL_TICK", NoEvent} : SensorPosts(e)
  <2>1. PICK e \in {"MOTION_DETECTED", "PRESSURE_BREACH", "POLL_TICK", NoEvent} : SensorPosts(e)
    BY <1>3
  <2> DEFINE ms == IF e = NoEvent THEN <<>> ELSE <<Message(e, sensor.live)>>
  <2>2. Post(queue, ms)
    BY <2>1 DEF SensorPosts
  <2>3. e = NoEvent \/ e \in EventTypes \ Watched
    BY DEF EventTypes, Breaches, Lifecycle, Watched, Endings
  <2>4. sensor.live \in BOOLEAN
    BY DEF IInv, TypeOK
  <2>5. ms \in Seq(Messages) /\ Len(ms) <= 1 /\ None(ms, Watched)
    <3>1. CASE e = NoEvent
      BY <3>1, NoMessage
    <3>2. CASE e # NoEvent
      BY <2>3, <2>4, <3>2, OneMessage
    <3> QED
      BY <3>1, <3>2
  <2> HIDE DEF ms
  <2> QED
    BY <1>1, <2>2, <2>5, PostFrame
<1>4. \/ UNCHANGED queue
      \/ \E e \in {"MOTION_DETECTED", "PRESSURE_BREACH", "POLL_TICK", NoEvent} : SensorPosts(e)
  BY DEF SensorThread, sensor_read_state, sensor_imu, sensor_baro
<1> QED
  BY <1>2, <1>3, <1>4

LEMMA EnvFrame ==
  ASSUME IInv, FrameInv, EnvPost
  PROVE  FrameInv'
<1>1. PICK e \in EnvEvents : Post(queue, Fresh(e))
  BY DEF EnvPost
<1>2. UNCHANGED <<state, fsm_pc, timer, due, last_event, sequence_counter, last_lf, adv>>
  BY DEF EnvPost, SensorOnly
<1>3. e \in EventTypes /\ e \notin Watched
  BY EnvAssumption DEF EventTypes, Breaches, Battery, Watched, Endings
<1>4. /\ Fresh(e) \in Seq(Messages) /\ Len(Fresh(e)) <= 1
      /\ None(Fresh(e), Watched)
  BY <1>3, OneMessage DEF Fresh
<1> QED
  BY <1>1, <1>2, <1>4, PostFrame

\* Time passes with an empty queue and no expired work: an advertisement expires at
\* least one tick before its timeout.
LEMMA TickFrame ==
  ASSUME IInv, FrameInv, Tick
  PROVE  FrameInv'
<1>1. /\ queue = <<>> /\ due = {} /\ fsm_pc = "idle"
      /\ timer' = [t \in Timers |-> IF timer[t] > 0 THEN timer[t] - 1 ELSE 0]
      /\ due' = {t \in Timers : timer[t] = 1}
      /\ UNCHANGED <<state, fsm_pc, queue, last_event, sequence_counter, last_lf, adv>>
  BY DEF Tick
<1>2. \A T : None(queue', T)
  BY <1>1, NoMessage
<1>3. /\ timer["tx_timeout"] \in Nat /\ timer["adv_stop"] \in Nat /\ timer["cooldown"] \in Nat
      /\ \A t \in {"tx_timeout", "adv_stop", "cooldown"} :
            /\ timer'[t] = IF timer[t] > 0 THEN timer[t] - 1 ELSE 0
            /\ t \in due' <=> timer[t] = 1
  BY <1>1 DEF IInv, TypeOK, Timers
<1>4. Transmission'
  BY <1>1, <1>2, <1>3 DEF FrameInv, Transmission
<1>5. Signed'
  BY <1>1 DEF FrameInv, Signed
<1>6. Cooling'
  BY <1>1, <1>2, <1>3 DEF FrameInv, Cooling
<1>7. Carried'
  BY <1>1 DEF FrameInv, Carried, lima_crypto_build_lf
<1> QED
  BY <1>4, <1>5, <1>6, <1>7 DEF FrameInv

----------------------------------------------------------------------------
(* Theorems.                                                               *)

\* Transmissions, signatures and cooldowns end once each, by a message of their own
\* round, and the frame kept is the frame of the event at hand.
THEOREM FrameInductive == Spec => [](IInv /\ FrameInv)
<1>1. Init => FrameInv
  BY InitFrame
<1>2. IInv /\ FrameInv /\ [Next]_vars => FrameInv'
  <2> SUFFICES ASSUME IInv, FrameInv, [Next]_vars PROVE FrameInv'
    OBVIOUS
  <2>0. TypeOK
    BY DEF IInv
  <2>1. CASE FsmThread
    BY <2>0, <2>1, FsmInitFrame, DispatchFrame, SigningFrame, AdvertiseFrame, ArmFrame
    DEF FsmThread
  <2>2. CASE SensorThread
    BY <2>2, SensorFrame
  <2>3. CASE Callbacks
    BY <2>3, AdvStopFrame, CallbackFrame DEF Callbacks
  <2>4. CASE EnvPost
    BY <2>4, EnvFrame
  <2>5. CASE Tick
    BY <2>5, TickFrame
  <2>6. CASE UNCHANGED vars
    BY <2>6
    DEF vars, FrameInv, Transmission, Signed, Cooling, Carried, lima_crypto_build_lf
  <2> QED
    BY <2>1, <2>2, <2>3, <2>4, <2>5, <2>6 DEF Next
<1> QED
  BY <1>1, <1>2, Inductive, PTL DEF Spec

\* Where stopping an advertisement does not fail, whatever is on the air is the frame of
\* the event being transmitted, under the sequence number last issued, and nothing is on
\* the air outside TRANSMITTING: for every timing in which an advertisement is shorter
\* than its timeout, every queue depth and every other fault.
THEOREM AirAlwaysCurrent ==
  ASSUME "adv_stop" \notin Faults
  PROVE  Spec => []FrameOnAir
<1>1. FrameInv => FrameOnAir
  BY DEF FrameInv, Transmission, Carried, FrameOnAir, lima_crypto_build_lf
<1> QED
  BY <1>1, FrameInductive, PTL

\* Whatever the faults, no completion, cooldown or timeout message of an earlier round
\* ends the present one.
THEOREM StaleAlwaysInert == Spec => StaleCompletionsInert
<1> DEFINE types == Completions \cup {"COOLDOWN_EXPIRED", "TX_TIMEOUT"}
<1>1. IInv /\ FrameInv /\ [Next]_vars => [TakesStale(types) => UNCHANGED state]_vars
  <2> SUFFICES ASSUME IInv, FrameInv, TakesStale(types) PROVE UNCHANGED state
    OBVIOUS
  <2> DEFINE e == Head(queue).type
             q == Tail(queue)
  <2>1. /\ fsm_dispatch /\ ~Head(queue).live
        /\ e \in Endings \cup {"SIGNING_COMPLETE", "COOLDOWN_EXPIRED"}
    BY DEF TakesStale, Completions, Endings
  <2>2. queue \in Seq(Messages) /\ queue # <<>> /\ state \in States
    BY <2>1 DEF fsm_dispatch, Dispatching, IInv, TypeOK
  <2>3. \A T : Live(queue, T) => e \notin T
    BY <2>1, <2>2, TailOrder
  <2>4. e \notin Endings
    BY <2>3 DEF FrameInv, Transmission
  <2>5. e = "SIGNING_COMPLETE" => state # "SIGNING"
    BY <2>3 DEF FrameInv, Signed
  <2>6. e = "COOLDOWN_EXPIRED" => state # "COOLDOWN"
    BY <2>3 DEF FrameInv, Cooling
  <2>7. \/ e = "SIGNING_COMPLETE" /\ state # "SIGNING"
        \/ e = "COOLDOWN_EXPIRED" /\ state # "COOLDOWN"
    BY <2>1, <2>4, <2>5, <2>6
  <2>8. unhandled(e, q)
    <3>1. \/ boot_handle(e, q)
          \/ state_armed_handle(e, q)
          \/ state_light_sleep_handle(e, q)
          \/ state_deep_sleep_handle(e, q)
          \/ state_signing_handle(e, q)
          \/ state_transmitting_handle(e, q)
          \/ state_cooldown_handle(e, q)
          \/ state_fault_handle(e, q)
          \/ state_low_battery_handle(e, q)
          \/ unhandled(e, q)
      BY <2>1 DEF fsm_dispatch
    <3> HIDE DEF e, q
    <3>2. e \notin Breaches /\ e \notin Battery
      BY <2>7 DEF Breaches, Battery
    <3> QED
      BY <2>7, <3>1, <3>2, Zenon
      DEF boot_handle, state_armed_handle, state_light_sleep_handle,
          state_deep_sleep_handle, state_signing_handle, state_transmitting_handle,
          state_cooldown_handle, state_fault_handle, state_low_battery_handle
  <2> QED
    BY <2>8, Zenon DEF unhandled, Ignore
<1>2. Spec => [](IInv /\ FrameInv)
  BY FrameInductive
<1>3. Spec => [][TakesStale(types) => UNCHANGED state]_vars
  BY <1>1, <1>2, PTL DEF Spec
<1> QED
  BY <1>3 DEF StaleCompletionsInert

----------------------------------------------------------------------------
(* A queue depth that is enough whatever the delays are.                   *)

\* Messages the sensor thread may yet post in the poll it is in.
SensorOwes == CASE sensor.pc = "imu" -> 2 [] sensor.pc = "baro" -> 1 [] OTHER -> 0

\* The queue, and every message that can reach it before the clock moves on: one of each
\* expired timer, one of the call the FSM thread is in, those of the sensor poll.
Coming == Len(queue) + Cardinality(due) + (IF fsm_pc = "idle" THEN 0 ELSE 1) + SensorOwes

Enough == 9

QueueInv == Coming <= Enough /\ ~lost

----------------------------------------------------------------------------
(* Lemmas.                                                                 *)

LEMMA TimerCount == IsFiniteSet(Timers) /\ Cardinality(Timers) = 7
<1> DEFINE A == {"cooldown"}
           B == A \cup {"tx_timeout"}
           C == B \cup {"armed_dwell"}
           D == C \cup {"inactivity"}
           E == D \cup {"adv_stop"}
           F == E \cup {"rtc_alarm"}
           G == F \cup {"rtc_fallback"}
<1>0. /\ "tx_timeout" \notin A /\ "armed_dwell" \notin B /\ "inactivity" \notin C
      /\ "adv_stop" \notin D /\ "rtc_alarm" \notin E /\ "rtc_fallback" \notin F
      /\ Timers = G
  BY DEF Timers
<1>1. IsFiniteSet(A) /\ Cardinality(A) = 1
  BY FS_Singleton
<1> HIDE DEF A, B, C, D, E, F, G
<1>2. IsFiniteSet(B) /\ Cardinality(B) = 2
  BY <1>0, <1>1, FS_AddElement DEF B
<1>3. IsFiniteSet(C) /\ Cardinality(C) = 3
  BY <1>0, <1>2, FS_AddElement DEF C
<1>4. IsFiniteSet(D) /\ Cardinality(D) = 4
  BY <1>0, <1>3, FS_AddElement DEF D
<1>5. IsFiniteSet(E) /\ Cardinality(E) = 5
  BY <1>0, <1>4, FS_AddElement DEF E
<1>6. IsFiniteSet(F) /\ Cardinality(F) = 6
  BY <1>0, <1>5, FS_AddElement DEF F
<1>7. IsFiniteSet(G) /\ Cardinality(G) = 7
  BY <1>0, <1>6, FS_AddElement DEF G
<1> QED
  BY <1>0, <1>7

\* Expired timers: at most all of them, and one less for each callback that runs.
LEMMA DueCount ==
  ASSUME NEW S \in SUBSET Timers
  PROVE  /\ Cardinality(S) \in Nat /\ Cardinality(S) <= 7
         /\ \A t \in S : Cardinality(S \ {t}) = Cardinality(S) - 1
         /\ \A R : Cardinality(S \ R) \in Nat /\ Cardinality(S \ R) <= Cardinality(S)
<1>1. IsFiniteSet(S) /\ Cardinality(S) \in Nat /\ Cardinality(S) <= 7
  BY TimerCount, FS_Subset, FS_CardinalityType
<1>2. \A t \in S : Cardinality(S \ {t}) = Cardinality(S) - 1
  BY <1>1, FS_RemoveElement
<1>3. \A R : Cardinality(S \ R) \in Nat /\ Cardinality(S \ R) <= Cardinality(S)
  <2> TAKE R
  <2>1. S \ R \in SUBSET S
    OBVIOUS
  <2> QED
    BY <1>1, <2>1, FS_Subset, FS_CardinalityType
<1> QED
  BY <1>1, <1>2, <1>3

\* With room for it, a message is queued and nothing is lost.
LEMMA PostRoom ==
  ASSUME NEW q \in Seq(Messages), NEW ms \in Seq(Messages),
         Post(q, ms), ~lost, Len(ms) <= 1,
         Len(q) + Len(ms) <= QueueDepth
  PROVE  Len(queue') = Len(q) + Len(ms) /\ ~lost'
<1>0. QueueDepth \in Nat /\ Len(q) \in Nat /\ Len(ms) \in Nat
  BY DepthAssumption, LenProperties
<1>1. /\ queue' = IF Len(q) < QueueDepth THEN q \o ms ELSE q
      /\ lost' = (lost \/ (ms # <<>> /\ Len(q) >= QueueDepth))
  BY DEF Post
<1>2. ms # <<>> => Len(ms) = 1 /\ Len(q) < QueueDepth /\ ~(Len(q) >= QueueDepth)
  BY <1>0, EmptySeq, SMTT(30)
<1>3. ms = <<>> => Len(ms) = 0 /\ q \o ms = q
  BY EmptySeq, ConcatEmptySeq
<1>4. Len(q \o ms) = Len(q) + Len(ms)
  BY ConcatProperties
<1> QED
  BY <1>0, <1>1, <1>2, <1>3, <1>4, Zenon

LEMMA OneLong ==
  /\ \A e \in EventTypes, b \in BOOLEAN :
        <<Message(e, b)>> \in Seq(Messages) /\ Len(<<Message(e, b)>>) = 1
  /\ <<>> \in Seq(Messages) /\ Len(<<>>) = 0
<1>1. \A e \in EventTypes, b \in BOOLEAN : <<Message(e, b)>> \in Seq(Messages)
  BY MessageFacts
<1>2. \A e, b : Len(<<Message(e, b)>>) = 1
  OBVIOUS
<1> QED
  BY <1>1, <1>2, EmptySeq

----------------------------------------------------------------------------
(* Every action preserves the invariant.                                   *)

\* Entering a state posts one message or blocks in one call that will, never both.
LEMMA EnterQueue ==
  ASSUME TypeOK, QueueDepth >= Enough, ~lost,
         NEW next \in States, NEW q \in Seq(Messages), NEW retries, NEW also,
         Transition(next, q, retries, also),
         Len(q) + 1 + Cardinality(due) + SensorOwes <= Enough
  PROVE  QueueInv'
<1> DEFINE types == {Expiry[t] : t \in (EntrySchedules(next) \cup also) \cup ExitCancels}
                      \cup Closes(next)
           ms == EntryPosts(next, retries)
<1>1. /\ fsm_pc' = EntryBlocks(next)
      /\ due' = due \ ExitCancels
      /\ sensor' = [sensor EXCEPT !.live = @ /\ next # "COOLDOWN"]
      /\ Post(Retire(q, types), ms)
  BY Zenon DEF Transition, SetTimers
<1>2. /\ ms \in Seq(Messages) /\ Len(ms) \in Nat /\ Len(ms) <= 1
      /\ fsm_pc' = "idle" \/ Len(ms) = 0
  <2>1. \/ ms = <<>>
        \/ fsm_pc' = "idle" /\ \E e \in {"BASELINE_READY", "ERROR", "RECOVERY_SUCCESS"} :
                                  ms = <<Message(e, TRUE)>>
    BY <1>1 DEF EntryPosts, EntryBlocks, Fresh
  <2>2. {"BASELINE_READY", "ERROR", "RECOVERY_SUCCESS"} \subseteq EventTypes
    BY DEF EventTypes, Lifecycle
  <2> HIDE DEF ms
  <2>3. CASE ms = <<>>
    BY <2>3, OneLong
  <2>4. CASE fsm_pc' = "idle" /\ \E e \in {"BASELINE_READY", "ERROR", "RECOVERY_SUCCESS"} :
                                    ms = <<Message(e, TRUE)>>
    <3>1. PICK e \in EventTypes : ms = <<Message(e, TRUE)>>
      BY <2>2, <2>4
    <3>2. ms \in Seq(Messages) /\ Len(ms) = 1
      BY <3>1, OneLong
    <3>3. fsm_pc' = "idle"
      BY <2>4
    <3>4. Len(ms) \in Nat /\ Len(ms) <= 1
      BY <3>2
    <3> QED
      BY <3>2, <3>3, <3>4, Zenon
  <2> QED
    BY <2>1, <2>3, <2>4
<1> DEFINE r == Retire(q, types)
<1>3. r \in Seq(Messages) /\ Len(r) = Len(q) /\ Len(q) \in Nat
  <2> HIDE DEF types
  <2> QED
    BY RetireFacts, LenProperties
<1> HIDE DEF ms, types, r
<1>4. /\ Cardinality(due) \in Nat
      /\ Cardinality(due') \in Nat /\ Cardinality(due') <= Cardinality(due)
  BY <1>1, DueCount DEF TypeOK
<1>5. SensorOwes \in Nat /\ SensorOwes' = SensorOwes
  <2>1. sensor'.pc = sensor.pc
    BY <1>1 DEF TypeOK
  <2> QED
    BY <2>1 DEF SensorOwes
<1>6. QueueDepth \in Nat /\ Enough \in Nat
  BY DepthAssumption DEF Enough
<1>7. Len(queue') = Len(q) + Len(ms) /\ ~lost'
  <2>1. Len(r) + Len(ms) <= QueueDepth
    BY <1>2, <1>3, <1>4, <1>5, <1>6
  <2> QED
    BY <1>1, <1>2, <1>3, <2>1, PostRoom DEF r
<1>8. Coming' <= Enough
  <2>1. Len(ms) + (IF fsm_pc' = "idle" THEN 0 ELSE 1) <= 1
    BY <1>2
  <2> QED
    BY <1>2, <1>3, <1>4, <1>5, <1>6, <1>7, <2>1 DEF Coming
<1> QED
  BY <1>7, <1>8 DEF QueueInv

LEMMA SumBound ==
  ASSUME NEW n \in Nat, NEW m \in Nat, NEW bound \in Nat,
         NEW a \in Nat, NEW b \in Nat, NEW c \in Nat,
         NEW d \in Nat, NEW e \in Nat, NEW f \in Nat,
         n + a + b + c <= bound, m + d + e + f <= a + b + c
  PROVE  (n + m) + d + e + f <= bound
OBVIOUS

\* A step that posts at most what it was expected to.
LEMMA PostQueue ==
  ASSUME TypeOK, TypeOK', QueueInv, QueueDepth >= Enough,
         NEW ms \in Seq(Messages), Len(ms) <= 1, Post(queue, ms),
         Len(ms) + Cardinality(due') + (IF fsm_pc' = "idle" THEN 0 ELSE 1) + SensorOwes'
            <= Cardinality(due) + (IF fsm_pc = "idle" THEN 0 ELSE 1) + SensorOwes
  PROVE  QueueInv'
<1>1. /\ Len(ms) \in Nat /\ Len(queue) \in Nat /\ queue \in Seq(Messages)
      /\ Cardinality(due) \in Nat /\ Cardinality(due') \in Nat
      /\ SensorOwes \in Nat /\ SensorOwes' \in Nat
      /\ QueueDepth \in Nat /\ Enough \in Nat
  BY DueCount, LenProperties, DepthAssumption DEF TypeOK, SensorOwes, Enough
<1>2. Len(queue) + Len(ms) <= QueueDepth
  BY <1>1, SMTT(30) DEF QueueInv, Coming
<1>3. Len(queue') = Len(queue) + Len(ms) /\ ~lost'
  BY <1>1, <1>2, PostRoom DEF QueueInv
<1>4. Coming' <= Enough
  <2> DEFINE busy == IF fsm_pc = "idle" THEN 0 ELSE 1
             left == IF fsm_pc' = "idle" THEN 0 ELSE 1
  <2>1. busy \in Nat /\ left \in Nat
    OBVIOUS
  <2>2. Len(queue) + Cardinality(due) + busy + SensorOwes <= Enough
    BY DEF QueueInv, Coming
  <2>3. Len(ms) + Cardinality(due') + left + SensorOwes'
          <= Cardinality(due) + busy + SensorOwes
    OBVIOUS
  <2>4. Coming' = Len(queue') + Cardinality(due') + left + SensorOwes'
    BY DEF Coming
  <2> HIDE DEF busy, left
  <2>5. (Len(queue) + Len(ms)) + Cardinality(due') + left + SensorOwes' <= Enough
    BY <1>1, <2>1, <2>2, <2>3, SumBound
  <2> QED
    BY <1>3, <2>4, <2>5, Zenon
<1> QED
  BY <1>3, <1>4 DEF QueueInv

\* Nothing is posted, and nothing more becomes due.
LEMMA QuietQueue ==
  ASSUME TypeOK, TypeOK', QueueInv,
         Len(queue') = Len(queue), lost' = lost,
         Cardinality(due') + (IF fsm_pc' = "idle" THEN 0 ELSE 1) + SensorOwes'
            <= Cardinality(due) + (IF fsm_pc = "idle" THEN 0 ELSE 1) + SensorOwes
  PROVE  QueueInv'
<1>1. /\ Len(queue) \in Nat /\ Cardinality(due) \in Nat /\ Cardinality(due') \in Nat
      /\ SensorOwes \in Nat /\ SensorOwes' \in Nat /\ Enough \in Nat
  BY DueCount, LenProperties DEF TypeOK, SensorOwes, Enough
<1>2. Coming' <= Enough
  <2> DEFINE busy == IF fsm_pc = "idle" THEN 0 ELSE 1
             left == IF fsm_pc' = "idle" THEN 0 ELSE 1
  <2>1. busy \in Nat /\ left \in Nat
    OBVIOUS
  <2>2. Len(queue) + Cardinality(due) + busy + SensorOwes <= Enough
    BY DEF QueueInv, Coming
  <2>3. Cardinality(due') + left + SensorOwes' <= Cardinality(due) + busy + SensorOwes
    OBVIOUS
  <2>4. Coming' = Len(queue') + Cardinality(due') + left + SensorOwes'
    BY DEF Coming
  <2> HIDE DEF busy, left
  <2>5. Len(queue) + Cardinality(due') + left + SensorOwes' <= Enough
    BY <1>1, <2>1, <2>2, <2>3, SMTT(30)
  <2> QED
    BY <2>4, <2>5, Zenon
<1> QED
  BY <1>2 DEF QueueInv

LEMMA FsmThreadQueue ==
  ASSUME IInv, TypeOK', QueueInv, QueueDepth >= Enough, FsmThread
  PROVE  QueueInv'
<1>0. /\ TypeOK /\ queue \in Seq(Messages) /\ Len(queue) \in Nat /\ ~lost
      /\ Cardinality(due) \in Nat /\ SensorOwes \in Nat /\ Enough \in Nat
  BY DueCount, LenProperties DEF IInv, TypeOK, QueueInv, SensorOwes, Enough
<1>1. ASSUME NEW e \in EventTypes, fsm_pc # "idle", fsm_pc' = "idle",
             Post(queue, Fresh(e)), UNCHANGED <<due, sensor>>
      PROVE  QueueInv'
  <2>1. Fresh(e) \in Seq(Messages) /\ Len(Fresh(e)) = 1
    BY OneLong DEF Fresh
  <2>2. SensorOwes' = SensorOwes
    BY <1>1 DEF SensorOwes
  <2>3. Len(Fresh(e)) + Cardinality(due') + (IF fsm_pc' = "idle" THEN 0 ELSE 1) + SensorOwes'
          <= Cardinality(due) + (IF fsm_pc = "idle" THEN 0 ELSE 1) + SensorOwes
    BY <1>0, <1>1, <2>1, <2>2
  <2>4. Len(Fresh(e)) <= 1
    BY <2>1
  <2> HIDE DEF Fresh
  <2> QED
    BY <1>0, <1>1, <2>1, <2>3, <2>4, PostQueue
<1>2. ASSUME NEW next \in States, NEW retries, fsm_pc # "idle",
             Transition(next, queue, retries, {})
      PROVE  QueueInv'
  <2>1. Len(queue) + 1 + Cardinality(due) + SensorOwes <= Enough
    BY <1>0, <1>2 DEF QueueInv, Coming
  <2> QED
    BY <1>0, <1>2, <2>1, EnterQueue
<1>3. CASE fsm_init
  BY <1>1, <1>3 DEF fsm_init, EventTypes, Lifecycle
<1>4. CASE fsm_dispatch
  <2> DEFINE e == Head(queue).type
             q == Tail(queue)
  <2>1. fsm_pc = "idle" /\ queue # <<>>
    BY <1>4 DEF fsm_dispatch, Dispatching
  <2>2. q \in Seq(Messages) /\ Len(q) = Len(queue) - 1 /\ Len(q) \in Nat
    BY <1>0, <2>1, TailFacts, LenProperties
  <2>3. \/ \E next \in States : \E retries, also : Transition(next, q, retries, also)
        \/ Ignore(q)
    <3>1. \/ boot_handle(e, q)
          \/ state_armed_handle(e, q)
          \/ state_light_sleep_handle(e, q)
          \/ state_deep_sleep_handle(e, q)
          \/ state_signing_handle(e, q)
          \/ state_transmitting_handle(e, q)
          \/ state_cooldown_handle(e, q)
          \/ state_fault_handle(e, q)
          \/ state_low_battery_handle(e, q)
          \/ unhandled(e, q)
      BY <1>4 DEF fsm_dispatch
    <3>2. {"CALIBRATING", "ARMED", "LIGHT_SLEEP", "DEEP_SLEEP", "SIGNING", "TRANSMITTING",
           "COOLDOWN", "FAULT", "LOW_BATTERY"} \subseteq States
      BY DEF States
    <3> HIDE DEF e, q
    <3> QED
      BY <3>1, <3>2, Zenon
      DEF boot_handle, state_armed_handle, state_light_sleep_handle,
          state_deep_sleep_handle, state_signing_handle, state_transmitting_handle,
          state_cooldown_handle, state_fault_handle, state_low_battery_handle, unhandled,
          Goto, Accept
  <2> HIDE DEF q
  <2>4. Len(q) + 1 + Cardinality(due) + SensorOwes <= Enough
    BY <1>0, <2>1, <2>2 DEF QueueInv, Coming
  <2>5. CASE \E next \in States : \E retries, also : Transition(next, q, retries, also)
    BY <1>0, <2>2, <2>4, <2>5, EnterQueue
  <2>6. CASE Ignore(q)
    <3>1. queue' = q /\ UNCHANGED <<fsm_pc, due, sensor, lost>>
      BY <2>6 DEF Ignore
    <3>2. SensorOwes' = SensorOwes
      BY <3>1 DEF SensorOwes
    <3>3. Coming' <= Enough
      BY <1>0, <2>1, <2>2, <2>4, <3>1, <3>2 DEF Coming
    <3> QED
      BY <1>0, <3>1, <3>3 DEF QueueInv
  <2> QED
    BY <2>3, <2>5, <2>6
<1>5. CASE signing_complete
  <2>1. fsm_pc # "idle"
    BY <1>5 DEF signing_complete
  <2>2. CASE Goto("FAULT", queue)
    BY <1>2, <2>1, <2>2 DEF Goto, States
  <2>3. CASE \E e \in {"SENSOR_FAULT", "SIGNING_COMPLETE"} : \E lf : SigningEnds(e, lf)
    <3>1. PICK e \in {"SENSOR_FAULT", "SIGNING_COMPLETE"} :
             Post(queue, Fresh(e)) /\ fsm_pc' = "idle" /\ UNCHANGED <<due, sensor>>
      BY <2>3 DEF SigningEnds
    <3>2. e \in EventTypes
      BY DEF EventTypes, Completions
    <3> QED
      BY <1>1, <2>1, <3>1, <3>2
  <2> QED
    BY <1>5, <2>2, <2>3 DEF signing_complete
<1>6. CASE lima_ble_advertise
  <2>1. fsm_pc # "idle"
    BY <1>6 DEF lima_ble_advertise
  <2>2. CASE \E a : AdvertiseFails(a)
    BY <1>2, <2>1, <2>2 DEF AdvertiseFails, States
  <2>3. CASE fsm_pc' = "idle" /\ due' = due /\ UNCHANGED <<queue, sensor, lost>>
    <3>1. SensorOwes' = SensorOwes
      BY <2>3 DEF SensorOwes
    <3>2. Cardinality(due') + (IF fsm_pc' = "idle" THEN 0 ELSE 1) + SensorOwes'
            <= Cardinality(due) + (IF fsm_pc = "idle" THEN 0 ELSE 1) + SensorOwes
      BY <1>0, <2>3, <3>1
    <3> QED
      BY <1>0, <2>3, <3>2, QuietQueue
  <2> QED
    BY <1>6, <2>2, <2>3 DEF lima_ble_advertise, SetTimers
<1>7. CASE lima_rtc_arm_wakeup
  <2>1. PICK scheduled : ArmsTimer(scheduled)
    BY <1>7 DEF lima_rtc_arm_wakeup
  <2> DEFINE types == {Expiry[t] : t \in scheduled}
  <2>2. /\ fsm_pc' = "idle" /\ due' = due /\ UNCHANGED <<sensor, lost>>
        /\ queue' = Retire(queue, types)
    BY <2>1 DEF ArmsTimer, SetTimers
  <2> HIDE DEF types
  <2>3. Len(queue') = Len(queue)
    BY <1>0, <2>2, RetireFacts
  <2>4. SensorOwes' = SensorOwes
    BY <2>2 DEF SensorOwes
  <2>5. Cardinality(due') + (IF fsm_pc' = "idle" THEN 0 ELSE 1) + SensorOwes'
          <= Cardinality(due) + (IF fsm_pc = "idle" THEN 0 ELSE 1) + SensorOwes
    BY <1>0, <2>2, <2>4
  <2> QED
    BY <1>0, <2>2, <2>3, <2>5, QuietQueue
<1> QED
  BY <1>3, <1>4, <1>5, <1>6, <1>7 DEF FsmThread

LEMMA CallbacksQueue ==
  ASSUME TypeOK, TypeOK', QueueInv, QueueDepth >= Enough, Callbacks
  PROVE  QueueInv'
<1>1. PICK t \in Timers, ms \in Seq(Messages) :
         /\ t \in due /\ due' = due \ {t}
         /\ Len(ms) <= 1 /\ Post(queue, ms)
         /\ UNCHANGED <<fsm_pc, sensor>>
  <2>1. CASE adv_stop_fn
    <3>1. PICK stopped \in BOOLEAN :
             Post(queue, IF ~adv.cb THEN <<>>
                         ELSE IF stopped THEN Fresh("TX_COMPLETE") ELSE Fresh("BLE_FAULT"))
      BY <2>1 DEF adv_stop_fn
    <3>2. PICK ms \in {<<>>, Fresh("TX_COMPLETE"), Fresh("BLE_FAULT")} : Post(queue, ms)
      BY <3>1
    <3>3. \A e \in {"TX_COMPLETE", "BLE_FAULT"} :
             Fresh(e) \in Seq(Messages) /\ Len(Fresh(e)) <= 1
      BY MessageFacts DEF Fresh, EventTypes, Completions
    <3>4. ms \in Seq(Messages) /\ Len(ms) <= 1
      <4>1. CASE ms = <<>>
        BY <4>1, EmptySeq
      <4>2. CASE ms = Fresh("TX_COMPLETE")
        BY <3>3, <4>2, Zenon
      <4>3. CASE ms = Fresh("BLE_FAULT")
        BY <3>3, <4>3, Zenon
      <4> QED
        BY <3>2, <4>1, <4>2, <4>3
    <3>5. "adv_stop" \in Timers
      BY DEF Timers
    <3> QED
      BY <2>1, <3>2, <3>4, <3>5 DEF adv_stop_fn
  <2>2. CASE \E t \in Timers : TimerCallback(t)
    <3>1. PICK t \in Timers : TimerCallback(t)
      BY <2>2
    <3>2. Expiry[t] \in EventTypes
      BY DEF Expiry, Timers, EventTypes, TimerEvents, Completions
    <3>3. /\ <<Message(Expiry[t], timer[t] = 0)>> \in Seq(Messages)
          /\ Len(<<Message(Expiry[t], timer[t] = 0)>>) <= 1
      BY <3>2, MessageFacts
    <3> QED
      BY <3>1, <3>3 DEF TimerCallback
  <2> QED
    BY <2>1, <2>2 DEF Callbacks
<1>2. /\ Len(ms) \in Nat /\ Cardinality(due) \in Nat /\ SensorOwes \in Nat
      /\ Cardinality(due') = Cardinality(due) - 1
      /\ SensorOwes' = SensorOwes
  BY <1>1, DueCount, LenProperties DEF TypeOK, SensorOwes
<1>3. Len(ms) + Cardinality(due') + (IF fsm_pc' = "idle" THEN 0 ELSE 1) + SensorOwes'
        <= Cardinality(due) + (IF fsm_pc = "idle" THEN 0 ELSE 1) + SensorOwes
  BY <1>1, <1>2
<1> QED
  BY <1>1, <1>3, PostQueue

LEMMA SensorQueue ==
  ASSUME IInv, TypeOK', QueueInv, QueueDepth >= Enough, SensorThread
  PROVE  QueueInv'
<1>0. /\ TypeOK /\ sensor.live \in BOOLEAN /\ Cardinality(due) \in Nat /\ ~lost
      /\ sensor \in [pc : {"sleep", "imu", "baro"}, fired : BOOLEAN, live : BOOLEAN]
  BY DueCount DEF IInv, TypeOK, QueueInv
<1>1. UNCHANGED <<fsm_pc, due>>
  BY Zenon DEF SensorThread, sensor_read_state, sensor_imu, sensor_baro, SensorOnly
<1>2. CASE sensor_read_state
  <2>1. fsm_pc = "idle" /\ queue = <<>> /\ UNCHANGED <<queue, lost>>
    BY <1>2 DEF sensor_read_state, FsmWaits, IInv, Coherent, TypeOK
  <2>2. SensorOwes' = 2
    BY <1>2 DEF sensor_read_state, SensorOwes
  <2>3. Len(queue') = 0 /\ Cardinality(due') \in Nat /\ Cardinality(due') <= 7
    BY <2>1, EmptySeq, DueCount DEF TypeOK
  <2> QED
    BY <1>0, <1>1, <2>1, <2>2, <2>3 DEF QueueInv, Coming, Enough
<1>3. CASE sensor_imu \/ sensor_baro
  <2>1. PICK e \in {"MOTION_DETECTED", "PRESSURE_BREACH", "POLL_TICK", NoEvent} : SensorPosts(e)
    BY <1>3 DEF sensor_imu, sensor_baro
  <2> DEFINE ms == IF e = NoEvent THEN <<>> ELSE <<Message(e, sensor.live)>>
  <2>2. Post(queue, ms)
    BY <2>1 DEF SensorPosts
  <2>3. ms \in Seq(Messages) /\ Len(ms) \in Nat /\ Len(ms) <= 1
    <3>1. CASE e = NoEvent
      BY <3>1, EmptySeq
    <3>2. CASE e # NoEvent
      <4>1. e \in EventTypes
        BY <3>2 DEF EventTypes, Breaches, Lifecycle
      <4> QED
        BY <1>0, <3>2, <4>1, OneLong
    <3> QED
      BY <3>1, <3>2
  <2>4. SensorOwes \in Nat /\ SensorOwes' \in Nat /\ SensorOwes' + 1 <= SensorOwes
    <3>1. CASE sensor_imu
      <4>1. sensor.pc = "imu" /\ sensor'.pc = "baro"
        BY <1>0, <3>1 DEF sensor_imu
      <4> QED
        BY <4>1 DEF SensorOwes
    <3>2. CASE sensor_baro
      <4>1. sensor.pc = "baro" /\ sensor'.pc = "sleep"
        BY <3>2 DEF sensor_baro
      <4> QED
        BY <4>1 DEF SensorOwes
    <3> QED
      BY <1>3, <3>1, <3>2
  <2> HIDE DEF ms
  <2>5. Len(ms) + Cardinality(due') + (IF fsm_pc' = "idle" THEN 0 ELSE 1) + SensorOwes'
          <= Cardinality(due) + (IF fsm_pc = "idle" THEN 0 ELSE 1) + SensorOwes
    <3>1. Len(ms) + SensorOwes' <= SensorOwes
      <4>1. \A a, b, c \in Nat : a <= 1 /\ b + 1 <= c => a + b <= c
        OBVIOUS
      <4> QED
        BY <2>3, <2>4, <4>1, Zenon
    <3>2. Cardinality(due') = Cardinality(due)
      BY <1>1
    <3>3. CASE fsm_pc = "idle"
      BY <1>0, <1>1, <2>3, <2>4, <3>1, <3>2, <3>3
    <3>4. CASE fsm_pc # "idle"
      BY <1>0, <1>1, <2>3, <2>4, <3>1, <3>2, <3>4
    <3> QED
      BY <3>3, <3>4
  <2> QED
    BY <1>0, <2>2, <2>3, <2>5, PostQueue
<1> QED
  BY <1>2, <1>3 DEF SensorThread

\* The clock moves on with an empty queue and no poll begun: all that is owed is new.
LEMMA TickQueue ==
  ASSUME TypeOK, TypeOK', QueueInv, Tick
  PROVE  QueueInv'
<1>1. /\ queue' = <<>> /\ fsm_pc' = "idle" /\ sensor'.pc = "sleep" /\ lost' = lost
  BY DEF Tick
<1>2. Len(queue') = 0 /\ Cardinality(due') \in Nat /\ Cardinality(due') <= 7
  BY <1>1, EmptySeq, DueCount DEF TypeOK
<1>3. SensorOwes' = 0
  BY <1>1 DEF SensorOwes
<1> QED
  BY <1>1, <1>2, <1>3 DEF QueueInv, Coming, Enough

----------------------------------------------------------------------------
(* Theorem.                                                                *)

\* The firmware's own producers never fill a queue of nine entries, whatever its delays
\* and faults are: one for each timer and two for the sensor thread.  The firmware's
\* has 16.
THEOREM QueueAlwaysEnough ==
  ASSUME QueueDepth >= Enough, EnvEvents = {}
  PROVE  Spec => []NoEventLost
<1>1. Init => QueueInv
  <2> SUFFICES ASSUME Init PROVE QueueInv
    OBVIOUS
  <2>1. Len(queue) \in Nat /\ Len(queue) <= 1
    BY DEF Init, Fresh
  <2>2. Cardinality(due) = 0 /\ SensorOwes = 0 /\ ~lost
    BY FS_EmptySet DEF Init, SensorOwes
  <2> QED
    BY <2>1, <2>2 DEF QueueInv, Coming, Enough
<1>2. IInv /\ IInv' /\ QueueInv /\ [Next]_vars => QueueInv'
  <2> SUFFICES ASSUME IInv, IInv', QueueInv, [Next]_vars PROVE QueueInv'
    OBVIOUS
  <2>0. TypeOK /\ TypeOK'
    BY DEF IInv
  <2>1. CASE FsmThread
    BY <2>0, <2>1, FsmThreadQueue
  <2>2. CASE SensorThread
    BY <2>0, <2>2, SensorQueue
  <2>3. CASE Callbacks
    BY <2>0, <2>3, CallbacksQueue
  <2>4. CASE EnvPost
    BY <2>4 DEF EnvPost
  <2>5. CASE Tick
    BY <2>0, <2>5, TickQueue
  <2>6. CASE UNCHANGED vars
    BY <2>6 DEF vars, QueueInv, Coming, SensorOwes
  <2> QED
    BY <2>1, <2>2, <2>3, <2>4, <2>5, <2>6 DEF Next
<1>3. QueueInv => NoEventLost
  BY DEF QueueInv, NoEventLost
<1> QED
  BY <1>1, <1>2, <1>3, Inductive, PTL DEF Spec

=============================================================================
