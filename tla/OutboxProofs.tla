---------------------------- MODULE OutboxProofs ----------------------------
(***************************************************************************)
(* The order of arrival, for any number of frames, outages and crashes.    *)
(***************************************************************************)
EXTENDS Outbox, TLAPS

\* Order alone is not inductive: a frame still to be sent must not be overtaken by one that
\* arrived, and while connected everything sent has arrived, so that only a lost connection
\* sends a frame again.
OutboxInv ==
    /\ pending \subseteq Nat /\ unacked \subseteq Nat /\ delivered \in Seq(Nat)
    /\ connected \in BOOLEAN
    /\ connected => unacked \subseteq Arrived
    /\ \A n \in (pending \cup unacked) \ Arrived : \A m \in Arrived : m < n
    /\ DeliveredInOrder

LEMMA ArrivedAppend ==
    ASSUME NEW s \in Seq(Nat), NEW n \in Nat, delivered = s, delivered' = Append(s, n)
    PROVE  Arrived' = Arrived \cup {n}
  <1>1. Len(Append(s, n)) = Len(s) + 1 /\ Append(s, n)[Len(s) + 1] = n
        /\ \A k \in 1 .. Len(s) : Append(s, n)[k] = s[k]
    OBVIOUS
  <1>2. DOMAIN Append(s, n) = 1 .. Len(s) + 1 /\ DOMAIN s = 1 .. Len(s) /\ Len(s) \in Nat
    OBVIOUS
  <1>3. Arrived' = {Append(s, n)[k] : k \in 1 .. Len(s) + 1} /\ Arrived = {s[k] : k \in 1 .. Len(s)}
    BY <1>2 DEF Arrived
  <1>4. \A k \in 1 .. Len(s) + 1 : k \in 1 .. Len(s) \/ k = Len(s) + 1
    BY <1>2
  <1> QED
    BY <1>1, <1>2, <1>3, <1>4

LEMMA OutboxInvInit == OutboxInit => OutboxInv
  <1> SUFFICES ASSUME OutboxInit PROVE OutboxInv
    OBVIOUS
  <1>1. delivered \in Seq(Nat) /\ DOMAIN delivered = {}
    BY DEF OutboxInit
  <1>2. Arrived = {} /\ DeliveredInOrder
    BY <1>1 DEF Arrived, DeliveredInOrder
  <1> QED
    BY <1>1, <1>2 DEF OutboxInit, OutboxInv

LEMMA OutboxInvNext == OutboxInv /\ [OutboxNext]_outbox => OutboxInv'
  <1> SUFFICES ASSUME OutboxInv, [OutboxNext]_outbox
               PROVE  OutboxInv'
    OBVIOUS
  <1>1. ASSUME UNCHANGED delivered
        PROVE  Arrived' = Arrived /\ DeliveredInOrder'
    BY <1>1 DEF Arrived, DeliveredInOrder, OutboxInv
  <1>2. CASE Put
    BY <1>1, <1>2 DEF Put, OutboxInv
  <1>3. CASE GiveUp
    BY <1>1, <1>3 DEF GiveUp, OutboxInv
  <1>4. CASE Send
    <2> PICK n \in pending : /\ \A m \in pending : n <= m
                             /\ pending' = pending \ {n} /\ unacked' = unacked \cup {n}
                             /\ delivered' = IF connected THEN Append(delivered, n) ELSE delivered
      BY <1>4 DEF Send
    <2>1. n \in Nat /\ UNCHANGED connected
      BY <1>4 DEF Send, OutboxInv
    <2>2. CASE ~connected
      <3>1. UNCHANGED delivered
        BY <2>2
      <3> QED
        BY <1>1, <2>1, <2>2, <3>1 DEF OutboxInv
    <2>3. CASE connected
      <3>1. delivered' = Append(delivered, n) /\ delivered' \in Seq(Nat)
        BY <2>1, <2>3 DEF OutboxInv
      <3>2. Arrived' = Arrived \cup {n}
        BY <2>1, <3>1, ArrivedAppend DEF OutboxInv
      <3>3. unacked' \subseteq Arrived'
        BY <2>3, <3>2 DEF OutboxInv
      <3>4. ASSUME NEW p \in (pending' \cup unacked') \ Arrived', NEW m \in Arrived'
            PROVE  m < p
        <4>1. p \in pending /\ p # n /\ p \notin Arrived
          BY <3>2, <3>3, <3>4
        <4>2. n < p
          BY <2>1, <4>1 DEF OutboxInv
        <4> QED
          BY <3>2, <3>4, <4>1, <4>2 DEF OutboxInv
      <3>5. DeliveredInOrder'
        <4> DEFINE len == Len(delivered)
        <4>1. /\ len \in Nat /\ DOMAIN delivered = 1 .. len /\ DOMAIN delivered' = 1 .. len + 1
              /\ delivered'[len + 1] = n /\ \A k \in 1 .. len : delivered'[k] = delivered[k]
          BY <2>1, <3>1 DEF OutboxInv
        <4>2. ASSUME NEW j \in 1 .. len
              PROVE  \/ \E k \in 1 .. j - 1 : delivered'[k] = delivered'[j]
                     \/ \A k \in 1 .. j - 1 : delivered'[k] < delivered'[j]
          <5>1. \A k \in 1 .. j - 1 : k \in 1 .. len
            BY <4>1
          <5> QED
            BY <4>1, <5>1 DEF OutboxInv, DeliveredInOrder
        <4>3. \/ \E k \in 1 .. len : delivered'[k] = n
              \/ \A k \in 1 .. len : delivered'[k] < n
          <5>1. CASE n \in Arrived
            BY <4>1, <5>1 DEF Arrived
          <5>2. CASE n \notin Arrived
            <6>1. \A k \in 1 .. len : delivered[k] \in Arrived
              BY <4>1 DEF Arrived
            <6> QED
              BY <4>1, <5>2, <6>1 DEF OutboxInv
          <5> QED
            BY <5>1, <5>2
        <4>4. \A j \in DOMAIN delivered' : j \in 1 .. len \/ (j = len + 1 /\ j - 1 = len)
          BY <4>1
        <4> HIDE DEF len
        <4> QED
          BY <4>1, <4>2, <4>3, <4>4 DEF DeliveredInOrder
      <3> QED
        BY <2>1, <3>1, <3>3, <3>4, <3>5 DEF OutboxInv
    <2> QED
      BY <2>2, <2>3
  <1>5. CASE Acknowledge
    BY <1>1, <1>5 DEF Acknowledge, OutboxInv
  <1>6. CASE Break
    BY <1>1, <1>6 DEF Break, OutboxInv
  <1>7. CASE Recover
    BY <1>1, <1>7 DEF Recover, OutboxInv
  <1>8. CASE Connect
    BY <1>1, <1>8 DEF Connect, OutboxInv
  <1>9. CASE Crash
    BY <1>1, <1>9 DEF Crash, OutboxInv
  <1>10. CASE UNCHANGED outbox
    BY <1>1, <1>10 DEF outbox, OutboxInv
  <1> QED
    BY <1>2, <1>3, <1>4, <1>5, <1>6, <1>7, <1>8, <1>9, <1>10 DEF OutboxNext

\* What is pending is ahead of everything that arrived, in every reachable state.
THEOREM OutboxInductive == OutboxSpec => []OutboxInv
  BY OutboxInvInit, OutboxInvNext, PTL DEF OutboxSpec

\* Every system that implements the outbox, as the gateway does, has its frames arrive in
\* the order of their numbers, repetitions after a lost connection aside.
THEOREM ArrivesInOrder == OutboxSpec => []DeliveredInOrder
  <1>1. OutboxInv => DeliveredInOrder
    BY DEF OutboxInv
  <1> QED
    BY <1>1, OutboxInductive, PTL

=============================================================================
