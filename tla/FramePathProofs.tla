--------------------------- MODULE FramePathProofs ---------------------------
(***************************************************************************)
(* What a frame's way comes to, for every packet, event and number of      *)
(* boots: the path implements the audit trail, and every row marked as     *)
(* verified holds the very bytes the node signed.                          *)
(***************************************************************************)
EXTENDS FramePath, HciParseProofs, WireProofs, FiniteSetTheorems, SequenceTheorems,
        WellFoundedInduction, TLAPS

----------------------------------------------------------------------------
(* Sequences joined.                                                       *)

\* A set of naturals has a least one: what fails for some number fails for a first.
LEMMA LeastNat ==
    ASSUME NEW T, T \subseteq Nat, T # {}
    PROVE  \E m \in T : \A n \in T : m <= n
  <1> DEFINE R == OpToRel(<, Nat)
  <1>1. IsWellFoundedOn(R, Nat)
    BY NatLessThanWellFounded, Zenon
  <1>2. \A x, y \in Nat : x < y => <<x, y>> \in R
    BY DEF OpToRel
  <1> HIDE DEF R
  <1>3. PICK x \in T : \A y \in T : ~(<<y, x>> \in R)
    BY <1>1, WFMin, Zenon
  <1>4. ASSUME NEW y \in T PROVE x <= y
    <2>1. x \in Nat /\ y \in Nat
      OBVIOUS
    <2>2. ~(y < x)
      BY <1>2, <1>3, <2>1
    <2> QED
      BY <2>1, <2>2
  <1> QED
    BY <1>4

\* f[k] joins the first k of seqs.
Flattens(f, seqs, m) ==
    f = [k \in 1 .. m |-> IF k = 1 THEN seqs[k] ELSE f[k - 1] \o seqs[k]]

\* Each join goes on where the one before it ended.
GoesOn(f, m, S) ==
    /\ f \in [1 .. m -> Seq(S)]
    /\ \A k, j \in 1 .. m : k <= j => Len(f[k]) <= Len(f[j]) /\ \A x \in 1 .. Len(f[k]) : f[j][x] = f[k][x]

LEMMA FlattenExtends ==
    ASSUME NEW S, NEW seqs \in Seq(Seq(S)), NEW n \in Nat, n + 1 <= Len(seqs),
           NEW g, Flattens(g, seqs, n), GoesOn(g, n, S)
    PROVE  \E f : Flattens(f, seqs, n + 1) /\ GoesOn(f, n + 1, S)
  <1> DEFINE new == IF n = 0 THEN seqs[1] ELSE g[n] \o seqs[n + 1]
             f == [k \in 1 .. n + 1 |-> IF k = n + 1 THEN new ELSE g[k]]
  <1>1. seqs[n + 1] \in Seq(S)
    BY ElementOfSeq
  <1>2. new \in Seq(S)
    <2>1. CASE n = 0
      BY <1>1, <2>1
    <2>2. CASE n # 0
      <3>1. g[n] \in Seq(S)
        BY <2>2 DEF GoesOn
      <3> QED
        BY <1>1, <2>2, <3>1, ConcatProperties
    <2> QED
      BY <2>1, <2>2
  <1>3. n # 0 => /\ Len(g[n]) <= Len(new)
                 /\ \A x \in 1 .. Len(g[n]) : new[x] = g[n][x]
    <2> SUFFICES ASSUME n # 0
                 PROVE  Len(g[n]) <= Len(new) /\ \A x \in 1 .. Len(g[n]) : new[x] = g[n][x]
      OBVIOUS
    <2>1. g[n] \in Seq(S)
      BY DEF GoesOn
    <2>2. new = g[n] \o seqs[n + 1]
      OBVIOUS
    <2> DEFINE a == g[n]   q == seqs[n + 1]
    <2>3. a \in Seq(S) /\ q \in Seq(S) /\ new = a \o q
      BY <1>1, <2>1, <2>2
    <2> HIDE DEF new, a, q
    <2>4. Len(a) \in Nat /\ Len(q) \in Nat
      BY <2>3, LenProperties
    <2>5. /\ Len(new) = Len(a) + Len(q)
          /\ \A x \in 1 .. Len(a) + Len(q) : new[x] = IF x <= Len(a) THEN a[x] ELSE q[x - Len(a)]
      BY <2>3, ConcatProperties
    <2>6. Len(a) <= Len(new) /\ \A x \in 1 .. Len(a) : new[x] = a[x]
      BY <2>4, <2>5
    <2> QED
      BY <2>6 DEF a
  <1>4. \A k \in 1 .. n : g[k] \in Seq(S)
    BY DEF GoesOn
  <1>5. f = [k \in 1 .. n + 1 |-> IF k = 1 THEN seqs[k] ELSE f[k - 1] \o seqs[k]]
    <2>1. ASSUME NEW k \in 1 .. n + 1 PROVE f[k] = IF k = 1 THEN seqs[k] ELSE f[k - 1] \o seqs[k]
      <3>1. CASE k = n + 1
        <4>1. f[k] = new
          BY <3>1
        <4>2. k # 1 => n # 0 /\ f[k - 1] = g[n] /\ k - 1 = n
          BY <3>1
        <4> QED
          BY <3>1, <4>1, <4>2
      <3>2. CASE k # n + 1
        <4>1. k \in 1 .. n /\ f[k] = g[k]
          BY <3>2
        <4>2. g[k] = IF k = 1 THEN seqs[k] ELSE g[k - 1] \o seqs[k]
          BY <4>1 DEF Flattens
        <4>3. k # 1 => f[k - 1] = g[k - 1]
          BY <4>1
        <4> QED
          BY <4>1, <4>2, <4>3
      <3> QED
        BY <3>1, <3>2
    <2> QED
      BY <2>1
  <1>6. f \in [1 .. n + 1 -> Seq(S)] /\ f[n + 1] = new /\ \A k \in 1 .. n : f[k] = g[k]
    <2> HIDE DEF new
    <2>1. \A k \in 1 .. n + 1 : k # n + 1 => k \in 1 .. n
      OBVIOUS
    <2>2. n + 1 \in 1 .. n + 1 /\ \A k \in 1 .. n : k \in 1 .. n + 1 /\ k # n + 1
      OBVIOUS
    <2>3. f \in [1 .. n + 1 -> Seq(S)]
      BY <1>2, <1>4, <2>1
    <2> QED
      BY <2>2, <2>3
  <1> HIDE DEF f, new
  <1>7. ASSUME NEW k \in 1 .. n + 1, NEW j \in 1 .. n + 1, k <= j
        PROVE  Len(f[k]) <= Len(f[j]) /\ \A x \in 1 .. Len(f[k]) : f[j][x] = f[k][x]
    <2>1. CASE k = j
      <3>1. Len(f[k]) \in Nat
        BY <1>6, LenProperties
      <3> QED
        BY <2>1, <3>1
    <2>2. CASE k < j /\ j \in 1 .. n
      <3>1. k \in 1 .. n
        BY <2>2
      <3> QED
        BY <1>6, <1>7, <2>2, <3>1, ZenonT(60) DEF GoesOn
    <2>3. CASE k < j /\ j = n + 1
      <3>1. k \in 1 .. n /\ n \in 1 .. n /\ n # 0 /\ k <= n
        BY <2>3
      <3>2. Len(g[k]) <= Len(g[n]) /\ \A x \in 1 .. Len(g[k]) : g[n][x] = g[k][x]
        BY <3>1, Zenon DEF GoesOn
      <3>3. Len(g[k]) \in Nat /\ Len(g[n]) \in Nat /\ Len(new) \in Nat
        BY <1>2, <1>4, <3>1, LenProperties
      <3>4. f[k] = g[k] /\ f[j] = new
        BY <1>6, <2>3, <3>1
      <3>5. \A x \in 1 .. Len(g[k]) : x \in 1 .. Len(g[n])
        BY <3>2, <3>3
      <3> QED
        BY <1>3, <3>1, <3>2, <3>3, <3>4, <3>5
    <2>4. k = j \/ (k < j /\ j \in 1 .. n) \/ (k < j /\ j = n + 1)
      BY <1>7
    <2> QED
      BY <2>1, <2>2, <2>3, <2>4, Zenon
  <1>8. GoesOn(f, n + 1, S)
    BY <1>6, <1>7 DEF GoesOn
  <1> QED
    BY <1>5, <1>8 DEF Flattens

LEMMA FlattenExists ==
    ASSUME NEW S, NEW seqs \in Seq(Seq(S))
    PROVE  \E f : Flattens(f, seqs, Len(seqs)) /\ GoesOn(f, Len(seqs), S)
  <1> DEFINE Q(m) == \E f : Flattens(f, seqs, m) /\ GoesOn(f, m, S)
             T == {m \in 0 .. Len(seqs) : ~Q(m)}
  <1>1. Len(seqs) \in Nat
    BY LenProperties
  <1>2. Q(0)
    <2> DEFINE f == [k \in 1 .. 0 |-> IF k = 1 THEN seqs[k] ELSE seqs[k]]
    <2>1. Flattens(f, seqs, 0)
      BY DEF Flattens
    <2>2. GoesOn(f, 0, S)
      BY DEF GoesOn
    <2> QED
      BY <2>1, <2>2
  <1>3. ASSUME NEW m \in 0 .. Len(seqs), m # 0, Q(m - 1) PROVE Q(m)
    <2>1. m - 1 \in Nat /\ (m - 1) + 1 <= Len(seqs) /\ (m - 1) + 1 = m
      BY <1>1, <1>3
    <2>2. PICK g : Flattens(g, seqs, m - 1) /\ GoesOn(g, m - 1, S)
      BY <1>3
    <2>3. \E f : Flattens(f, seqs, (m - 1) + 1) /\ GoesOn(f, (m - 1) + 1, S)
      BY <2>1, <2>2, FlattenExtends
    <2> QED
      BY <2>1, <2>3
  <1> HIDE DEF Q
  <1>4. T = {}
    <2> SUFFICES ASSUME T # {} PROVE FALSE
      OBVIOUS
    <2>1. T \subseteq Nat
      BY <1>1
    <2>2. PICK m \in T : \A n \in T : m <= n
      BY <2>1, LeastNat
    <2>3. m \in 0 .. Len(seqs) /\ ~Q(m) /\ m # 0
      BY <1>2, <2>2
    <2>4. m - 1 \in 0 .. Len(seqs) /\ m - 1 \notin T
      BY <1>1, <2>2, <2>3
    <2>5. Q(m - 1)
      BY <2>4
    <2> QED
      BY <1>3, <2>3, <2>5
  <1>5. Len(seqs) \in 0 .. Len(seqs)
    BY <1>1
  <1>6. Q(Len(seqs))
    BY <1>4, <1>5
  <1> QED
    BY <1>6 DEF Q

\* s is what seqs make when joined: the k-th of them stands behind the first starts[k].
Joined(s, seqs, starts) ==
    /\ starts \in [1 .. Len(seqs) + 1 -> Nat] /\ starts[1] = 0 /\ starts[Len(seqs) + 1] = Len(s)
    /\ \A k \in 1 .. Len(seqs) :
         /\ starts[k + 1] = starts[k] + Len(seqs[k]) /\ starts[k + 1] <= Len(s)
         /\ \A x \in 1 .. Len(seqs[k]) : s[starts[k] + x] = seqs[k][x]

LEMMA FlattenJoins ==
    ASSUME NEW S, NEW seqs \in Seq(Seq(S))
    PROVE  FlattenSeq(seqs) \in Seq(S) /\ \E starts : Joined(FlattenSeq(seqs), seqs, starts)
  <1> DEFINE n == Len(seqs)
             h == CHOOSE f : f = [k \in 1 .. n |-> IF k = 1 THEN seqs[k] ELSE f[k - 1] \o seqs[k]]
             s == FlattenSeq(seqs)
  <1>1. n \in Nat /\ \A k \in 1 .. n : seqs[k] \in Seq(S) /\ Len(seqs[k]) \in Nat
    BY ElementOfSeq, LenProperties
  <1>2. CASE n = 0
    <2>1. seqs = <<>> /\ s = <<>>
      BY <1>2, EmptySeq DEF FlattenSeq
    <2> DEFINE starts == [k \in 1 .. 1 |-> 0]
    <2>2. starts \in [1 .. Len(seqs) + 1 -> Nat] /\ starts[1] = 0 /\ starts[Len(seqs) + 1] = 0 /\ Len(s) = 0
      BY <1>2, <2>1
    <2>3. Joined(s, seqs, starts)
      BY <1>2, <2>2 DEF Joined
    <2>4. s \in Seq(S)
      BY <2>1, EmptySeq, Zenon
    <2> HIDE DEF s, starts
    <2>5. \E st : Joined(s, seqs, st)
      BY <2>3, Zenon
    <2> QED
      BY <2>4, <2>5 DEF s
  <1>3. CASE n # 0
    <2>1. PICK f : Flattens(f, seqs, n) /\ GoesOn(f, n, S)
      BY FlattenExists
    <2>2. s = h[n]
      BY <1>3 DEF FlattenSeq
    <2>3. Flattens(h, seqs, n)
      BY <2>1 DEF Flattens
    <2> HIDE DEF s, h, n
    <2>4. \A k \in 1 .. n : h[k] = IF k = 1 THEN seqs[k] ELSE h[k - 1] \o seqs[k]
      BY <2>3 DEF Flattens
    <2>5. \A k \in 1 .. n : f[k] = IF k = 1 THEN seqs[k] ELSE f[k - 1] \o seqs[k]
      BY <2>1 DEF Flattens
    <2>6. \A k \in 1 .. n : h[k] = f[k]
      <3> DEFINE T == {k \in 1 .. n : h[k] # f[k]}
      <3> SUFFICES ASSUME T # {} PROVE FALSE
        OBVIOUS
      <3>1. T \subseteq Nat
        BY <1>1
      <3>2. PICK k \in T : \A j \in T : k <= j
        BY <3>1, LeastNat
      <3>3. k # 1
        BY <2>4, <2>5
      <3>4. k - 1 \in 1 .. n /\ k - 1 \notin T
        BY <1>1, <3>2, <3>3
      <3> QED
        BY <2>4, <2>5, <3>3, <3>4
    <2>7. n \in 1 .. n
      BY <1>1, <1>3
    <2>8. s = f[n] /\ s \in Seq(S)
      BY <2>1, <2>2, <2>6, <2>7 DEF GoesOn
    <2> DEFINE starts == [k \in 1 .. n + 1 |-> IF k = 1 THEN 0 ELSE Len(f[k - 1])]
    <2>9. \A k \in 1 .. n : Len(f[k]) \in Nat /\ f[k] \in Seq(S)
      BY <2>1, LenProperties DEF GoesOn
    <2>10. /\ starts \in [1 .. n + 1 -> Nat] /\ starts[1] = 0 /\ starts[n + 1] = Len(s)
           /\ \A k \in 1 .. n : starts[k + 1] = Len(f[k]) /\ (k # 1 => starts[k] = Len(f[k - 1]))
      BY <1>1, <1>3, <2>8, <2>9
    <2> HIDE DEF starts
    <2>11. ASSUME NEW k \in 1 .. n
           PROVE  /\ starts[k + 1] = starts[k] + Len(seqs[k]) /\ starts[k + 1] <= Len(s)
                  /\ \A x \in 1 .. Len(seqs[k]) : s[starts[k] + x] = seqs[k][x]
      <3>1. Len(f[k]) <= Len(s) /\ \A x \in 1 .. Len(f[k]) : s[x] = f[k][x]
        <4>1. k <= n
          BY <1>1
        <4> QED
          BY <2>1, <2>7, <2>8, <4>1, Zenon DEF GoesOn
      <3>2. CASE k = 1
        <4>1. f[k] = seqs[k] /\ starts[k] = 0 /\ starts[k + 1] = Len(f[k])
          BY <2>5, <2>10, <3>2
        <4>2. \A x \in 1 .. Len(seqs[k]) : starts[k] + x = x
          BY <4>1
        <4> QED
          BY <1>1, <3>1, <4>1, <4>2
      <3>3. CASE k # 1
        <4> DEFINE a == f[k - 1]
        <4>1. k - 1 \in 1 .. n
          BY <1>1, <3>3
        <4>2. f[k] = a \o seqs[k] /\ starts[k] = Len(a) /\ starts[k + 1] = Len(f[k]) /\ a \in Seq(S)
          BY <2>5, <2>9, <2>10, <3>3, <4>1
        <4>3. seqs[k] \in Seq(S) /\ Len(seqs[k]) \in Nat /\ Len(a) \in Nat
          BY <1>1, <2>9, <4>1
        <4> HIDE DEF a
        <4> DEFINE q == seqs[k]
        <4> HIDE DEF q
        <4>4. /\ Len(a \o q) = Len(a) + Len(q)
              /\ \A x \in 1 .. Len(a) + Len(q) : (a \o q)[x] = IF x <= Len(a) THEN a[x] ELSE q[x - Len(a)]
          BY <4>2, <4>3, ConcatProperties DEF q
        <4>5. ASSUME NEW x \in 1 .. Len(q) PROVE s[Len(a) + x] = q[x]
          <5>1. /\ Len(a) + x \in 1 .. Len(a) + Len(q) /\ ~(Len(a) + x <= Len(a))
                /\ (Len(a) + x) - Len(a) = x
            BY <4>3 DEF q
          <5>2. (a \o q)[Len(a) + x] = q[x]
            BY <4>4, <5>1
          <5>3. Len(a) + x \in 1 .. Len(f[k])
            BY <4>2, <4>4, <5>1 DEF q
          <5> QED
            BY <3>1, <4>2, <5>2, <5>3 DEF q
        <4> QED
          BY <3>1, <4>2, <4>4, <4>5 DEF q
      <3> QED
        BY <3>2, <3>3
    <2>12. Joined(s, seqs, starts)
      BY <2>10, <2>11 DEF Joined, n
    <2> QED
      BY <2>8, <2>12 DEF s
  <1> QED
    BY <1>2, <1>3

AsLong(u, v) == Len(u) = Len(v)
EqualLengths(a, b) == AsLong(a, b) /\ \A k \in 1 .. Len(a) : AsLong(a[k], b[k])

\* The length of what is joined depends on the lengths alone.
LEMMA SameLengths ==
    ASSUME NEW S, NEW T, NEW a \in Seq(Seq(S)), NEW b \in Seq(Seq(T)), EqualLengths(a, b)
    PROVE  AsLong(FlattenSeq(a), FlattenSeq(b))
  <1> USE DEF EqualLengths, AsLong
  <1> DEFINE u == FlattenSeq(a)   v == FlattenSeq(b)   n == Len(a)
  <1>1. PICK sa : Joined(u, a, sa)
    BY FlattenJoins
  <1>2. PICK sb : Joined(v, b, sb)
    BY FlattenJoins
  <1>3. n \in Nat
    BY LenProperties
  <1> HIDE DEF u, v
  <1>4. \A k \in 1 .. n : sa[k + 1] = sa[k] + Len(a[k]) /\ sb[k + 1] = sb[k] + Len(a[k])
    BY <1>1, <1>2 DEF Joined
  <1>5. sa[1] = 0 /\ sb[1] = 0 /\ sa[n + 1] = Len(u) /\ sb[n + 1] = Len(v)
    BY <1>1, <1>2 DEF Joined
  <1> HIDE DEF n
  <1>6. \A k \in 1 .. n + 1 : sa[k] = sb[k]
    <2> DEFINE D == {k \in 1 .. n + 1 : sa[k] # sb[k]}
    <2> SUFFICES ASSUME D # {} PROVE FALSE
      OBVIOUS
    <2>1. D \subseteq Nat
      BY <1>3
    <2>2. PICK k \in D : \A j \in D : k <= j
      BY <2>1, LeastNat
    <2>3. k # 1 /\ k \in 1 .. n + 1
      BY <1>5, <2>2
    <2>4. k - 1 \in 1 .. n /\ k - 1 \in 1 .. n + 1 /\ (k - 1) + 1 = k /\ ~(k <= k - 1)
      BY <1>3, <2>3
    <2>5. sa[k - 1] = sb[k - 1]
      BY <2>2, <2>4
    <2> QED
      BY <1>4, <2>2, <2>4, <2>5
  <1>7. n + 1 \in 1 .. n + 1
    BY <1>3
  <1> QED
    BY <1>5, <1>6, <1>7 DEF u, v

----------------------------------------------------------------------------
(* What packets are made of.                                               *)

AdLen(kind) ==
    CASE kind = "frame" -> 186 [] kind = "flags" -> 3 [] kind = "short" -> 3
      [] kind = "foreign" -> 5 [] kind = "end" -> 1

LEMMA AdIs ==
    ASSUME NEW S, 0 .. 255 \subseteq S, NEW lf \in [1 .. 184 -> S], NEW kind \in AdKinds
    PROVE  Ad(kind, lf) \in Seq(S) /\ Len(Ad(kind, lf)) = AdLen(kind)
  <1>1. CASE kind = "frame"
    <2> DEFINE h == <<185, 255>>
    <2>1. Len(lf) = 184
      BY FunctionIsSeq
    <2>2. Len(lf) + 1 = 185
      BY <2>1
    <2>3. Ad(kind, lf) = h \o lf
      BY <1>1, <2>2 DEF Ad
    <2>4. h \in [1 .. 2 -> S] /\ Parts(186, 2, 184) /\ 186 \in Nat
      BY DEF Parts
    <2> HIDE DEF h
    <2> DEFINE q == h \o lf
    <2>5. Joins(q, 186, h, 2, lf, 184, S)
      BY <2>4, JoinProperties, Zenon
    <2> HIDE DEF q
    <2>6. q \in [1 .. 186 -> S]
      BY <2>5 DEF Joins
    <2>7. Long(q, 186, S)
      BY <2>4, <2>6, FunctionIsLong, Zenon
    <2> QED
      BY <1>1, <2>3, <2>7 DEF AdLen, q, Long
  <1>2. CASE kind = "flags"
    BY <1>2 DEF Ad, AdLen
  <1>3. CASE kind = "short"
    BY <1>3 DEF Ad, AdLen
  <1>4. CASE kind = "foreign"
    BY <1>4 DEF Ad, AdLen
  <1>5. CASE kind = "end"
    BY <1>5 DEF Ad, AdLen
  <1> QED
    BY <1>1, <1>2, <1>3, <1>4, <1>5 DEF AdKinds

\* The structures of AD data, in order.
AdsOf(ads, lf) == [k \in DOMAIN ads |-> Ad(ads[k], lf)]

AdsMake(a, ads, lf, S) ==
    /\ a \in Seq(Seq(S)) /\ Len(a) = Len(ads)
    /\ \A k \in 1 .. Len(ads) : a[k] = Ad(ads[k], lf) /\ Len(a[k]) = AdLen(ads[k])
    /\ AdData(ads, lf) = FlattenSeq(a) /\ AdData(ads, lf) \in Seq(S)

LEMMA AdDataIs ==
    ASSUME NEW S, 0 .. 255 \subseteq S, NEW lf \in [1 .. 184 -> S], NEW ads \in Seq(AdKinds)
    PROVE  AdsMake(AdsOf(ads, lf), ads, lf, S)
  <1> DEFINE n == Len(ads)   a == AdsOf(ads, lf)
  <1>1. n \in Nat /\ DOMAIN ads = 1 .. n /\ \A k \in 1 .. n : ads[k] \in AdKinds
    BY LenProperties, ElementOfSeq
  <1>2. \A k \in 1 .. n : Ad(ads[k], lf) \in Seq(S) /\ Len(Ad(ads[k], lf)) = AdLen(ads[k])
    BY <1>1, AdIs
  <1>3. a = [k \in 1 .. n |-> Ad(ads[k], lf)]
    BY <1>1 DEF AdsOf
  <1> HIDE DEF n
  <1>4. a \in [1 .. n -> Seq(S)] /\ \A k \in 1 .. n : a[k] = Ad(ads[k], lf)
    BY <1>2, <1>3
  <1> HIDE DEF a
  <1>5. a \in Seq(Seq(S)) /\ Len(a) = n
    BY <1>1, <1>4, FunctionIsSeq
  <1>6. FlattenSeq(a) \in Seq(S)
    BY <1>5, FlattenJoins
  <1>7. AdData(ads, lf) = FlattenSeq(a)
    BY DEF AdData, AdsOf, a
  <1> QED
    BY <1>2, <1>4, <1>5, <1>6, <1>7 DEF a, n, AdsMake

LEMMA AdDataLen ==
    ASSUME NEW S, 0 .. 255 \subseteq S, NEW lf \in [1 .. 184 -> S], NEW ads \in Seq(AdKinds)
    PROVE  Len(AdData(ads, lf)) = Len(AdData(ads, Zeros(LF_LEN)))
  <1> DEFINE B == 0 .. 255   z == Zeros(LF_LEN)
  <1>1. LF_LEN = 184
    BY DEF LF_LEN, HEADER_LEN, NONCE_LEN, CIPHERTEXT_LEN, TAG_LEN, OUTER_SIG_LEN
  <1>2. z \in [1 .. 184 -> B] /\ 0 .. 255 \subseteq B
    BY <1>1 DEF Zeros
  <1> HIDE DEF z, B
  <1> DEFINE a == AdsOf(ads, lf)   b == AdsOf(ads, z)
  <1>3. AdsMake(a, ads, lf, S)
    BY AdDataIs, Zenon
  <1>4. AdsMake(b, ads, z, B)
    BY <1>2, AdDataIs, Zenon
  <1> HIDE DEF a, b
  <1>5. a \in Seq(Seq(S)) /\ b \in Seq(Seq(B)) /\ EqualLengths(a, b)
    BY <1>3, <1>4 DEF AdsMake, EqualLengths, AsLong
  <1>6. AsLong(FlattenSeq(a), FlattenSeq(b))
    BY <1>5, SameLengths, Zenon
  <1> QED
    BY <1>3, <1>4, <1>6 DEF z, AdsMake, AsLong

\* Bytes one after another, in place behind the first m.
Follows(s, t, m) == \A k \in 1 .. Len(t) : s[m + k] = t[k]

Lengthened(u, s, m, t, S) ==
    /\ Long(u, m + Len(t), S) /\ Follows(u, t, m)
    /\ \A k \in 1 .. m : u[k] = s[k]

LEMMA JoinIs ==
    ASSUME NEW S, NEW m, NEW s, Long(s, m, S), NEW t \in Seq(S)
    PROVE  Lengthened(s \o t, s, m, t, S)
  <1> DEFINE u == s \o t
  <1>1. s \in Seq(S) /\ Len(s) = m /\ m \in Nat /\ Len(t) \in Nat
    BY LenProperties DEF Long
  <1>2. /\ u \in Seq(S) /\ Len(u) = m + Len(t)
        /\ \A k \in 1 .. m + Len(t) : u[k] = IF k <= m THEN s[k] ELSE t[k - m]
    BY <1>1, ConcatProperties
  <1> HIDE DEF u
  <1>3. \A k \in 1 .. m : u[k] = s[k]
    BY <1>1, <1>2
  <1>4. ASSUME NEW k \in 1 .. Len(t) PROVE u[m + k] = t[k]
    <2>1. m + k \in 1 .. m + Len(t) /\ ~(m + k <= m) /\ (m + k) - m = k
      BY <1>1
    <2> QED
      BY <1>2, <2>1
  <1> QED
    BY <1>2, <1>3, <1>4 DEF Long, Follows, u, Lengthened

\* A report: behind three bytes its address, behind 23 the length of its data, and the data.
MacOf(r) == IF r.node THEN NodeMac ELSE OtherMac

LaidReport(p, r, ad, S) ==
    /\ Long(p, 24 + Len(ad), S)
    /\ \A k \in 1 .. 6 : p[3 + k] = MacOf(r)[k]
    /\ p[24] = Len(ad) /\ Follows(p, ad, 24)

LEMMA MacIs ==
    ASSUME NEW r
    PROVE  MacOf(r) \in [1 .. 6 -> 0 .. 255] /\ (~r.node => MacOf(r)[1] # NodeMac[1])
  <1>1. NodeMac \in [1 .. 6 -> 0 .. 255] /\ NodeMac[1] \in 0 .. 255
    BY NodeMacAssumption
  <1>2. (NodeMac[1] + 1) % 256 \in 0 .. 255 /\ (NodeMac[1] + 1) % 256 # NodeMac[1]
    BY <1>1
  <1>3. OtherMac \in [1 .. 6 -> 0 .. 255] /\ OtherMac[1] = (NodeMac[1] + 1) % 256
    BY <1>1, <1>2 DEF OtherMac
  <1> QED
    BY <1>1, <1>2, <1>3 DEF MacOf

LEMMA ReportIs ==
    ASSUME NEW S, 0 .. 255 \subseteq S, NEW r, NEW lf, NEW n \in 0 .. 255, Long(AdData(r.ads, lf), n, S)
    PROVE  LaidReport(Report(r, lf), r, AdData(r.ads, lf), S)
  <1> DEFINE ad == AdData(r.ads, lf)   mac == MacOf(r)
             z3 == Zeros(3)   z14 == Zeros(14)   l == <<Len(ad)>>
             a == z3 \o mac   b == a \o z14   c == b \o l   d == c \o ad
  <1>1. Report(r, lf) = d
    BY DEF Report, MacOf
  <1>2. mac \in [1 .. 6 -> S]
    <2>1. mac \in [1 .. 6 -> 0 .. 255]
      BY MacIs
    <2> HIDE DEF mac
    <2> QED
      BY <2>1, FunctionWidens, ZenonT(60)
  <1>3. z3 \in [1 .. 3 -> S] /\ z14 \in [1 .. 14 -> S]
    BY DEF Zeros
  <1>4. ad \in Seq(S) /\ Len(ad) = n
    BY DEF Long
  <1>5. l = <<n>>
    BY <1>4
  <1> HIDE DEF ad, mac, z3, z14, l
  <1>6. l \in [1 .. 1 -> S] /\ l[1] = n
    BY <1>5
  <1>7. /\ 3 \in Nat /\ 24 \in Nat
        /\ Parts(9, 3, 6) /\ Parts(23, 9, 14) /\ Parts(24, 23, 1)
    BY DEF Parts
  <1>8. Joins(a, 9, z3, 3, mac, 6, S)
    BY <1>2, <1>3, <1>7, JoinProperties, Zenon
  <1> HIDE DEF a
  <1>9. Joins(b, 23, a, 9, z14, 14, S)
    <2>1. a \in [1 .. 9 -> S]
      BY <1>8 DEF Joins
    <2> QED
      BY <1>3, <1>7, <2>1, JoinProperties, Zenon
  <1> HIDE DEF b
  <1>10. Joins(c, 24, b, 23, l, 1, S)
    <2>1. b \in [1 .. 23 -> S]
      BY <1>9 DEF Joins
    <2> QED
      BY <1>6, <1>7, <2>1, JoinProperties, Zenon
  <1> HIDE DEF c
  <1>11. /\ \A k \in 1 .. 6 : c[3 + k] = mac[k]
         /\ c[24] = n
    <2>1. \A k \in 1 .. 6 : 3 + k \in 1 .. 9 /\ 3 + k \in 1 .. 23
      OBVIOUS
    <2>2. \A k \in 1 .. 6 : c[3 + k] = mac[k]
      BY <1>8, <1>9, <1>10, <2>1 DEF Joins
    <2>3. c[23 + 1] = l[1]
      BY <1>10 DEF Joins
    <2> QED
      BY <1>6, <2>2, <2>3
  <1>12. Long(c, 24, S)
    <2>1. c \in [1 .. 24 -> S]
      BY <1>10 DEF Joins
    <2> QED
      BY <1>7, <2>1, FunctionIsLong, Zenon
  <1>12a. Lengthened(d, c, 24, ad, S)
    BY <1>4, <1>12, JoinIs, Zenon
  <1> HIDE DEF d
  <1>13. \A k \in 1 .. 24 : d[k] = c[k]
    BY <1>12a, Zenon DEF Lengthened
  <1>13a. (\A k \in 1 .. 6 : d[3 + k] = mac[k]) /\ d[24] = n
    <2>1. 24 \in 1 .. 24 /\ \A k \in 1 .. 6 : 3 + k \in 1 .. 24
      OBVIOUS
    <2> QED
      BY <1>11, <1>13, <2>1, Zenon
  <1>14. LaidReport(d, r, ad, S)
    BY <1>4, <1>12a, <1>13a DEF LaidReport, mac, Lengthened
  <1> QED
    BY <1>1, <1>14 DEF ad

\* A packet of one of the shapes: behind five bytes, of which the last counts them, its
\* reports.
ReportsOf(reports, lf) == [k \in DOMAIN reports |-> Report(reports[k], lf)]

ReportsAre(seqs, reports, lf, S) ==
    /\ seqs \in Seq(Seq(S)) /\ Len(seqs) = Len(reports)
    /\ \A k \in 1 .. Len(reports) : LaidReport(seqs[k], reports[k], AdData(reports[k].ads, lf), S)

LaidPacket(p, body, n, S) ==
    /\ Long(p, 5 + Len(body), S)
    /\ p[1] = 4 /\ p[2] = 62 /\ p[4] = 13 /\ p[5] = n
    /\ Follows(p, body, 5)

LEMMA LengthIsByte ==
    ASSUME NEW S, NEW s \in Seq(S), Len(s) <= 255
    PROVE  Len(s) \in 0 .. 255
  <1>1. \A n \in Nat : n <= 255 => n \in 0 .. 255
    OBVIOUS
  <1> QED
    BY <1>1, LenProperties, Zenon

LEMMA RemainderIsByte ==
    ASSUME NEW n \in Nat
    PROVE  (2 + n) % 256 \in 0 .. 255
  OBVIOUS

Head5(h, a, b, c, d, e, S) ==
    Long(h, 5, S) /\ h[1] = a /\ h[2] = b /\ h[3] = c /\ h[4] = d /\ h[5] = e

LEMMA FiveBytes ==
    ASSUME NEW S, NEW a \in S, NEW b \in S, NEW c \in S, NEW d \in S, NEW e \in S
    PROVE  Head5(<<a, b, c, d, e>>, a, b, c, d, e, S)
  BY DEF Long, Head5

LEMMA ShapeIs ==
    ASSUME NEW reports \in Shapes, NEW S, 0 .. 255 \subseteq S, NEW lf \in [1 .. 184 -> S]
    PROVE  /\ Len(reports) \in 0 .. 255 /\ DOMAIN reports = 1 .. Len(reports)
           /\ \A k \in 1 .. Len(reports) :
                /\ reports[k] \in [node : BOOLEAN, ads : Seq(AdKinds)]
                /\ \E n \in 0 .. 255 : Long(AdData(reports[k].ads, lf), n, S)
  <1>1. /\ reports \in Seq([node : BOOLEAN, ads : Seq(AdKinds)])
        /\ Len(reports) <= 255
        /\ \A k \in DOMAIN reports : Len(AdData(reports[k].ads, Zeros(LF_LEN))) <= 255
    BY ShapeAssumption
  <1>2. Len(reports) \in 0 .. 255 /\ DOMAIN reports = 1 .. Len(reports)
    <2>1. Len(reports) \in 0 .. 255
      BY <1>1, LengthIsByte, Zenon
    <2> QED
      BY <1>1, <2>1, LenProperties, Zenon
  <1>3. ASSUME NEW k \in 1 .. Len(reports)
        PROVE  /\ reports[k] \in [node : BOOLEAN, ads : Seq(AdKinds)]
               /\ \E n \in 0 .. 255 : Long(AdData(reports[k].ads, lf), n, S)
    <2>1. reports[k] \in [node : BOOLEAN, ads : Seq(AdKinds)]
      BY <1>1, ElementOfSeq
    <2> DEFINE ads == reports[k].ads   ad == AdData(ads, lf)
    <2>2. ads \in Seq(AdKinds)
      BY <2>1
    <2>3. Len(AdData(ads, Zeros(LF_LEN))) <= 255
      BY <1>1, <1>2
    <2> HIDE DEF ads
    <2>4. Len(ad) = Len(AdData(ads, Zeros(LF_LEN)))
      BY <2>2, AdDataLen, Zenon
    <2>5. ad \in Seq(S)
      <3>1. AdsMake(AdsOf(ads, lf), ads, lf, S)
        BY <2>2, AdDataIs, Zenon
      <3> QED
        BY <3>1 DEF AdsMake
    <2>6. Len(ad) <= 255
      BY <2>3, <2>4
    <2> HIDE DEF ad
    <2>7. Len(ad) \in 0 .. 255
      BY <2>5, <2>6, LengthIsByte, Zenon
    <2>8. Long(ad, Len(ad), S)
      BY <2>5 DEF Long
    <2> QED
      BY <2>1, <2>7, <2>8 DEF ad, ads
  <1> QED
    BY <1>2, <1>3

LEMMA NotLast == \A l \in Nat : \A j \in 1 .. l + 1 : j # l + 1 => j \in 1 .. l
  OBVIOUS

LEMMA ByteIsNat == \A b \in 0 .. 255 : b \in Nat
  OBVIOUS

LEMMA PacketIs ==
    ASSUME NEW reports \in Shapes, NEW S, 0 .. 255 \subseteq S, NEW lf \in [1 .. 184 -> S]
    PROVE  /\ ReportsAre(ReportsOf(reports, lf), reports, lf, S)
           /\ LaidPacket(Packet(reports, lf), FlattenSeq(ReportsOf(reports, lf)), Len(reports), S)
  <1> DEFINE n == Len(reports)   seqs == ReportsOf(reports, lf)   body == FlattenSeq(seqs)
  <1>1. /\ n \in 0 .. 255 /\ DOMAIN reports = 1 .. n
        /\ \A k \in 1 .. n : \E l \in 0 .. 255 : Long(AdData(reports[k].ads, lf), l, S)
    BY ShapeIs, ZenonT(60)
  <1>2. seqs = [k \in 1 .. n |-> Report(reports[k], lf)]
    BY <1>1 DEF ReportsOf
  <1> HIDE DEF n
  <1>3. ASSUME NEW k \in 1 .. n
        PROVE  LaidReport(Report(reports[k], lf), reports[k], AdData(reports[k].ads, lf), S)
    <2>1. PICK l \in 0 .. 255 : Long(AdData(reports[k].ads, lf), l, S)
      BY <1>1
    <2> QED
      BY <2>1, ReportIs, Zenon
  <1>4. \A k \in 1 .. n : Report(reports[k], lf) \in Seq(S)
    BY <1>3 DEF LaidReport, Long
  <1>5. seqs \in [1 .. n -> Seq(S)] /\ \A k \in 1 .. n : seqs[k] = Report(reports[k], lf)
    BY <1>2, <1>4
  <1> HIDE DEF seqs
  <1>6. seqs \in Seq(Seq(S)) /\ Len(seqs) = n
    <2>1. n \in Nat
      BY <1>1, ByteIsNat, Zenon
    <2> QED
      BY <1>5, <2>1, FunctionIsSeq, Zenon
  <1>7. ReportsAre(seqs, reports, lf, S)
    BY <1>3, <1>5, <1>6 DEF ReportsAre, n
  <1>8. body \in Seq(S)
    BY <1>6, FlattenJoins
  <1> DEFINE b3 == (2 + Len(body)) % 256   h == <<4, 62, b3, 13, n>>   p == h \o body
  <1>9. Packet(reports, lf) = p
    BY DEF Packet, ReportsOf, seqs, n
  <1> HIDE DEF body
  <1>10. b3 \in 0 .. 255
    <2>1. Len(body) \in Nat
      BY <1>8, LenProperties, Zenon
    <2> QED
      BY <2>1, RemainderIsByte, Zenon
  <1> HIDE DEF b3
  <1>11. /\ Long(h, 5, S)
         /\ h[1] = 4 /\ h[2] = 62 /\ h[4] = 13 /\ h[5] = n
    <2>1. 4 \in 0 .. 255 /\ 62 \in 0 .. 255 /\ 13 \in 0 .. 255
      OBVIOUS
    <2>2. 4 \in S /\ 62 \in S /\ 13 \in S /\ b3 \in S /\ n \in S
      BY <1>1, <1>10, <2>1, Zenon
    <2>3. Head5(h, 4, 62, b3, 13, n, S)
      BY <2>2, FiveBytes, Zenon
    <2> HIDE DEF h
    <2> QED
      BY <2>3 DEF Head5
  <1> HIDE DEF h
  <1>12. Lengthened(p, h, 5, body, S)
    BY <1>8, <1>11, JoinIs, Zenon
  <1> HIDE DEF p
  <1>13. p[1] = 4 /\ p[2] = 62 /\ p[4] = 13 /\ p[5] = n
    <2>1. \A k \in 1 .. 5 : p[k] = h[k]
      BY <1>12, Zenon DEF Lengthened
    <2> QED
      BY <1>11, <2>1
  <1>14. LaidPacket(p, body, n, S)
    BY <1>12, <1>13 DEF LaidPacket, Lengthened
  <1> QED
    BY <1>7, <1>9, <1>14 DEF body, seqs, n

----------------------------------------------------------------------------
(* Rows by their ids.                                                      *)

\* A finite set of rows, each with an id of its own.
Numbered(S) ==
    /\ IsFiniteSet(S)
    /\ \A r \in S : r.id \in Nat
    /\ \A r, s \in S : r.id = s.id => r = s

UpTo(S, id) == {s \in S : s.id <= id}
Rank(S, r) == Cardinality(UpTo(S, r.id))

LEMMA UpToFinite ==
    ASSUME NEW S, Numbered(S), NEW id
    PROVE  /\ IsFiniteSet(UpTo(S, id)) /\ Cardinality(UpTo(S, id)) \in Nat
           /\ Cardinality(UpTo(S, id)) <= Cardinality(S)
           /\ Cardinality(S) \in Nat
  <1>1. UpTo(S, id) \in SUBSET S /\ IsFiniteSet(S)
    BY DEF UpTo, Numbered
  <1> QED
    BY <1>1, FS_Subset, FS_CardinalityType

LEMMA RankGrows ==
    ASSUME NEW S, Numbered(S), NEW r \in S, NEW s \in S, r.id < s.id
    PROVE  Rank(S, r) < Rank(S, s)
  <1> DEFINE R == UpTo(S, r.id)   T == UpTo(S, s.id)
  <1>1. r.id \in Nat /\ s.id \in Nat /\ \A t \in S : t.id \in Nat
    BY DEF Numbered
  <1>2. R \in SUBSET T
    BY <1>1 DEF UpTo
  <1>3. s \in T /\ s \notin R
    BY <1>1 DEF UpTo
  <1>4. IsFiniteSet(T) /\ Cardinality(R) \in Nat /\ Cardinality(T) \in Nat
    BY UpToFinite
  <1>5. Cardinality(R) <= Cardinality(T) /\ (Cardinality(T) = Cardinality(R) => T = R)
    BY <1>2, <1>4, FS_Subset
  <1> HIDE DEF R, T
  <1>6. Cardinality(R) < Cardinality(T)
    BY <1>3, <1>4, <1>5
  <1> QED
    BY <1>6 DEF Rank, R, T

LEMMA RankBounds ==
    ASSUME NEW S, Numbered(S), NEW r \in S
    PROVE  Rank(S, r) \in 1 .. Cardinality(S)
  <1> DEFINE R == UpTo(S, r.id)
  <1>1. r \in R
    BY DEF UpTo, Numbered
  <1>2. IsFiniteSet(R) /\ Cardinality(R) \in Nat /\ Cardinality(R) <= Cardinality(S) /\ Cardinality(S) \in Nat
    BY UpToFinite
  <1> HIDE DEF R
  <1>3. Cardinality(R) # 0
    BY <1>1, <1>2, FS_EmptySet
  <1> QED
    BY <1>2, <1>3 DEF Rank, R

\* Ids tell rows apart, and so do their places in the order.
LEMMA RankTells ==
    ASSUME NEW S, Numbered(S), NEW r \in S, NEW s \in S, Rank(S, r) = Rank(S, s)
    PROVE  r = s
  <1>1. r.id \in Nat /\ s.id \in Nat
    BY DEF Numbered
  <1>2. Rank(S, r) \in Int
    BY RankBounds
  <1>3. ~(r.id < s.id) /\ ~(s.id < r.id)
    BY <1>2, RankGrows
  <1>4. r.id = s.id
    BY <1>1, <1>3
  <1> QED
    BY <1>4 DEF Numbered

\* Every place is some row's.
LEMMA RankOnto ==
    ASSUME NEW S, Numbered(S), NEW k \in 1 .. Cardinality(S)
    PROVE  \E r \in S : Rank(S, r) = k
  <1> DEFINE n == Cardinality(S)
             f == [r \in S |-> Rank(S, r)]
  <1>1. n \in Nat /\ IsFiniteSet(S)
    BY FS_CardinalityType DEF Numbered
  <1>2. IsFiniteSet(1 .. n) /\ Cardinality(1 .. n) = n
    BY <1>1, FS_Interval
  <1>3. f \in [S -> 1 .. n]
    BY RankBounds
  <1>4. \A r, s \in S : f[r] = f[s] => r = s
    BY RankTells
  <1> HIDE DEF f
  <1>5. f \in Injection(S, 1 .. n)
    BY <1>3, <1>4 DEF Injection, IsInjective
  <1>6. f \in Surjection(S, 1 .. n)
    BY <1>2, <1>5, FS_Injection
  <1>7. \E r \in S : f[r] = k
    BY <1>6 DEF Surjection
  <1> QED
    BY <1>7 DEF f

\* What ById has in a place is the row of that place.
LEMMA ByIdIs ==
    ASSUME NEW S, Numbered(S)
    PROVE  /\ ById(S) \in Seq(S) /\ Len(ById(S)) = Cardinality(S)
           /\ \A k \in 1 .. Cardinality(S) : ById(S)[k] \in S /\ Rank(S, ById(S)[k]) = k
           /\ \A r \in S : ById(S)[Rank(S, r)] = r
  <1> DEFINE n == Cardinality(S)
             at(k) == CHOOSE r \in S : Cardinality({s \in S : s.id <= r.id}) = k
  <1>1. n \in Nat
    BY FS_CardinalityType DEF Numbered
  <1>2. ASSUME NEW k \in 1 .. n PROVE at(k) \in S /\ Rank(S, at(k)) = k
    <2>1. \E r \in S : Rank(S, r) = k
      BY RankOnto
    <2>2. \E r \in S : Cardinality({s \in S : s.id <= r.id}) = k
      BY <2>1, Zenon DEF Rank, UpTo
    <2>3. at(k) \in S /\ Cardinality({s \in S : s.id <= at(k).id}) = k
      BY <2>2, Zenon
    <2> QED
      BY <2>3, Zenon DEF Rank, UpTo
  <1>3. ById(S) = [k \in 1 .. n |-> at(k)]
    BY DEF ById
  <1> HIDE DEF at
  <1>4. ById(S) \in [1 .. n -> S] /\ \A k \in 1 .. n : ById(S)[k] = at(k)
    BY <1>2, <1>3
  <1>5. ASSUME NEW r \in S PROVE ById(S)[Rank(S, r)] = r
    <2>1. Rank(S, r) \in 1 .. n
      BY RankBounds
    <2>2. at(Rank(S, r)) \in S /\ Rank(S, at(Rank(S, r))) = Rank(S, r)
      BY <1>2, <2>1
    <2> QED
      BY <1>4, <2>1, <2>2, RankTells
  <1> HIDE DEF n
  <1>6. ById(S) \in Seq(S) /\ Len(ById(S)) = n
    BY <1>1, <1>4, FunctionIsSeq
  <1> QED
    BY <1>2, <1>4, <1>5, <1>6 DEF n

\* A row with an id above all others comes last.
LEMMA ByIdGrows ==
    ASSUME NEW S, Numbered(S), NEW new, new.id \in Nat, \A r \in S : r.id < new.id
    PROVE  LET T == S \cup {new}
               n == Cardinality(S)
           IN  /\ Numbered(T) /\ Cardinality(T) = n + 1 /\ n \in Nat
               /\ \A k \in 1 .. n : ById(T)[k] = ById(S)[k]
               /\ ById(T)[n + 1] = new
  <1> DEFINE T == S \cup {new}   n == Cardinality(S)
  <1>1. IsFiniteSet(S) /\ \A r \in S : r.id \in Nat
    BY DEF Numbered
  <1>2. new \notin S
    BY <1>1
  <1>3. IsFiniteSet(T) /\ Cardinality(T) = n + 1 /\ n \in Nat
    BY <1>1, <1>2, FS_AddElement, FS_CardinalityType
  <1>4. Numbered(T)
    <2>1. \A r \in T : r.id \in Nat
      BY <1>1
    <2>2. ASSUME NEW r \in T, NEW s \in T, r.id = s.id PROVE r = s
      <3>1. CASE r \in S /\ s \in S
        BY <2>2, <3>1 DEF Numbered
      <3>2. CASE r = new /\ s = new
        BY <3>2
      <3>3. CASE r \in S /\ s = new
        BY <1>1, <2>2, <3>3
      <3>4. CASE r = new /\ s \in S
        BY <1>1, <2>2, <3>4
      <3> QED
        BY <3>1, <3>2, <3>3, <3>4
    <2> QED
      BY <1>3, <2>1, <2>2 DEF Numbered
  <1>5. ASSUME NEW r \in S PROVE Rank(T, r) = Rank(S, r)
    <2>1. UpTo(T, r.id) = UpTo(S, r.id)
      BY <1>1 DEF UpTo
    <2> QED
      BY <2>1 DEF Rank
  <1>6. Rank(T, new) = n + 1
    <2>1. UpTo(T, new.id) = T
      BY <1>1 DEF UpTo
    <2> QED
      BY <1>3, <2>1 DEF Rank
  <1>7. ASSUME NEW k \in 1 .. n PROVE ById(T)[k] = ById(S)[k]
    <2> DEFINE r == ById(S)[k]
    <2>1. r \in S /\ Rank(S, r) = k
      BY ByIdIs
    <2> HIDE DEF r
    <2>2. r \in T /\ Rank(T, r) = k
      BY <1>5, <2>1
    <2>3. ById(T)[Rank(T, r)] = r
      BY <1>4, <2>2, ByIdIs
    <2> QED
      BY <2>2, <2>3 DEF r
  <1>8. ById(T)[n + 1] = new
    <2>1. new \in T
      OBVIOUS
    <2>2. ById(T)[Rank(T, new)] = new
      BY <1>4, <2>1, ByIdIs
    <2> QED
      BY <1>6, <2>2
  <1> QED
    BY <1>3, <1>4, <1>7, <1>8

Newer(V, c) == {r \in V : r.id > c}

\* The rows above an id are those that follow the rows up to it.
LEMMA ByIdTail ==
    ASSUME NEW V, Numbered(V), NEW c \in Nat
    PROVE  LET N == Newer(V, c)
               m == Cardinality(UpTo(V, c))
           IN  /\ Numbered(N) /\ m \in Nat /\ Cardinality(N) \in Nat
               /\ Cardinality(V) = m + Cardinality(N)
               /\ \A k \in 1 .. Cardinality(N) : ById(N)[k] = ById(V)[m + k]
  <1> DEFINE N == Newer(V, c)   O == UpTo(V, c)   m == Cardinality(O)
  <1>1. /\ IsFiniteSet(V) /\ \A r \in V : r.id \in Nat
        /\ \A r, s \in V : r.id = s.id => r = s
    BY DEF Numbered
  <1>2. /\ N \in SUBSET V /\ O \in SUBSET V /\ V = O \cup N /\ O \cap N = {}
        /\ \A r \in V : r \in N <=> r.id > c
    BY <1>1 DEF Newer, UpTo
  <1>3. IsFiniteSet(N) /\ IsFiniteSet(O)
    BY <1>1, <1>2, FS_Subset
  <1>4. m \in Nat /\ Cardinality(N) \in Nat
    BY <1>3, FS_CardinalityType
  <1>5. Numbered(N)
    BY <1>1, <1>2, <1>3 DEF Numbered
  <1>6. Cardinality(V) = m + Cardinality(N)
    <2>1. Cardinality(O \cup N) = Cardinality(O) + Cardinality(N) - Cardinality(O \cap N)
      BY <1>3, FS_Union
    <2>2. Cardinality(O \cap N) = 0
      BY <1>2, FS_EmptySet
    <2> HIDE DEF N, O
    <2> QED
      BY <1>2, <1>4, <2>1, <2>2
  <1>7. ASSUME NEW r \in N PROVE Rank(V, r) = m + Rank(N, r)
    <2> DEFINE A == UpTo(N, r.id)
    <2>1. UpTo(V, r.id) = O \cup A /\ O \cap A = {} /\ A \in SUBSET N
      BY <1>1, <1>2 DEF UpTo, Newer
    <2>2. IsFiniteSet(A)
      BY <1>3, <2>1, FS_Subset
    <2>3. Cardinality(O \cup A) = Cardinality(O) + Cardinality(A) - Cardinality(O \cap A)
      BY <1>3, <2>2, FS_Union
    <2>4. Cardinality(O \cap A) = 0 /\ Cardinality(A) \in Nat
      BY <2>1, <2>2, FS_EmptySet, FS_CardinalityType
    <2>5. Rank(V, r) = Cardinality(O \cup A) /\ Rank(N, r) = Cardinality(A)
      BY <2>1 DEF Rank
    <2> HIDE DEF A, O, N
    <2> QED
      BY <1>4, <2>3, <2>4, <2>5
  <1>8. ASSUME NEW k \in 1 .. Cardinality(N) PROVE ById(N)[k] = ById(V)[m + k]
    <2> DEFINE r == ById(N)[k]
    <2>1. r \in N /\ Rank(N, r) = k
      BY <1>5, ByIdIs
    <2> HIDE DEF r
    <2>2. r \in V /\ Rank(V, r) = m + k
      BY <1>2, <1>7, <2>1
    <2>3. ById(V)[Rank(V, r)] = r
      BY <2>2, ByIdIs
    <2> QED
      BY <2>2, <2>3 DEF r
  <1> QED
    BY <1>4, <1>5, <1>6, <1>8

\* The last one has the highest id.
LEMMA ByIdLast ==
    ASSUME NEW S, Numbered(S), S # {}
    PROVE  Last(ById(S)) \in S /\ \A s \in S : s.id <= Last(ById(S)).id
  <1> DEFINE n == Cardinality(S)   r == ById(S)[n]
  <1>1. IsFiniteSet(S) /\ n \in Nat
    BY FS_CardinalityType DEF Numbered
  <1>2. n # 0
    BY <1>1, FS_EmptySet
  <1>3. n \in 1 .. n
    BY <1>1, <1>2
  <1>4. r \in S /\ Rank(S, r) = n /\ Len(ById(S)) = n
    BY <1>3, ByIdIs
  <1>5. Last(ById(S)) = r
    BY <1>4 DEF Last
  <1> HIDE DEF n, r
  <1>6. UpTo(S, r.id) = S
    <2>1. UpTo(S, r.id) \in SUBSET S
      BY DEF UpTo
    <2> QED
      BY <1>1, <1>4, <2>1, FS_Subset DEF Rank, n
  <1> QED
    BY <1>4, <1>5, <1>6 DEF UpTo

----------------------------------------------------------------------------
(* The invariant, by the parts of the path.                                *)

\* The node: numbers grow within a boot, and boots are counted.
NodeInv ==
    /\ flash \subseteq {"ecdsa", "aes"} /\ key_ids \subseteq flash
    /\ node_pc \in {"off", "ecdsa", "pubkey", "aes", "export", "run"}
    /\ logged \subseteq {"pubkey", "psk"} /\ vk \in {"node", "other"}
    /\ events \in 0 .. MaxEvents /\ sequence_counter \in 0 .. events
    /\ boots \in 0 .. MaxBoots /\ (node_pc # "off" => boots >= 1)
    /\ built \in Seq(Lers) /\ Frames(built) /\ Len(built) <= events
    /\ boot_of \in Seq(1 .. MaxBoots) /\ Len(boot_of) = Len(built)
    /\ \A k \in 1 .. Len(built) :
         /\ boot_of[k] <= boots
         /\ (node_pc # "off" /\ boot_of[k] = boots) => built[k].sequence <= sequence_counter

\* What may stand in a packet that was made of frame f: its bytes, and damaged ones.
Seen(f) == {-1} \cup FrameBytes(f)

\* Packet and parser: the bytes that are not plain are those of the frame in the packet.
PacketInv ==
    /\ ParseInv
    /\ packet.frame \in 0 .. Len(built) /\ damages \in 0 .. MaxDamage
    /\ pkt \in Seq(Seen(packet.frame))
    /\ parse_pc # "idle" => packet.frame > 0
    /\ found # NoFrame =>
         parse_pc = "done" /\ found.mfr_id \in [1 .. 2 -> Seen(packet.frame)] /\ found.payload \in Seq(Seen(packet.frame))

Columns == [frame_type : Numbers, raw_blob : Seq(Numbers)]

\* A verified row holds its frame: the type in one column and all that follows in another.
HoldsFrame(r) ==
    LET f == origin[r.n]
        lf == lima_lf_t(f, built[f])
    IN  f \in 1 .. Len(built) /\ stored[r.n].frame_type = lf[2] /\ stored[r.n].raw_blob = Slice(lf, 2, 184)

\* The table: a row for every reception, under its number.
TrailInv ==
    /\ rows \subseteq [id : Nat, n : Nat, verified : BOOLEAN, acked : BOOLEAN] /\ Numbered(rows)
    /\ stored \in Seq(Columns) /\ origin \in Seq(0 .. Len(built)) /\ Len(origin) = Len(stored)
    /\ sqlite_sequence = Len(stored)
    /\ \A r \in rows : r.id = r.n /\ r.n \in 1 .. Len(stored)
    /\ rows # {} => \E r \in rows : r.id = sqlite_sequence
    /\ \A r \in rows : r.verified => HoldsFrame(r)

\* The operator: with the node's key nothing ended as an error.
ClientInv ==
    /\ client \in [open : BOOLEAN, key : {"node", "other"}, cursor : Nat, shown : Seq(Lers),
                   errors : SUBSET Nat, opens : 0 .. MaxOpens]
    /\ client.cursor <= sqlite_sequence
    /\ client.key = "node" => client.errors = {}

PathInv == NodeInv /\ PacketInv /\ TrailInv /\ ClientInv

----------------------------------------------------------------------------
(* The node keeps its part.                                                *)

\* Sequence numbers fit into the record's 32 bits.
LEMMA SmallerIsWord ==
    ASSUME NEW m \in Word, NEW n \in 0 .. m
    PROVE  n \in Word
  BY SMT DEF Word

LEMMA EventIs ==
    ASSUME NEW evt \in Events
    PROVE  /\ evt.type \in 0 .. 255 /\ evt.timestamp_ms \in Nat /\ evt.timestamp_ms \in Word
           /\ evt.accel_g \in [1 .. 4 -> 0 .. 255] /\ evt.delta_pa \in [1 .. 4 -> 0 .. 255]
  BY SMT, EventAssumption DEF Word

LEMMA BoundsAre ==
    /\ MaxBoots \in Nat /\ MaxEvents \in Nat /\ MaxEvents \in Word /\ MaxReceptions \in Nat
    /\ MaxOpens \in Nat /\ MaxDamage \in Nat
  BY SMT, BoundAssumption DEF Word

LEMMA RecordBuilt ==
    ASSUME NEW evt \in Events, sequence_counter + 1 \in 0 .. MaxEvents
    PROVE  /\ lima_crypto_build_ler(evt) \in Lers
           /\ lima_crypto_build_ler(evt) \in Records
           /\ lima_crypto_build_ler(evt).sequence = sequence_counter + 1
  <1> DEFINE n == sequence_counter + 1
  <1>1. /\ evt.type \in 0 .. 255 /\ evt.timestamp_ms \in Nat /\ evt.timestamp_ms \in Word
        /\ evt.accel_g \in [1 .. 4 -> 0 .. 255] /\ evt.delta_pa \in [1 .. 4 -> 0 .. 255]
    BY EventIs
  <1>3. n \in Word
    BY BoundsAre, SmallerIsWord
  <1>5. NoReading \in [1 .. 4 -> 0 .. 255]
    BY DEF NoReading
  <1> DEFINE a == IF evt.type \in {MOTION_DETECTED, DUAL_BREACH} THEN evt.accel_g ELSE NoReading
             d == IF evt.type = PRESSURE_BREACH THEN evt.delta_pa ELSE NoReading
  <1>6. a \in [1 .. 4 -> 0 .. 255] /\ d \in [1 .. 4 -> 0 .. 255]
    BY <1>1, <1>5
  <1> DEFINE ler == [node_id |-> NodeMac, event_type |-> evt.type, sequence |-> n,
                     timestamp_ms |-> evt.timestamp_ms, accel_g |-> a, delta_pa |-> d]
  <1>7. lima_crypto_build_ler(evt) = ler
    BY DEF lima_crypto_build_ler
  <1>8. n \in 0 .. MaxEvents
    OBVIOUS
  <1> HIDE DEF a, d, n
  <1>9. ler \in Lers
    BY <1>1, <1>6, <1>8 DEF Lers
  <1>10. ler \in Records
    BY <1>1, <1>3, <1>6, NodeMacAssumption DEF Records, Reading
  <1>11. ler.sequence = n
    OBVIOUS
  <1> HIDE DEF ler
  <1> QED
    BY <1>7, <1>9, <1>10, <1>11 DEF n

LEMMA NodeStays ==
    ASSUME NodeInv, UNCHANGED node, vk' \in {"node", "other"}
    PROVE  NodeInv'
  BY DEF NodeInv, node

\* What the node has built it goes on from.
Extended(s, t) == Len(s) <= Len(t) /\ \A k \in 1 .. Len(s) : t[k] = s[k]

Elsewhere == <<vk, radio, parsevars, stored, origin, store, client>>

Signing(ler) ==
    /\ key_ids = {"ecdsa", "aes"}
    /\ built' = Append(built, ler) /\ boot_of' = Append(boot_of, boots)
    /\ ler.sequence = sequence_counter + 1 /\ node_pc = "run"

LEMMA BuiltIs ==
    ASSUME NodeInv
    PROVE  /\ Len(built) \in Nat /\ DOMAIN built = 1 .. Len(built)
           /\ \A k \in 1 .. Len(built) :
                boot_of[k] \in 1 .. MaxBoots /\ built[k] \in Lers /\ built[k].sequence \in Nat
  <1>1. /\ built \in Seq(Lers) /\ boot_of \in Seq(1 .. MaxBoots) /\ Len(boot_of) = Len(built)
        /\ Len(built) \in Nat /\ DOMAIN built = 1 .. Len(built)
    BY LenProperties DEF NodeInv
  <1>2. \A k \in 1 .. Len(built) : boot_of[k] \in 1 .. MaxBoots /\ built[k] \in Lers
    BY <1>1, ElementOfSeq
  <1>3. \A ler \in Lers : ler.sequence \in Nat
    BY DEF Lers
  <1> QED
    BY <1>1, <1>2, <1>3

LEMMA NodeNext ==
    ASSUME NodeInv, node_step
    PROVE  /\ NodeInv' /\ UNCHANGED Elsewhere /\ Extended(built, built')
           /\ UNCHANGED <<built, boot_of>> \/ \E ler : Signing(ler)
  <1> USE DEF Elsewhere
  <1>0. built \in Seq(Lers) /\ Extended(built, built)
    BY DEF NodeInv, Extended
  <1>1. CASE power_on
    <2>1. boots' \in 0 .. MaxBoots /\ boots' = boots + 1 /\ boots \in Nat
      BY <1>1, BoundsAre DEF power_on, NodeInv
    <2>2. \A k \in 1 .. Len(built) : boot_of[k] <= boots' /\ boot_of[k] # boots'
      BY <2>1, BuiltIs DEF NodeInv
    <2> QED
      BY <1>0, <1>1, <2>1, <2>2 DEF power_on, NodeInv
  <1>2. CASE power_loss
    BY <1>0, <1>2 DEF power_loss, NodeInv
  <1>3. CASE init_fails
    BY <1>0, <1>3 DEF init_fails, Goto, NodeInv
  <1>4. CASE provision_ecdsa_key
    BY <1>0, <1>4 DEF provision_ecdsa_key, Goto, NodeInv
  <1>5. CASE log_public_key
    BY <1>0, <1>5 DEF log_public_key, Goto, NodeInv
  <1>6. CASE provision_aes_key
    BY <1>0, <1>6 DEF provision_aes_key, Goto, NodeInv
  <1>7. CASE log_psk
    BY <1>0, <1>7 DEF log_psk, Goto, NodeInv
  <1>8. CASE sign_event
    <2>1. /\ events' \in 0 .. MaxEvents /\ events' = events + 1
          /\ sequence_counter' = sequence_counter + 1 /\ sequence_counter' \in 0 .. events'
          /\ sequence_counter + 1 \in 0 .. MaxEvents /\ sequence_counter \in Nat /\ events \in Nat
      BY <1>8, BoundsAre DEF sign_event, NodeInv
    <2>2. /\ UNCHANGED <<flash, node_pc, key_ids, boots, logged, vk, radio, parsevars, stored, origin,
                         store, client>>
          /\ node_pc = "run"
      BY <1>8 DEF sign_event
    <2>3. CASE UNCHANGED <<built, boot_of>>
      <3>1. \A k \in 1 .. Len(built) :
              (node_pc # "off" /\ boot_of[k] = boots) => built[k].sequence <= sequence_counter'
        BY <2>1, BuiltIs DEF NodeInv
      <3>2. Len(built) <= events'
        BY <2>1, BuiltIs DEF NodeInv
      <3> QED
        BY <1>0, <2>1, <2>2, <2>3, <3>1, <3>2 DEF NodeInv
    <2>4. CASE ~UNCHANGED <<built, boot_of>>
      <3>1. PICK evt \in Events : /\ key_ids = {"ecdsa", "aes"}
                                  /\ built' = Append(built, lima_crypto_build_ler(evt))
                                  /\ boot_of' = Append(boot_of, boots)
        BY <1>8, <2>4 DEF sign_event
      <3> DEFINE ler == lima_crypto_build_ler(evt)
      <3>2. ler \in Lers /\ ler \in Records /\ ler.sequence = sequence_counter + 1
        BY <2>1, RecordBuilt
      <3> HIDE DEF ler
      <3>3. /\ built \in Seq(Lers) /\ built \in Seq(Records) /\ boot_of \in Seq(1 .. MaxBoots)
            /\ Len(boot_of) = Len(built) /\ Len(built) <= events
            /\ boots \in 1 .. MaxBoots
        BY <2>2 DEF NodeInv, Frames
      <3>4. built' \in Seq(Lers) /\ Frames(built)'
        BY <3>1, <3>2, <3>3 DEF ler, Frames
      <3>5. /\ Len(built') = Len(built) + 1 /\ built'[Len(built) + 1] = ler
            /\ \A k \in 1 .. Len(built) : built'[k] = built[k]
        BY <3>1, <3>3 DEF ler
      <3>6. /\ boot_of' \in Seq(1 .. MaxBoots)
            /\ Len(boot_of') = Len(built) + 1 /\ boot_of'[Len(built) + 1] = boots
            /\ \A k \in 1 .. Len(built) : boot_of'[k] = boot_of[k]
        BY <3>1, <3>3
      <3>7. Len(built) \in Nat /\ \A k \in 1 .. Len(built) : boot_of[k] \in 1 .. MaxBoots
        BY BuiltIs
      <3>8. \A k \in 1 .. Len(built') :
              /\ boot_of'[k] <= boots'
              /\ (node_pc' # "off" /\ boot_of'[k] = boots') => built'[k].sequence <= sequence_counter'
        <4> SUFFICES ASSUME NEW k \in 1 .. Len(built')
                     PROVE  /\ boot_of'[k] <= boots'
                            /\ boot_of'[k] = boots' => built'[k].sequence <= sequence_counter'
          OBVIOUS
        <4>1. CASE k = Len(built) + 1
          BY <2>1, <2>2, <3>2, <3>3, <3>5, <3>6, <4>1
        <4>2. CASE k \in 1 .. Len(built)
          <5>1. /\ boot_of[k] <= boots
                /\ (node_pc # "off" /\ boot_of[k] = boots) => built[k].sequence <= sequence_counter
            BY <4>2 DEF NodeInv
          <5>2. built[k].sequence \in Nat
            BY <4>2, BuiltIs
          <5> QED
            BY <2>1, <2>2, <3>5, <3>6, <4>2, <5>1, <5>2
        <4>3. k = Len(built) + 1 \/ k \in 1 .. Len(built)
          BY <3>5, <3>7
        <4> QED
          BY <4>1, <4>2, <4>3
      <3>9. NodeInv'
        <4>1. Len(built') <= events'
          BY <2>1, <3>3, <3>5, <3>7
        <4>2. Len(boot_of') = Len(built')
          BY <3>5, <3>6
        <4> QED
          BY <2>1, <2>2, <3>4, <3>6, <3>8, <4>1, <4>2 DEF NodeInv
      <3>10. Extended(built, built')
        BY <3>5, <3>7 DEF Extended
      <3>11. Signing(ler)
        BY <2>2, <3>1, <3>2 DEF Signing, ler
      <3> QED
        BY <2>2, <3>9, <3>10, <3>11
    <2> QED
      BY <2>3, <2>4
  <1> QED
    BY <1>1, <1>2, <1>3, <1>4, <1>5, <1>6, <1>7, <1>8 DEF node_step

----------------------------------------------------------------------------
(* Packet and parser keep theirs.                                          *)

LEMMA SeenIs ==
    ASSUME NEW f \in Nat
    PROVE  /\ 0 .. 255 \subseteq FrameBytes(f) /\ FrameBytes(f) \subseteq Seen(f) /\ Seen(f) \subseteq Int
           /\ f <= MaxEvents => Seen(f) \subseteq Numbers
  <1>1. 0 .. 255 \subseteq FrameBytes(f) /\ FrameBytes(f) \subseteq Seen(f)
    BY DEF FrameBytes, Seen
  <1>2. \A k \in 0 .. 255 : Secret(f, k) \in Int /\ Secret(f, k) >= 0
    BY DEF Secret
  <1>3. Seen(f) \subseteq Int
    BY <1>2 DEF FrameBytes, Seen
  <1>4. ASSUME f <= MaxEvents PROVE Seen(f) \subseteq Numbers
    <2>1. MaxEvents \in Nat
      BY BoundsAre
    <2>2. \A k \in 0 .. 255 : Secret(f, k) <= Secret(MaxEvents + 1, 0)
      BY <1>4, <2>1 DEF Secret
    <2>3. Secret(MaxEvents + 1, 0) \in Int /\ 255 <= Secret(MaxEvents + 1, 0)
      BY <2>1 DEF Secret
    <2> QED
      BY <1>2, <2>2, <2>3 DEF FrameBytes, Seen, Numbers
  <1> QED
    BY <1>1, <1>3, <1>4

LEMMA SeqWidens ==
    ASSUME NEW S, NEW T, S \subseteq T, NEW s \in Seq(S)
    PROVE  s \in Seq(T)
  OBVIOUS

LEMMA PacketStays ==
    ASSUME PacketInv, UNCHANGED <<radio, parsevars>>, Len(built) \in Nat, Len(built') \in Nat,
           Len(built) <= Len(built')
    PROVE  PacketInv'
  <1>1. ParseInv'
    BY DEF PacketInv, ParseInv, parsevars
  <1>2. packet'.frame \in 0 .. Len(built')
    BY DEF PacketInv, radio
  <1> QED
    BY <1>1, <1>2 DEF PacketInv, radio, parsevars

\* Whole packets hold bytes of their frame, and spoilt ones an unknown byte besides.
LEMMA PacketHolds ==
    ASSUME NodeInv, NEW f \in 1 .. Len(built), NEW reports \in Shapes
    PROVE  Packet(reports, lima_lf_t(f, built[f])) \in Seq(Seen(f))
  <1> DEFINE lf == lima_lf_t(f, built[f])   S == FrameBytes(f)
  <1>1. f \in Nat /\ lf \in [1 .. 184 -> S]
    BY BuiltIs, FrameOfBuilt DEF NodeInv
  <1>2. 0 .. 255 \subseteq S /\ S \subseteq Seen(f)
    BY <1>1, SeenIs
  <1> HIDE DEF lf, S
  <1>3. LaidPacket(Packet(reports, lf), FlattenSeq(ReportsOf(reports, lf)), Len(reports), S)
    BY <1>1, <1>2, PacketIs
  <1>4. Packet(reports, lf) \in Seq(S)
    BY <1>3 DEF LaidPacket, Long
  <1> QED
    BY <1>2, <1>4, SeqWidens, Zenon DEF lf

LEMMA SpoiltHolds ==
    ASSUME NEW f \in Nat, NEW p \in Seq(Seen(f))
    PROVE  /\ \A cut \in Nat : cut < Len(p) => SubSeq(p, 1, cut) \in Seq(Seen(f))
           /\ \A at \in DOMAIN p : [p EXCEPT ![at] = -1] \in Seq(Seen(f))
  <1>1. -1 \in Seen(f)
    BY DEF Seen
  <1> DEFINE S == Seen(f)
  <1> HIDE DEF S
  <1>2. p \in Seq(S) /\ -1 \in S
    BY <1>1 DEF S
  <1>3. \A cut \in Nat : cut < Len(p) => SubSeq(p, 1, cut) \in Seq(S)
    BY <1>2
  <1>4. \A at \in DOMAIN p : [p EXCEPT ![at] = -1] \in Seq(S)
    BY <1>2, ExceptSeq
  <1> QED
    BY <1>3, <1>4 DEF S

LEMMA PacketReceived ==
    ASSUME PacketInv, NEW f \in 1 .. Len(built), Len(built) \in Nat,
           NEW p \in Seq(Seen(f)), NEW v \in 0 .. 255, parse(p, v),
           packet'.frame = f, damages' \in 0 .. MaxDamage, UNCHANGED built
    PROVE  PacketInv'
  <1>1. f \in Nat /\ packet'.frame \in 0 .. Len(built')
    BY DEF PacketInv
  <1>2. p \in Seq(Int)
    BY <1>1, SeenIs, SeqWidens, Zenon
  <1>3. ParseInv'
    <2>1. ParseNext
      BY <1>2, Zenon DEF ParseNext
    <2> QED
      BY <2>1, ParseInvNext DEF PacketInv
  <1>4. pkt' = p /\ found' = NoFrame
    BY DEF parse
  <1> QED
    BY <1>1, <1>3, <1>4 DEF PacketInv

LEMMA PacketNextParse ==
    ASSUME PacketInv, parse_step, UNCHANGED <<radio, built>>
    PROVE  PacketInv'
  <1> DEFINE S == Seen(packet.frame)
  <1>1. ParseInv'
    <2>1. ParseNext
      BY Zenon DEF ParseNext
    <2> QED
      BY <2>1, ParseInvNext DEF PacketInv
  <1>2. parse_pc # "done" /\ parse_pc # "idle"
    BY DEF parse_step, no_more_reports, report_header_cut, report_data_cut, other_node, our_node,
           ad_ends, next_ad, manufacturer_data, InHeader, WholeAd, InAd
  <1>3. found = NoFrame /\ packet.frame > 0
    BY <1>2 DEF PacketInv
  <1>4. pkt' = pkt
    BY DEF parse_step, no_more_reports, report_header_cut, report_data_cut, other_node, our_node,
           ad_ends, next_ad, manufacturer_data, Done
  <1>5. found' # NoFrame =>
          parse_pc' = "done" /\ found'.mfr_id \in [1 .. 2 -> S] /\ found'.payload \in Seq(S)
    <2>1. CASE ~manufacturer_data
      <3>1. found' = NoFrame
        BY <1>3, <2>1 DEF parse_step, no_more_reports, report_header_cut, report_data_cut, other_node,
                          our_node, ad_ends, next_ad, Done
      <3> QED
        BY <3>1
    <2>2. CASE manufacturer_data
      <3> DEFINE mfr == SubSeq(pkt, i + 3, i + 4)   payload == SubSeq(pkt, i + 5, ad_end)
      <3>1. found' # NoFrame => found' = [mfr_id |-> mfr, payload |-> payload]
        BY <2>2 DEF manufacturer_data, Done
      <3>2. pkt \in Seq(S) /\ i \in Nat /\ ad_data.to <= Len(pkt) /\ ad_length \in 0 .. 255
            /\ ad_data.to \in Nat
        BY <2>2, LengthsAreBytes DEF PacketInv, ParseInv, manufacturer_data, WholeAd, InAd
      <3>3. ad_end = i + 1 + ad_length /\ ad_end <= Len(pkt) /\ ad_length >= 3 /\ ad_end \in Nat
        BY <2>2, <3>2 DEF manufacturer_data, WholeAd, Manufacturer, ad_end
      <3> HIDE DEF S
      <3>4. mfr \in [1 .. 2 -> S]
        <4>1. i + 3 \in Nat /\ i + 4 \in Nat /\ i + 3 >= 1 /\ i + 4 <= Len(pkt)
          BY <3>2, <3>3
        <4>2. mfr \in Seq(S) /\ Len(mfr) = 2
          BY <3>2, <4>1
        <4> HIDE DEF mfr
        <4> QED
          BY <4>2
      <3>5. payload \in Seq(S)
        <4>1. i + 5 \in Nat /\ i + 5 >= 1
          BY <3>2
        <4> QED
          BY <3>2, <3>3, <4>1
      <3>6. parse_pc' = "done"
        BY <2>2 DEF manufacturer_data, Done
      <3> HIDE DEF mfr, payload
      <3> QED
        BY <3>1, <3>4, <3>5, <3>6
    <2> QED
      BY <2>1, <2>2
  <1> QED
    BY <1>1, <1>3, <1>4, <1>5 DEF PacketInv, radio

LEMMA PacketTaken ==
    ASSUME PacketInv, taken, packet' = NoPacket, Len(built) \in Nat, UNCHANGED <<damages, built>>
    PROVE  PacketInv'
  <1>1. ParseInv'
    <2>1. ParseNext
      BY Zenon DEF ParseNext
    <2> QED
      BY <2>1, ParseInvNext DEF PacketInv
  <1>2. pkt' = <<>> /\ pkt' \in Seq(Seen(packet'.frame)) /\ parse_pc' = "idle" /\ found' = NoFrame
    BY DEF taken
  <1>3. packet'.frame \in 0 .. Len(built')
    BY DEF NoPacket
  <1> QED
    BY <1>1, <1>2, <1>3 DEF PacketInv

----------------------------------------------------------------------------
(* What the gateway records.                                               *)

\* A nonce tells its frame from all others.
LEMMA SecretTells ==
    \A a, b \in Nat : \A k \in 0 .. 255 : Secret(a, 4) = Secret(b, k) => a = b
  BY DEF Secret

\* Of what arrives, only the frame that is in the packet verifies, whichever the node built
\* that was: the frame's nonce is in its bytes.
LEMMA VerifiedArrived ==
    ASSUME NodeInv, PacketInv, found # NoFrame, verify_outer_sig(built, found.mfr_id, found.payload, vk)
    PROVE  LET lf == lima_lf_t(packet.frame, built[packet.frame])
           IN  /\ Origin(found) = packet.frame /\ packet.frame \in 1 .. Len(built)
               /\ found.mfr_id[2] = lf[2] /\ found.payload = Slice(lf, 2, 184)
  <1> DEFINE S == Seen(packet.frame)   mfr == found.mfr_id   payload == found.payload   frame == mfr \o payload
             from == {f \in DOMAIN built : lima_lf_t(f, built[f]) = mfr \o payload}
             g == Origin(found)
  <1>1. mfr \in [1 .. 2 -> S] /\ payload \in Seq(S) /\ packet.frame \in Nat /\ parse_pc = "done" /\ Len(built) \in Nat
    BY BuiltIs DEF PacketInv
  <1>2. Frames(built) /\ DOMAIN built = 1 .. Len(built) /\ packet.frame <= Len(built)
    BY BuiltIs DEF NodeInv, PacketInv
  <1>3. S \subseteq Int
    BY <1>1, SeenIs
  <1> HIDE DEF S
  <1>4. \E f \in DOMAIN built : mfr \o payload = lima_lf_t(f, built[f])
    BY <1>1, <1>2, VerifiedIsFrame
  <1>5. g \in from
    <2>1. from # {}
      BY <1>4
    <2>2. g = CHOOSE f \in from : TRUE
      BY <2>1 DEF Origin
    <2> QED
      BY <2>1, <2>2
  <1>6. g \in DOMAIN built /\ lima_lf_t(g, built[g]) = frame
    BY <1>5
  <1>6a. mfr \in Seq(S) /\ Len(mfr) = 2
    <2> HIDE DEF mfr
    <2>1. 2 \in Nat
      OBVIOUS
    <2> QED
      BY <1>1, <2>1, FunctionIsSeq, Zenon
  <1> HIDE DEF g, from, mfr, payload
  <1>7. /\ g \in Nat /\ g >= 1
        /\ lima_lf_t(g, built[g]) \in [1 .. 184 -> Int]
        /\ lima_lf_t(g, built[g])[5] = Secret(g, 4)
    <2>1. built[g].event_type \in 0 .. 255
      BY <1>2, <1>6, FrameOfBuilt
    <2>2. g \in Nat /\ g >= 1
      BY <1>1, <1>2, <1>6
    <2>3. lima_lf_t(g, built[g]) \in [1 .. 184 -> Int]
      BY <1>2, <1>6, FrameOfNumbers
    <2>4. lima_lf_t(g, built[g])[5] = Secret(g, 4)
      BY <2>1, <2>2, NonceIsOwn
    <2> QED
      BY <2>2, <2>3, <2>4
  <1>8. frame \in Seq(S) /\ 5 \in 1 .. Len(frame)
    <2>1. frame \in Seq(S)
      BY <1>1, <1>6a
    <2>2. Len(frame) = 184
      <3>1. frame \in [1 .. 184 -> Int] /\ 184 \in Nat
        BY <1>6, <1>7, ZenonT(60)
      <3> HIDE DEF frame
      <3> QED
        BY <3>1, FunctionIsSeq
    <2> HIDE DEF frame
    <2> QED
      BY <2>1, <2>2
  <1>9. Secret(g, 4) \in S
    <2>1. frame[5] \in S
      BY <1>8, ElementOfSeq, Zenon
    <2> QED
      BY <1>6, <1>7, <2>1
  <1>10. g = packet.frame
    <2>1. PICK k \in 0 .. 255 : Secret(g, 4) = Secret(packet.frame, k)
      <3>1. Secret(g, 4) > 255
        BY <1>7 DEF Secret
      <3> QED
        BY <1>9, <3>1 DEF S, Seen, FrameBytes
    <2> QED
      BY <1>1, <1>7, <2>1, SecretTells, Zenon
  <1> DEFINE lf == lima_lf_t(packet.frame, built[packet.frame])
  <1>11. HandedOn(mfr, payload, lf) /\ lf \in [1 .. 184 -> Int]
    <2>1. mfr \in Seq(Int) /\ payload \in Seq(Int)
      BY <1>1, <1>3, <1>6a, SeqWidens, Zenon
    <2> QED
      BY <1>6, <1>6a, <1>7, <1>10, <2>1 DEF HandedOn
  <1> HIDE DEF lf
  <1>12. PartsOf(mfr, payload, lf)
    BY <1>11, HandedOnIs, Zenon
  <1>13. mfr[2] = lf[2] /\ payload = Slice(lf, 2, 184)
    BY <1>12 DEF PartsOf, Cut
  <1> QED
    BY <1>1, <1>2, <1>6, <1>10, <1>13 DEF lf, g, mfr, payload

LEMMA OriginIs ==
    ASSUME NodeInv, NEW frame
    PROVE  Origin(frame) \in 0 .. Len(built)
  <1> DEFINE from == {f \in DOMAIN built : lima_lf_t(f, built[f]) = frame.mfr_id \o frame.payload}
  <1>1. from \subseteq 1 .. Len(built) /\ Len(built) \in Nat
    BY BuiltIs
  <1>2. Origin(frame) = IF from = {} THEN 0 ELSE CHOOSE f \in from : TRUE
    BY DEF Origin
  <1> HIDE DEF from
  <1>3. CASE from = {}
    BY <1>1, <1>2, <1>3
  <1>4. CASE from # {}
    <2>1. (CHOOSE f \in from : TRUE) \in from
      BY <1>4, Zenon
    <2>2. Origin(frame) \in from
      BY <1>2, <1>4, <2>1
    <2>3. \A m \in Nat : 1 .. m \subseteq 0 .. m
      OBVIOUS
    <2> QED
      BY <1>1, <2>2, <2>3, Zenon
  <1> QED
    BY <1>3, <1>4

\* What the table leaves out of a reception.
Reception(frame) == [frame_type |-> frame.mfr_id[2], raw_blob |-> frame.payload]

LEMMA ReceptionIs ==
    ASSUME NodeInv, PacketInv, found # NoFrame
    PROVE  Reception(found) \in Columns
  <1>1. /\ found.mfr_id \in [1 .. 2 -> Seen(packet.frame)] /\ found.payload \in Seq(Seen(packet.frame))
        /\ packet.frame \in Nat /\ packet.frame <= MaxEvents
    BY BuiltIs, BoundsAre DEF NodeInv, PacketInv
  <1>2. Seen(packet.frame) \subseteq Numbers
    BY <1>1, SeenIs
  <1>3. found.mfr_id[2] \in Numbers
    BY <1>1, <1>2
  <1>4. found.payload \in Seq(Numbers)
    BY <1>1, <1>2, SeqWidens
  <1> QED
    BY <1>3, <1>4 DEF Reception, Columns

LEMMA TrailStays ==
    ASSUME TrailInv, NodeInv, UNCHANGED <<stored, origin, store>>,
           Extended(built, built'), Len(built') \in Nat
    PROVE  TrailInv'
  <1>1. Len(built) \in Nat /\ Len(built) <= Len(built')
    BY BuiltIs DEF Extended
  <1>2. origin' \in Seq(0 .. Len(built'))
    <2>1. 0 .. Len(built) \subseteq 0 .. Len(built')
      BY <1>1
    <2> QED
      BY <2>1, SeqWidens DEF TrailInv
  <1>3. ASSUME NEW r \in rows, r.verified PROVE HoldsFrame(r)'
    <2> DEFINE f == origin[r.n]
    <2>1. f \in 1 .. Len(built)
      BY <1>3 DEF TrailInv, HoldsFrame
    <2>2. f \in 1 .. Len(built) /\ f \in 1 .. Len(built')
      BY <1>1, <2>1
    <2>3. built'[f] = built[f]
      BY <2>2 DEF Extended
    <2> QED
      BY <1>3, <2>2, <2>3 DEF TrailInv, HoldsFrame
  <1> QED
    BY <1>2, <1>3 DEF TrailInv, store

NewRow(verified) ==
    [id |-> sqlite_sequence + 1, n |-> Len(stored) + 1, verified |-> verified, acked |-> FALSE]

LEMMA Inserted ==
    ASSUME TrailInv, record
    PROVE  \E v \in BOOLEAN :
             /\ v = verify_outer_sig(built, found.mfr_id, found.payload, vk)
             /\ rows' = rows \cup {NewRow(v)}
             /\ sqlite_sequence' = sqlite_sequence + 1 /\ sqlite_sequence = Len(stored)
             /\ Len(stored) \in Nat /\ found # NoFrame
             /\ stored' = Append(stored, Reception(found)) /\ origin' = Append(origin, Origin(found))
             /\ packet' = NoPacket /\ UNCHANGED <<node, vk, damages, client>>
  <1> DEFINE v == verify_outer_sig(built, found.mfr_id, found.payload, vk)
  <1>1. v \in BOOLEAN
    BY DEF verify_outer_sig, Verifies
  <1>2. Len(stored) \in Nat /\ sqlite_sequence = Len(stored)
    BY LenProperties DEF TrailInv
  <1> HIDE DEF v
  <1>3. db_insert(Len(stored) + 1, v)
    BY DEF record, v
  <1>4. rows' = rows \cup {NewRow(v)} /\ sqlite_sequence' = sqlite_sequence + 1
    BY <1>2, <1>3 DEF db_insert, insert_id, NewRow
  <1>5. /\ found # NoFrame
        /\ stored' = Append(stored, Reception(found)) /\ origin' = Append(origin, Origin(found))
        /\ packet' = NoPacket /\ UNCHANGED <<node, vk, damages, client>>
    BY DEF record, Reception
  <1> QED
    BY <1>1, <1>2, <1>4, <1>5 DEF v

LEMMA TrailRecords ==
    ASSUME NodeInv, PacketInv, TrailInv, record
    PROVE  TrailInv'
  <1> DEFINE n == Len(stored)
  <1>1. PICK v \in BOOLEAN :
             /\ v = verify_outer_sig(built, found.mfr_id, found.payload, vk)
             /\ rows' = rows \cup {NewRow(v)}
             /\ sqlite_sequence' = sqlite_sequence + 1 /\ sqlite_sequence = n
             /\ n \in Nat /\ found # NoFrame
             /\ stored' = Append(stored, Reception(found)) /\ origin' = Append(origin, Origin(found))
             /\ packet' = NoPacket /\ UNCHANGED <<node, vk, damages, client>>
    BY Inserted
  <1> DEFINE new == NewRow(v)
  <1>2. /\ new \in [id : Nat, n : Nat, verified : BOOLEAN, acked : BOOLEAN]
        /\ new.id = n + 1 /\ new.n = n + 1 /\ new.verified = v
    BY <1>1 DEF NewRow
  <1>3. UNCHANGED built /\ Len(built) \in Nat
    BY <1>1, BuiltIs DEF node
  <1>4. /\ stored \in Seq(Columns) /\ origin \in Seq(0 .. Len(built)) /\ Len(origin) = n
        /\ Reception(found) \in Columns /\ Origin(found) \in 0 .. Len(built)
    BY <1>1, ReceptionIs, OriginIs DEF TrailInv
  <1>5. /\ stored' \in Seq(Columns) /\ Len(stored') = n + 1
        /\ stored'[n + 1] = Reception(found)
        /\ \A k \in 1 .. n : stored'[k] = stored[k]
    BY <1>1, <1>4, AppendProperties
  <1>6. /\ origin' \in Seq(0 .. Len(built)) /\ Len(origin') = n + 1
        /\ origin'[n + 1] = Origin(found)
        /\ \A k \in 1 .. n : origin'[k] = origin[k]
    BY <1>1, <1>4, AppendProperties
  <1>7. /\ rows \subseteq [id : Nat, n : Nat, verified : BOOLEAN, acked : BOOLEAN] /\ Numbered(rows)
        /\ \A r \in rows : r.id = r.n /\ r.n \in 1 .. n
        /\ \A r \in rows : r.verified => HoldsFrame(r)
    BY DEF TrailInv
  <1> HIDE DEF new
  <1>8. Numbered(rows')
    <2>1. \A r \in rows : r.id < new.id
      BY <1>1, <1>2, <1>7
    <2>2. new.id \in Nat
      BY <1>1, <1>2
    <2> QED
      BY <1>1, <1>7, <2>1, <2>2, ByIdGrows DEF new
  <1>9. ASSUME NEW r \in rows' PROVE r.id = r.n /\ r.n \in 1 .. n + 1
    BY <1>1, <1>2, <1>7, <1>9 DEF new
  <1>10. ASSUME NEW r \in rows', r.verified PROVE HoldsFrame(r)'
    <2>1. CASE r \in rows
      <3>1. r.n \in 1 .. n /\ HoldsFrame(r)
        BY <1>7, <1>10, <2>1
      <3> QED
        BY <1>3, <1>5, <1>6, <3>1 DEF HoldsFrame
    <2>2. CASE r = new
      <3> DEFINE lf == lima_lf_t(packet.frame, built[packet.frame])
      <3>1. v
        BY <1>2, <1>10, <2>2
      <3>2. /\ Origin(found) = packet.frame /\ packet.frame \in 1 .. Len(built)
            /\ found.mfr_id[2] = lf[2] /\ found.payload = Slice(lf, 2, 184)
        BY <1>1, <3>1, VerifiedArrived
      <3>3. origin'[r.n] = packet.frame /\ packet.frame \in 1 .. Len(built') /\ built' = built
        BY <1>2, <1>3, <1>6, <2>2, <3>2
      <3>4. stored'[r.n].frame_type = lf[2] /\ stored'[r.n].raw_blob = Slice(lf, 2, 184)
        BY <1>2, <1>5, <2>2, <3>2 DEF Reception
      <3> QED
        BY <3>3, <3>4 DEF HoldsFrame
    <2> QED
      BY <1>1, <1>10, <2>1, <2>2 DEF new
  <1>11. rows' \subseteq [id : Nat, n : Nat, verified : BOOLEAN, acked : BOOLEAN]
    BY <1>1, <1>2, <1>7 DEF new
  <1>12. \E r \in rows' : r.id = sqlite_sequence'
    <2>1. new \in rows'
      BY <1>1 DEF new
    <2> QED
      BY <1>1, <1>2, <2>1
  <1>13. sqlite_sequence' = Len(stored')
    BY <1>1, <1>5
  <1> QED
    BY <1>3, <1>5, <1>6, <1>8, <1>9, <1>10, <1>11, <1>12, <1>13 DEF TrailInv

----------------------------------------------------------------------------
(* What the operator sees.                                                 *)

LEMMA LastRowid ==
    ASSUME TrailInv
    PROVE  /\ last_rowid \in Nat /\ last_rowid <= sqlite_sequence /\ sqlite_sequence \in Nat
           /\ \A r \in rows : r.id <= last_rowid /\ r.id \in Nat /\ r.id >= 1
  <1>1. sqlite_sequence = Len(stored) /\ Len(stored) \in Nat
    BY LenProperties DEF TrailInv
  <1>2. \A r \in rows : r.id \in 1 .. sqlite_sequence
    BY <1>1 DEF TrailInv
  <1>3. CASE rows = {}
    BY <1>1, <1>3 DEF last_rowid
  <1>4. CASE rows # {}
    <2>1. sqlite_sequence \in Ids /\ \A j \in Ids : j \in 1 .. sqlite_sequence
      BY <1>2, <1>4 DEF TrailInv, Ids
    <2>2. \E m \in Ids : \A j \in Ids : j <= m
      BY <1>1, <2>1
    <2>3. last_rowid \in Ids /\ \A j \in Ids : j <= last_rowid
      BY <1>4, <2>2, Zenon DEF last_rowid
    <2> HIDE DEF last_rowid
    <2>4. \A r \in rows : r.id \in Ids
      BY DEF Ids
    <2> QED
      BY <1>1, <1>2, <2>1, <2>3, <2>4
  <1> QED
    BY <1>3, <1>4

LEMMA ClientStays ==
    ASSUME ClientInv, UNCHANGED client, sqlite_sequence \in Nat, sqlite_sequence' \in Nat,
           sqlite_sequence <= sqlite_sequence'
    PROVE  ClientInv'
  BY DEF ClientInv

LEMMA ClientOpens ==
    ASSUME ClientInv, TrailInv, open
    PROVE  /\ ClientInv' /\ client'.shown = <<>>
           /\ client'.cursor \in {0, last_rowid}
  <1>1. PICK typed \in {"other", "malformed", "captured"}, start \in {0, last_rowid} :
           \E key \in parse_psk(typed) :
             client' = [Closed EXCEPT !.open = TRUE, !.key = key, !.cursor = start,
                                      !.opens = client.opens + 1]
    BY Zenon DEF open
  <1>2. PICK key \in parse_psk(typed) :
             client' = [Closed EXCEPT !.open = TRUE, !.key = key, !.cursor = start,
                                      !.opens = client.opens + 1]
    BY <1>1
  <1>3. key \in {"node", "other"}
    BY <1>2 DEF parse_psk
  <1>4. client' = [open |-> TRUE, key |-> key, cursor |-> start, shown |-> <<>>, errors |-> {},
                   opens |-> client.opens + 1]
    BY <1>2 DEF Closed
  <1>5. client.opens + 1 \in 0 .. MaxOpens
    BY BoundsAre DEF open, ClientInv
  <1>6. start \in Nat /\ start <= sqlite_sequence /\ sqlite_sequence' = sqlite_sequence
    BY LastRowid DEF open, ClientSteps, store
  <1>7. <<>> \in Seq(Lers) /\ {} \in SUBSET Nat
    OBVIOUS
  <1> HIDE DEF last_rowid
  <1> QED
    BY <1>3, <1>4, <1>5, <1>6, <1>7 DEF ClientInv

\* A verified row opens with the node's key, and with no other.
LEMMA RowDecrypts ==
    ASSUME NodeInv, PacketInv, TrailInv, NEW r \in rows, r.verified, NEW key
    PROVE  LET f == origin[r.n]
           IN  /\ decrypt_ler(built, stored[r.n].raw_blob, stored[r.n].frame_type, key)
                    = IF key = "node" THEN {built[f]} ELSE {}
               /\ f \in DOMAIN built /\ built[f] \in Lers
  <1> DEFINE f == origin[r.n]   lf == lima_lf_t(f, built[f])
  <1>1. f \in 1 .. Len(built) /\ stored[r.n].frame_type = lf[2] /\ stored[r.n].raw_blob = Slice(lf, 2, 184)
    BY DEF TrailInv, HoldsFrame
  <1>2. f \in DOMAIN built /\ built[f] \in Lers
    BY <1>1, BuiltIs DEF PacketInv
  <1>3. decrypt_ler(built, Slice(lf, 2, 184), lf[2], key) = IF key = "node" THEN {built[f]} ELSE {}
    BY <1>2, FrameDecrypts, ZenonT(60) DEF NodeInv
  <1> QED
    BY <1>1, <1>2, <1>3

\* The records of verified rows, in order.
RecordsOf(new) == [k \in 1 .. Cardinality(new) |-> built[origin[ById(new)[k].n]]]

LEMMA VerifiedNumbered ==
    ASSUME TrailInv
    PROVE  /\ Numbered(Verified)
           /\ \A c \in Nat : Numbered(Newer(Verified, c)) /\ poll_new_frames(c) = Newer(Verified, c)
  <1>1. Numbered(rows) /\ IsFiniteSet(rows)
    BY DEF TrailInv, Numbered
  <1>2. ASSUME NEW S \in SUBSET rows PROVE Numbered(S)
    <2>1. IsFiniteSet(S)
      BY <1>1, FS_Subset
    <2> QED
      BY <1>1, <2>1 DEF Numbered
  <1>3. Verified \in SUBSET rows /\ \A c \in Nat : Newer(Verified, c) \in SUBSET rows
    BY DEF Verified, Newer
  <1>4. \A c \in Nat : poll_new_frames(c) = Newer(Verified, c)
    BY DEF Verified, Newer, poll_new_frames
  <1> QED
    BY <1>2, <1>3, <1>4

LEMMA RecordsAre ==
    ASSUME NodeInv, PacketInv, TrailInv, NEW new, new \subseteq Verified, Numbered(new)
    PROVE  RecordsOf(new) \in Seq(Lers) /\ Len(RecordsOf(new)) = Cardinality(new)
  <1> DEFINE n == Cardinality(new)
  <1>1. n \in Nat /\ \A k \in 1 .. n : ById(new)[k] \in new
    BY ByIdIs, FS_CardinalityType DEF Numbered
  <1>2. \A k \in 1 .. n : ById(new)[k] \in rows /\ ById(new)[k].verified
    BY <1>1 DEF Verified
  <1> HIDE DEF n
  <1>3. ASSUME NEW k \in 1 .. n PROVE built[origin[ById(new)[k].n]] \in Lers
    BY <1>2, RowDecrypts
  <1>4. RecordsOf(new) \in [1 .. n -> Lers]
    BY <1>3 DEF RecordsOf, n
  <1> HIDE DEF RecordsOf
  <1> QED
    BY <1>1, <1>4, FunctionIsSeq DEF n

\* A poll goes through all that is new, and shows all of it or, with another key, none.
LEMMA Polled ==
    ASSUME NodeInv, PacketInv, TrailInv, ClientInv, poll
    PROVE  LET new == Newer(Verified, client.cursor)
           IN  /\ new # {} /\ new \subseteq Verified /\ Numbered(new)
               /\ client'.cursor = Last(ById(new)).id
               /\ client'.shown = IF client.key = "node" THEN client.shown \o RecordsOf(new) ELSE client.shown
               /\ client' \in [open : BOOLEAN, key : {"node", "other"}, cursor : Nat, shown : Seq(Lers),
                               errors : SUBSET Nat, opens : 0 .. MaxOpens]
               /\ client'.cursor <= sqlite_sequence /\ client'.cursor \in Nat
               /\ client'.key = "node" => client'.errors = {}
  <1> DEFINE new == Newer(Verified, client.cursor)
             lers(r) == decrypt_ler(built, stored[r.n].raw_blob, stored[r.n].frame_type, client.key)
             good == ById({r \in new : lers(r) # {}})
             seen == [k \in DOMAIN good |-> CHOOSE ler \in lers(good[k]) : TRUE]
             bad == {r.id : r \in {s \in new : lers(s) = {}}}
             last_id == Last(ById(new)).id
  <1>1. /\ client \in [open : BOOLEAN, key : {"node", "other"}, cursor : Nat, shown : Seq(Lers),
                       errors : SUBSET Nat, opens : 0 .. MaxOpens]
        /\ client.key = "node" => client.errors = {}
    BY DEF ClientInv
  <1>2. /\ poll_new_frames(client.cursor) = new /\ Numbered(new)
    BY <1>1, VerifiedNumbered
  <1>3. new # {} /\ new \subseteq Verified /\ Verified \subseteq rows
    BY <1>2 DEF poll, Newer, Verified
  <1>4. client' = [client EXCEPT !.cursor = last_id, !.shown = client.shown \o seen,
                                 !.errors = client.errors \cup bad]
    <2>1. client' = [client EXCEPT
                        !.cursor = Last(ById(poll_new_frames(client.cursor))).id,
                        !.shown = @ \o
                          [k \in DOMAIN ById({r \in poll_new_frames(client.cursor) : lers(r) # {}}) |->
                             CHOOSE ler \in
                               lers(ById({r \in poll_new_frames(client.cursor) : lers(r) # {}})[k]) : TRUE],
                        !.errors = @ \cup {r.id : r \in {s \in poll_new_frames(client.cursor) : lers(s) = {}}}]
      BY DEF poll
    <2> HIDE DEF new, lers
    <2> QED
      BY <1>2, <2>1
  <1>5. \A r \in new : r \in rows /\ r.verified
    BY <1>3 DEF Verified
  <1>6. \A r \in new : lers(r) = IF client.key = "node" THEN {built[origin[r.n]]} ELSE {}
    BY <1>5, RowDecrypts
  <1>7. last_id \in Nat /\ last_id <= sqlite_sequence
    <2>1. Last(ById(new)) \in new
      BY <1>2, <1>3, ByIdLast
    <2> HIDE DEF new
    <2>2. last_rowid \in Nat /\ last_rowid <= sqlite_sequence /\ sqlite_sequence \in Nat
      BY LastRowid
    <2>3. last_id \in Nat /\ last_id <= last_rowid
      BY <1>3, <2>1, LastRowid
    <2> HIDE DEF last_id, last_rowid
    <2> QED
      BY <2>2, <2>3
  <1>8. RecordsOf(new) \in Seq(Lers)
    BY <1>2, <1>3, RecordsAre
  <1> HIDE DEF lers
  <1>9. CASE client.key = "node"
    <2>1. \A r \in new : lers(r) = {built[origin[r.n]]}
      BY <1>6, <1>9
    <2>2. bad = {} /\ {r \in new : lers(r) # {}} = new
      BY <2>1
    <2>3. good = ById(new)
      BY <2>2
    <2>4. /\ good \in Seq(new) /\ Len(good) = Cardinality(new)
          /\ \A k \in 1 .. Cardinality(new) : good[k] \in new
      BY <1>2, <2>3, ByIdIs
    <2>5. DOMAIN good = 1 .. Cardinality(new)
      BY <2>4, LenProperties, Zenon
    <2> HIDE DEF good, new, bad, last_id
    <2>6. \A k \in 1 .. Cardinality(new) : (CHOOSE ler \in lers(good[k]) : TRUE) = built[origin[good[k].n]]
      BY <2>1, <2>4
    <2>7. seen = RecordsOf(new)
      BY <2>3, <2>5, <2>6 DEF RecordsOf
    <2> HIDE DEF seen
    <2>8. client' = [client EXCEPT !.cursor = last_id, !.shown = client.shown \o RecordsOf(new),
                                   !.errors = {}]
      BY <1>1, <1>4, <1>9, <2>2, <2>7
    <2>9. client.shown \o RecordsOf(new) \in Seq(Lers)
      BY <1>1, <1>8
    <2> HIDE DEF RecordsOf
    <2> QED
      BY <1>1, <1>2, <1>3, <1>7, <1>9, <2>8, <2>9 DEF new, last_id
  <1>10. CASE client.key # "node"
    <2>1. {r \in new : lers(r) # {}} = {}
      BY <1>6, <1>10
    <2>2. good = ById({}) /\ Numbered({})
      BY <2>1, FS_EmptySet DEF Numbered
    <2>3. good \in Seq({}) /\ Len(good) = 0
      BY <2>2, ByIdIs, FS_EmptySet
    <2>4. DOMAIN good = {}
      BY <2>3, LenProperties
    <2> HIDE DEF good
    <2>5. seen = <<>>
      <3>1. seen \in [1 .. 0 -> Lers]
        BY <2>4
      <3> HIDE DEF seen
      <3>2. seen \in Seq(Lers) /\ Len(seen) = 0
        BY <3>1, FunctionIsSeq
      <3> QED
        BY <3>2, EmptySeq
    <2>6. client.shown \o seen = client.shown
      BY <1>1, <2>5, ConcatEmptySeq
    <2>7. bad \in SUBSET Nat
      <3>1. \A r \in new : r.id \in Nat
        BY <1>2 DEF Numbered
      <3> HIDE DEF new
      <3> QED
        BY <3>1
    <2> HIDE DEF seen, bad, new, last_id
    <2>8. client' = [client EXCEPT !.cursor = last_id, !.shown = client.shown,
                                   !.errors = client.errors \cup bad]
      BY <1>4, <2>6
    <2> QED
      BY <1>1, <1>2, <1>3, <1>7, <1>10, <2>7, <2>8 DEF new, last_id
  <1> QED
    BY <1>9, <1>10

LEMMA ClientPolls ==
    ASSUME NodeInv, PacketInv, TrailInv, ClientInv, poll
    PROVE  ClientInv'
  <1>1. /\ client' \in [open : BOOLEAN, key : {"node", "other"}, cursor : Nat, shown : Seq(Lers),
                        errors : SUBSET Nat, opens : 0 .. MaxOpens]
        /\ client'.cursor <= sqlite_sequence
        /\ client'.key = "node" => client'.errors = {}
    BY Polled
  <1>2. sqlite_sequence' = sqlite_sequence
    BY DEF poll, ClientSteps, store
  <1> QED
    BY <1>1, <1>2 DEF ClientInv

----------------------------------------------------------------------------
(* The path.                                                               *)

LEMMA PathInvInit == PathInit => PathInv
  <1> SUFFICES ASSUME PathInit PROVE PathInv
    OBVIOUS
  <1>1. <<>> \in Seq(Lers) /\ <<>> \in Seq(Records) /\ <<>> \in Seq(1 .. MaxBoots) /\ Len(<<>>) = 0
    OBVIOUS
  <1>2. NodeInv
    BY <1>1, BoundsAre DEF PathInit, NodeInv, Frames
  <1>3. PacketInv
    <2>1. ParseInv
      BY ParseInvInit DEF PathInit
    <2>2. pkt \in Seq(Seen(packet.frame)) /\ found = NoFrame /\ parse_pc = "idle" /\ packet.frame = 0 /\ Len(built) = 0
      BY <1>1 DEF PathInit, ParseInit, NoPacket
    <2> QED
      BY <2>1, <2>2, BoundsAre DEF PathInit, PacketInv
  <1>4. TrailInv
    <2>1. rows = {} /\ sqlite_sequence = 0 /\ stored = <<>> /\ origin = <<>>
      BY DEF PathInit, StoreInit
    <2>2. Numbered({})
      BY FS_EmptySet DEF Numbered
    <2> QED
      BY <2>1, <2>2 DEF TrailInv
  <1>5. ClientInv
    BY BoundsAre DEF PathInit, StoreInit, Closed, ClientInv
  <1> QED
    BY <1>2, <1>3, <1>4, <1>5 DEF PathInv

LEMMA PathInvNext == PathInv /\ [PathNext]_pathvars => PathInv'
  <1> SUFFICES ASSUME PathInv, [PathNext]_pathvars PROVE PathInv'
    OBVIOUS
  <1> USE DEF PathInv
  <1>0. /\ Len(built) \in Nat /\ sqlite_sequence \in Nat
        /\ vk \in {"node", "other"} /\ damages \in 0 .. MaxDamage
        /\ sqlite_sequence <= sqlite_sequence
    BY BuiltIs, LastRowid DEF NodeInv, PacketInv
  <1>00. Extended(built, built)
    BY <1>0 DEF Extended
  <1>1. CASE UNCHANGED pathvars
    <2>1. UNCHANGED <<node, vk, radio, parsevars, stored, origin, store, client>>
      BY <1>1 DEF pathvars
    <2>2. UNCHANGED <<built, sqlite_sequence>>
      BY <2>1 DEF node, radio, store
    <2> QED
      BY <1>0, <1>00, <2>1, <2>2, NodeStays, PacketStays, TrailStays, ClientStays
  <1>2. CASE node_step
    <2>1. NodeInv' /\ UNCHANGED Elsewhere /\ Extended(built, built')
      BY <1>2, NodeNext
    <2>2. UNCHANGED <<vk, radio, parsevars, stored, origin, store, client, sqlite_sequence>>
      BY <2>1 DEF Elsewhere, radio, store
    <2>3. Len(built') \in Nat /\ Len(built) <= Len(built')
      <3>1. Len(built') \in Nat
        BY <2>1, LenProperties DEF NodeInv
      <3> QED
        BY <2>1, <3>1 DEF Extended
    <2> QED
      BY <1>0, <2>1, <2>2, <2>3, PacketStays, TrailStays, ClientStays
  <1>3. CASE receive \/ receive_spoilt
    <2>1. /\ UNCHANGED <<node, vk, stored, origin, store, client, built, sqlite_sequence>>
          /\ damages' \in 0 .. MaxDamage
      <3>1. damages' = damages \/ (damages < MaxDamage /\ damages' = damages + 1)
        BY <1>3 DEF receive, receive_spoilt
      <3>2. damages' \in 0 .. MaxDamage
        BY <1>0, <3>1, BoundsAre
      <3>3. UNCHANGED <<node, vk, stored, origin, store, client>>
        BY <1>3 DEF receive, receive_spoilt
      <3> QED
        BY <3>2, <3>3 DEF node, store
    <2>2. PICK f \in 1 .. Len(built) :
             /\ packet'.frame = f
             /\ \E p \in Seq(Seen(f)), v \in 0 .. 255 : parse(p, v)
      <3>1. CASE receive
        <4>1. PICK f \in 1 .. Len(built), reports \in Shapes :
                 /\ packet'.frame = f
                 /\ parse(Packet(reports, lima_lf_t(f, built[f])), Worst)
          BY <3>1 DEF receive, Received
        <4>2. f \in 1 .. Len(built) /\ Worst \in 0 .. 255
          BY <1>0, <4>1 DEF Worst
        <4>3. Packet(reports, lima_lf_t(f, built[f])) \in Seq(Seen(f))
          BY <4>2, PacketHolds
        <4> QED
          BY <4>1, <4>2, <4>3
      <3>2. CASE receive_spoilt
        <4>1. PICK f \in 1 .. Len(built), reports \in Fragile :
                 /\ LET p == Packet(reports, lima_lf_t(f, built[f]))
                    IN  \/ \E cut \in CutAt : cut < Len(p) /\ parse(SubSeq(p, 1, cut), Worst)
                        \/ \E at \in DamageAt \cap DOMAIN p, v \in Noise : parse([p EXCEPT ![at] = -1], v)
                 /\ Received(f, reports, FALSE)
          BY <3>2, Zenon DEF receive_spoilt
        <4>1a. packet'.frame = f
          BY <4>1 DEF Received
        <4> DEFINE p == Packet(reports, lima_lf_t(f, built[f]))
        <4>2. f \in 1 .. Len(built) /\ Worst \in 0 .. 255 /\ f \in Nat
          BY <1>0, <4>1 DEF Worst
        <4>3. p \in Seq(Seen(f))
          BY <4>1, <4>2, PacketHolds, FragileAssumption
        <4> HIDE DEF p
        <4>4. /\ \A cut \in Nat : cut < Len(p) => SubSeq(p, 1, cut) \in Seq(Seen(f))
              /\ \A at \in DOMAIN p : [p EXCEPT ![at] = -1] \in Seq(Seen(f))
          BY <4>2, <4>3, SpoiltHolds
        <4>5. CASE \E cut \in CutAt : cut < Len(p) /\ parse(SubSeq(p, 1, cut), Worst)
          BY <4>1, <4>1a, <4>2, <4>4, <4>5, CutAssumption
        <4>6. CASE \E at \in DamageAt \cap DOMAIN p, v \in Noise : parse([p EXCEPT ![at] = -1], v)
          BY <4>1, <4>1a, <4>4, <4>6, NoiseAssumption
        <4> QED
          BY <4>1, <4>1a, <4>5, <4>6 DEF p
      <3> QED
        BY <1>3, <3>1, <3>2
    <2>3. PacketInv'
      BY <1>0, <2>1, <2>2, PacketReceived
    <2> QED
      BY <1>0, <1>00, <2>1, <2>3, NodeStays, TrailStays, ClientStays
  <1>4. CASE load_test_verifying_key
    <2>1. UNCHANGED <<node, radio, parsevars, stored, origin, store, client>> /\ vk' = "node"
      BY <1>4 DEF load_test_verifying_key
    <2>2. UNCHANGED <<built, sqlite_sequence>>
      BY <2>1 DEF node, radio, store
    <2> QED
      BY <1>0, <1>00, <2>1, <2>2, NodeStays, PacketStays, TrailStays, ClientStays
  <1>5. CASE parsing
    <2>1. parse_step /\ UNCHANGED <<node, vk, radio, stored, origin, store, client>>
      BY <1>5 DEF parsing
    <2>2. UNCHANGED <<built, sqlite_sequence>>
      BY <2>1 DEF node, radio, store
    <2> QED
      BY <1>0, <1>00, <2>1, <2>2, NodeStays, PacketNextParse, TrailStays, ClientStays
  <1>6. CASE record
    <2>1. taken /\ packet' = NoPacket /\ UNCHANGED <<node, vk, damages, client>>
      BY <1>6 DEF record
    <2>2. UNCHANGED built
      BY <2>1 DEF node
    <2>3. TrailInv'
      BY <1>6, TrailRecords
    <2>4. sqlite_sequence' = sqlite_sequence + 1
      BY <1>6, Inserted
    <2>5. PacketInv'
      BY <2>1, <2>2, PacketTaken
    <2> QED
      BY <1>0, <2>1, <2>3, <2>4, <2>5, NodeStays, ClientStays
  <1>7. CASE ignore
    <2>1. taken /\ packet' = NoPacket /\ UNCHANGED <<node, vk, damages, stored, origin, store, client>>
      BY <1>7 DEF ignore
    <2>2. UNCHANGED <<built, sqlite_sequence>>
      BY <2>1 DEF node, store
    <2> QED
      BY <1>0, <1>00, <2>1, <2>2, NodeStays, PacketTaken, TrailStays, ClientStays
  <1>8. CASE open \/ poll
    <2>1. UNCHANGED <<node, vk, radio, parsevars, stored, origin, store>>
      BY <1>8 DEF open, poll, ClientSteps
    <2>2. UNCHANGED built
      BY <2>1 DEF node
    <2>3. ClientInv'
      BY <1>8, ClientOpens, ClientPolls
    <2> QED
      BY <1>0, <1>00, <2>1, <2>2, <2>3, NodeStays, PacketStays, TrailStays
  <1> QED
    BY <1>1, <1>2, <1>3, <1>4, <1>5, <1>6, <1>7, <1>8 DEF PathNext

\* The parts of the invariant hold together.
THEOREM PathInductive == PathSpec => []PathInv
  BY PathInvInit, PathInvNext, PTL DEF PathSpec

\* Every variable keeps to its values whatever the radio does to a packet and however often
\* the node loses power, and the node signs with no key but those of its flash (crypto.c:135-195).
THEOREM PathTypes == PathSpec => []PathTypeOK
  <1>1. ASSUME PathInv PROVE PathTypeOK
    <2> USE <1>1 DEF PathInv
    <2>1. /\ Len(built) \in Nat /\ packet.frame \in 0 .. Len(built) /\ packet.frame \in Nat /\ packet.frame <= MaxEvents
          /\ sequence_counter \in 0 .. MaxEvents
      BY BuiltIs, BoundsAre DEF NodeInv, PacketInv
    <2>2. pkt \in Seq(Numbers)
      <3>1. Seen(packet.frame) \subseteq Numbers /\ pkt \in Seq(Seen(packet.frame))
        BY <2>1, SeenIs DEF PacketInv
      <3> QED
        BY <3>1, SeqWidens, Zenon
    <2>3. rows \subseteq [id : Nat, n : DOMAIN stored, verified : BOOLEAN, acked : BOOLEAN]
      <3>1. DOMAIN stored = 1 .. Len(stored)
        BY LenProperties DEF TrailInv
      <3>2. ASSUME NEW r \in rows
            PROVE  r \in [id : Nat, n : DOMAIN stored, verified : BOOLEAN, acked : BOOLEAN]
        <4>1. /\ r \in [id : Nat, n : Nat, verified : BOOLEAN, acked : BOOLEAN]
              /\ r.n \in DOMAIN stored
          BY <3>1 DEF TrailInv
        <4> QED
          BY <4>1
      <3> QED
        BY <3>2
    <2>4. \A n \in DOMAIN stored : stored[n].frame_type \in Numbers /\ stored[n].raw_blob \in Seq(Numbers)
      <3>1. \A n \in DOMAIN stored : stored[n] \in Columns
        BY ElementOfSeq, LenProperties DEF TrailInv
      <3> QED
        BY <3>1 DEF Columns
    <2>5. parse_pc \in {"idle", "report", "ad", "done"} /\ damages \in 0 .. MaxDamage
      BY DEF PacketInv, ParseInv
    <2>6. /\ flash \subseteq {"ecdsa", "aes"} /\ key_ids \subseteq flash
          /\ node_pc \in {"off", "ecdsa", "pubkey", "aes", "export", "run"}
          /\ events \in 0 .. MaxEvents /\ boots \in 0 .. MaxBoots
          /\ logged \subseteq {"pubkey", "psk"} /\ vk \in {"node", "other"}
          /\ built \in Seq(Lers) /\ boot_of \in Seq(1 .. MaxBoots) /\ Len(boot_of) = Len(built)
      BY DEF NodeInv
    <2>7. origin \in Seq(0 .. Len(built)) /\ Len(origin) = Len(stored)
      BY DEF TrailInv
    <2>8. client.shown \in Seq(Lers) /\ client.cursor \in Nat /\ client.opens \in 0 .. MaxOpens
      BY DEF ClientInv
    <2> QED
      BY <2>1, <2>2, <2>3, <2>4, <2>5, <2>6, <2>7, <2>8 DEF PathTypeOK
  <1> QED
    BY <1>1, PathInductive, PTL

\* parse_ext_adv_report() stays inside of every packet a node's frame arrives in, whole,
\* cut off or damaged (main.rs:686-746).
THEOREM PathInBounds == PathSpec => []ParserInBounds
  <1>1. PathInv => ParserInBounds
    BY DEF PathInv, PacketInv, ParseInv, ParserInBounds
  <1> QED
    BY <1>1, PathInductive, PTL

\* With the PSK of the node the client decrypts every verified row (client main.rs:136-147):
\* none ends as an error, over any number of boots and receptions.
THEOREM TrailIsReadable == PathSpec => []TrailReadable
  <1>1. PathInv => TrailReadable
    BY DEF PathInv, ClientInv, TrailReadable
  <1> QED
    BY <1>1, PathInductive, PTL

\* The Rust types and crypto-test read and write back whatever record and frame the
\* firmware's structs hold.
LEMMA MirrorHolds ==
    ASSUME NEW f \in Nat, NEW ler \in Records
    PROVE  MirroredBy(f, ler)
  <1> DEFINE lf == lima_lf_t(f, ler)   m == Mirrored(ler)
             record_of == LimaEventRecord_from_bytes(lima_ler_t(ler))
  <1>1. record_of = m
    BY RecordIsRead
  <1>2. m.reserved = 0 /\ \A field \in DOMAIN ler : m[field] = ler[field]
    <2>1. DOMAIN ler = {"node_id", "event_type", "sequence", "timestamp_ms", "accel_g", "delta_pa"}
      BY DEF Records
    <2> QED
      BY <2>1 DEF Mirrored
  <1>3. LimaEventRecord_to_bytes(m) = lima_ler_t(ler) /\ crypto_test(m)
    BY RecordIsWritten, RoundTripPasses
  <1> HIDE DEF m
  <1>4. /\ lf \in [1 .. 184 -> FrameBytes(f)] /\ lf[2] = ler.event_type
    <2>1. ler.event_type \in 0 .. 255
      BY DEF Records
    <2>2. lf \in [1 .. 184 -> FrameBytes(f)]
      BY <2>1, FrameLayout
    <2>3. \A k \in 1 .. 184 : lf[k] = IF k <= 4 THEN <<2, ler.event_type, 0, 0>>[k] ELSE Secret(f, k - 1)
      BY <2>1, FrameLayout
    <2> HIDE DEF lf
    <2>4. lf[2] = <<2, ler.event_type, 0, 0>>[2]
      BY <2>3
    <2> QED
      BY <2>2, <2>4
  <1> HIDE DEF lf
  <1>5. /\ LimaFrame_to_bytes(LimaFrame_from_bytes(lf)) = lf
        /\ LimaFrame_from_bytes(lf).event_type = lf[2]
        /\ signed_bytes(LimaFrame_from_bytes(lf)) = Slice(lf, 0, 120)
    BY <1>4, FrameIsWrittenBack
  <1> QED
    BY <1>1, <1>2, <1>3, <1>4, <1>5 DEF MirroredBy, lf, LIMA_LF_SIGNED_LEN

\* lima-types mirrors lima_ler_t and lima_lf_t (lib.rs:3-5): every frame any node ever
\* builds is read and written back as it is, and crypto-test passes for its record.
THEOREM TypesMirror == PathSpec => TypesMirrorFirmware
  <1> DEFINE AllRecords == \A f \in DOMAIN built : f \in Nat /\ built[f] \in Records
  <1>0. NodeInv => AllRecords
    BY FrameOfBuilt DEF NodeInv
  <1>1. NodeInv' => \A f \in DOMAIN built' \ DOMAIN built : MirroredBy(f, built'[f])
    <2>1. NodeInv' => AllRecords'
      BY <1>0, PTL
    <2> QED
      BY <2>1, MirrorHolds
  <1>2. PathInv' => NodeInv'
    BY DEF PathInv
  <1>3. PathInv' => [\A f \in DOMAIN built' \ DOMAIN built : MirroredBy(f, built'[f])]_built
    BY <1>1, <1>2
  <1> QED
    BY <1>3, PathInductive, PTL DEF TypesMirrorFirmware

----------------------------------------------------------------------------
(* The audit trail.                                                        *)

SignedOf == [f \in DOMAIN built |-> [boot |-> boot_of[f], ler |-> built[f]]]
TrailOf == [k \in 1 .. Cardinality(Verified) |-> origin[ById(Verified)[k].n]]
UptoOf == Cardinality(UpTo(Verified, client.cursor))

SignedSet == [boot : 1 .. MaxBoots, ler : Lers]

SignedFacts ==
    /\ SignedOf \in Seq(SignedSet) /\ Len(SignedOf) = Len(built)
    /\ DOMAIN SignedOf = 1 .. Len(built) /\ Len(built) \in Nat
    /\ \A f \in 1 .. Len(built) : SignedOf[f].boot = boot_of[f] /\ SignedOf[f].ler = built[f]

LEMMA SignedIs == NodeInv => SignedFacts
  <1> SUFFICES ASSUME NodeInv PROVE SignedFacts
    OBVIOUS
  <1>1. Len(built) \in Nat /\ DOMAIN built = 1 .. Len(built)
    BY BuiltIs
  <1>2. \A f \in 1 .. Len(built) : [boot |-> boot_of[f], ler |-> built[f]] \in SignedSet
    BY BuiltIs DEF SignedSet
  <1> DEFINE n == Len(built)
  <1>3. SignedOf = [f \in 1 .. n |-> [boot |-> boot_of[f], ler |-> built[f]]]
    BY <1>1 DEF SignedOf
  <1> HIDE DEF n
  <1>4. /\ SignedOf \in [1 .. n -> SignedSet]
        /\ \A f \in 1 .. n : SignedOf[f] = [boot |-> boot_of[f], ler |-> built[f]]
    BY <1>2, <1>3 DEF n
  <1>5. n \in Nat
    BY <1>1 DEF n
  <1>6. SignedOf \in Seq(SignedSet) /\ Len(SignedOf) = n
    BY <1>4, <1>5, FunctionIsSeq
  <1>7. DOMAIN SignedOf = 1 .. n
    BY <1>4
  <1>8. \A f \in 1 .. n : SignedOf[f].boot = boot_of[f] /\ SignedOf[f].ler = built[f]
    BY <1>4
  <1> QED
    BY <1>5, <1>6, <1>7, <1>8 DEF n, SignedFacts

TrailFacts ==
    LET n == Cardinality(Verified)
    IN  /\ n \in Nat /\ Numbered(Verified)
        /\ TrailOf \in Seq(1 .. Len(built)) /\ Len(TrailOf) = n /\ DOMAIN TrailOf = 1 .. n
        /\ \A k \in 1 .. n : /\ ById(Verified)[k] \in Verified /\ TrailOf[k] \in 1 .. Len(built)
                             /\ TrailOf[k] = origin[ById(Verified)[k].n]

LEMMA TrailIs == PathInv => TrailFacts
  <1> SUFFICES ASSUME PathInv PROVE TrailFacts
    OBVIOUS
  <1> DEFINE n == Cardinality(Verified)
  <1>1. Numbered(Verified) /\ n \in Nat
    BY VerifiedNumbered, FS_CardinalityType DEF PathInv, Numbered
  <1>2. \A k \in 1 .. n : ById(Verified)[k] \in Verified
    BY <1>1, ByIdIs
  <1>3. \A r \in Verified : origin[r.n] \in 1 .. Len(built)
    BY DEF PathInv, TrailInv, HoldsFrame, Verified
  <1> HIDE DEF n
  <1>4. TrailOf = [k \in 1 .. n |-> origin[ById(Verified)[k].n]]
    BY DEF TrailOf, n
  <1>5. TrailOf \in [1 .. n -> 1 .. Len(built)] /\ \A k \in 1 .. n : TrailOf[k] = origin[ById(Verified)[k].n]
    BY <1>2, <1>3, <1>4
  <1>6. TrailOf \in Seq(1 .. Len(built)) /\ Len(TrailOf) = n
    BY <1>1, <1>5, FunctionIsSeq
  <1> QED
    BY <1>1, <1>2, <1>5, <1>6 DEF n, TrailFacts

LEMMA NextFacts == PathInv' => SignedFacts' /\ TrailFacts'
  <1>1. PathInv => SignedFacts /\ TrailFacts
    BY SignedIs, TrailIs DEF PathInv
  <1> QED
    BY <1>1, PTL

\* Two sequences are one if they agree everywhere.
LEMMA SameSeq ==
    ASSUME NEW S, NEW s \in Seq(S), NEW T, NEW t \in Seq(T), AsLong(s, t),
           \A k \in 1 .. Len(s) : s[k] = t[k]
    PROVE  s = t
  <1>1. DOMAIN s = 1 .. Len(s) /\ DOMAIN t = 1 .. Len(t) /\ Len(s) = Len(t)
    BY LenProperties DEF AsLong
  <1>2. s \in [1 .. Len(s) -> S] /\ t \in [1 .. Len(s) -> T]
    BY <1>1, LenProperties
  <1> QED
    BY <1>2

LEMMA AuditInits ==
    ASSUME PathInit
    PROVE  Audit!AuditInit
  <1>1. PathInv
    BY PathInvInit
  <1>2. SignedFacts /\ TrailFacts /\ Len(built) = 0 /\ Verified = {} /\ client = Closed
    BY <1>1, SignedIs, TrailIs DEF PathInv, PathInit, StoreInit, Verified
  <1>3. SignedOf = <<>>
    BY <1>2, EmptySeq DEF SignedFacts
  <1>4. TrailOf = <<>>
    <2>1. Cardinality(Verified) = 0
      BY <1>2, FS_EmptySet
    <2>2. TrailOf \in Seq(1 .. Len(built)) /\ Len(TrailOf) = 0
      BY <1>2, <2>1 DEF TrailFacts
    <2> QED
      BY <2>2, EmptySeq
  <1>5. UptoOf = 0
    <2>1. UpTo(Verified, client.cursor) = {}
      BY <1>2 DEF UpTo
    <2> QED
      BY <2>1, FS_EmptySet DEF UptoOf
  <1>6. client.shown = <<>>
    BY <1>2 DEF Closed
  <1> QED
    BY <1>3, <1>4, <1>5, <1>6 DEF Audit!AuditInit, SignedOf, TrailOf, UptoOf, UpTo

\* Nothing changes for the trail if neither rows nor their origins do.
LEMMA TrailSame ==
    ASSUME UNCHANGED <<rows, origin, client>>
    PROVE  TrailOf' = TrailOf /\ UptoOf' = UptoOf /\ client'.shown = client.shown
  BY DEF TrailOf, UptoOf, Verified, UpTo

LEMMA SignedSame ==
    ASSUME UNCHANGED <<built, boot_of>>
    PROVE  SignedOf' = SignedOf
  BY DEF SignedOf

LEMMA AuditSigns ==
    ASSUME PathInv, PathInv', UNCHANGED Elsewhere, NEW ler, Signing(ler)
    PROVE  Audit!Sign
  <1> DEFINE n == Len(built)
  <1>1. SignedFacts /\ SignedFacts'
    BY SignedIs, NextFacts DEF PathInv
  <1>2. /\ built' = Append(built, ler) /\ boot_of' = Append(boot_of, boots) /\ node_pc = "run"
        /\ ler.sequence = sequence_counter + 1
        /\ built \in Seq(Lers) /\ boot_of \in Seq(1 .. MaxBoots) /\ Len(boot_of) = n
        /\ n \in Nat /\ sequence_counter \in Nat /\ boots \in Nat
    BY BuiltIs, BoundsAre DEF Signing, PathInv, NodeInv
  <1>3. /\ Len(built') = n + 1 /\ built'[n + 1] = ler /\ boot_of'[n + 1] = boots
        /\ \A k \in 1 .. n : built'[k] = built[k] /\ boot_of'[k] = boot_of[k]
    BY <1>2
  <1> HIDE DEF n
  <1> DEFINE s == SignedOf   t == SignedOf'
  <1>4. /\ s \in Seq(SignedSet) /\ Len(s) = n /\ DOMAIN s = 1 .. n
        /\ t \in Seq(SignedSet) /\ Len(t) = n + 1 /\ DOMAIN t = 1 .. n + 1
        /\ \A f \in 1 .. n : s[f].boot = boot_of[f] /\ s[f].ler = built[f]
        /\ \A f \in 1 .. n + 1 : t[f].boot = boot_of'[f] /\ t[f].ler = built'[f]
    BY <1>1, <1>3 DEF SignedFacts, n
  <1>5. \A f \in 1 .. n : f \in 1 .. n + 1 /\ n + 1 \in 1 .. n + 1
    BY <1>2
  <1>6. \A f \in 1 .. n : t[f] = s[f]
    <2>1. \A f \in 1 .. n : s[f] = [boot |-> boot_of[f], ler |-> built[f]]
      BY <1>4 DEF SignedOf
    <2>2. \A f \in 1 .. n + 1 : t[f] = [boot |-> boot_of'[f], ler |-> built'[f]]
      BY <1>4 DEF SignedOf
    <2> HIDE DEF s, t
    <2> QED
      BY <1>3, <1>5, <2>1, <2>2
  <1> HIDE DEF s, t
  <1>7. SubSeq(t, 1, n) = s
    <2> DEFINE u == SubSeq(t, 1, n)
    <2>1. \A f \in 1 .. n : s[f] \in SignedSet
      BY <1>4, ElementOfSeq
    <2>2. u \in Seq(SignedSet) /\ Len(u) = n /\ \A f \in 1 .. n : u[f] = t[f]
      BY <1>2, <1>4
    <2> HIDE DEF u
    <2>3. AsLong(u, s) /\ \A f \in 1 .. Len(u) : u[f] = s[f]
      BY <1>4, <1>6, <2>2 DEF AsLong
    <2> QED
      BY <1>4, <2>2, <2>3, SameSeq, Zenon DEF u
  <1>8. ASSUME NEW k \in 1 .. n
        PROVE  \/ s[k].boot < t[n + 1].boot
               \/ s[k].boot = t[n + 1].boot /\ s[k].ler.sequence < t[n + 1].ler.sequence
    <2>1. t[n + 1].boot = boots /\ t[n + 1].ler = ler
      BY <1>3, <1>4, <1>5
    <2>2. s[k].boot = boot_of[k] /\ s[k].ler = built[k]
      BY <1>4
    <2>3. /\ boot_of[k] <= boots /\ boot_of[k] \in Nat /\ built[k].sequence \in Nat
          /\ boot_of[k] = boots => built[k].sequence <= sequence_counter
      BY <1>2, BuiltIs DEF PathInv, NodeInv, n
    <2>4. boot_of[k] < boots \/ (boot_of[k] = boots /\ built[k].sequence < ler.sequence)
      BY <1>2, <2>3
    <2> QED
      BY <2>1, <2>2, <2>4
  <1>9. /\ Len(t) = Len(s) + 1 /\ SubSeq(t, 1, Len(s)) = s
        /\ \A k \in DOMAIN s : \/ s[k].boot < t[Len(s) + 1].boot
                               \/ s[k].boot = t[Len(s) + 1].boot
                                  /\ s[k].ler.sequence < t[Len(s) + 1].ler.sequence
    BY <1>4, <1>7, <1>8
  <1>10. TrailOf' = TrailOf /\ UptoOf' = UptoOf /\ client'.shown = client.shown
    BY TrailSame DEF Elsewhere, store
  <1> QED
    BY <1>9, <1>10 DEF Audit!Sign, s, t, SignedOf, TrailOf, UptoOf, UpTo

\* A row that is not verified is nothing to the trail, and a verified one is its new end.
LEMMA AuditStores ==
    ASSUME PathInv, PathInv', record
    PROVE  Audit!Store \/ UNCHANGED <<SignedOf, TrailOf, client.shown, UptoOf>>
  <1> USE DEF PathInv
  <1>1. PICK v \in BOOLEAN :
             /\ v = verify_outer_sig(built, found.mfr_id, found.payload, vk)
             /\ rows' = rows \cup {NewRow(v)}
             /\ sqlite_sequence' = sqlite_sequence + 1 /\ sqlite_sequence = Len(stored)
             /\ Len(stored) \in Nat /\ found # NoFrame
             /\ stored' = Append(stored, Reception(found)) /\ origin' = Append(origin, Origin(found))
             /\ packet' = NoPacket /\ UNCHANGED <<node, vk, damages, client>>
    BY Inserted
  <1> DEFINE new == NewRow(v)   m == Len(stored)   n == Cardinality(Verified)   f == packet.frame
  <1>2. new.id = m + 1 /\ new.n = m + 1 /\ new.verified = v /\ m \in Nat
    BY <1>1 DEF NewRow
  <1>3. SignedOf' = SignedOf /\ client' = client /\ built' = built
    BY <1>1, SignedSame DEF node
  <1>4. /\ SignedFacts /\ TrailFacts /\ TrailFacts' /\ n \in Nat /\ Numbered(Verified)
        /\ \A k \in 1 .. n : ById(Verified)[k] \in Verified
    BY SignedIs, TrailIs, NextFacts DEF TrailFacts
  <1>5. \A r \in Verified : r.n \in 1 .. m /\ r.id \in 1 .. m
    BY DEF TrailInv, Verified
  <1>6. origin'[m + 1] = Origin(found) /\ \A k \in 1 .. m : origin'[k] = origin[k]
    <2>1. origin \in Seq(0 .. Len(built)) /\ Len(origin) = m /\ Origin(found) \in 0 .. Len(built)
      BY OriginIs DEF TrailInv
    <2> QED
      BY <1>1, <2>1, AppendProperties
  <1>7. CASE ~v
    <2>1. Verified' = Verified
      BY <1>1, <1>2, <1>7 DEF Verified
    <2>2. UptoOf' = UptoOf
      BY <1>3, <2>1 DEF UptoOf, UpTo
    <2>3. TrailOf' = TrailOf
      <3>1. \A k \in 1 .. n : origin'[ById(Verified)[k].n] = origin[ById(Verified)[k].n]
        BY <1>4, <1>5, <1>6
      <3>2. TrailOf' = [k \in 1 .. n |-> origin'[ById(Verified)[k].n]]
        BY <2>1 DEF TrailOf
      <3> HIDE DEF n
      <3> QED
        BY <3>1, <3>2 DEF TrailOf, n
    <2> QED
      BY <1>3, <2>2, <2>3
  <1>8. CASE v
    <2>1. Verified' = Verified \cup {new}
      BY <1>1, <1>2, <1>8 DEF Verified
    <2>2. \A r \in Verified : r.id < new.id
      BY <1>2, <1>5
    <2>3. new.id \in Nat
      BY <1>2
    <2> HIDE DEF new
    <2> DEFINE T == Verified \cup {new}
    <2>4. /\ Numbered(T) /\ Cardinality(T) = n + 1
          /\ \A k \in 1 .. n : ById(T)[k] = ById(Verified)[k]
          /\ ById(T)[n + 1] = new
      BY <1>4, <2>2, <2>3, ByIdGrows
    <2>5. Origin(found) = f /\ f \in 1 .. Len(built)
      BY <1>1, <1>8, VerifiedArrived
    <2>6. UptoOf' = UptoOf
      <3>1. client.cursor \in Nat /\ client.cursor <= m
        BY <1>1 DEF ClientInv
      <3>2. UpTo(T, client.cursor) = UpTo(Verified, client.cursor)
        BY <1>2, <3>1 DEF UpTo
      <3> QED
        BY <1>3, <2>1, <3>2 DEF UptoOf, UpTo
    <2> HIDE DEF m, f
    <2> DEFINE s == TrailOf   t == TrailOf'   u == Append(s, f)
    <2>7. /\ t \in Seq(1 .. Len(built)) /\ Len(t) = n + 1
          /\ \A k \in 1 .. n + 1 : t[k] = origin'[ById(T)[k].n]
      <3>1. /\ TrailOf' \in Seq(1 .. Len(built')) /\ Len(TrailOf') = Cardinality(Verified')
            /\ \A k \in 1 .. Cardinality(Verified') : TrailOf'[k] = origin'[ById(Verified')[k].n]
        BY <1>4 DEF TrailFacts
      <3> HIDE DEF t, n
      <3> QED
        BY <1>3, <2>1, <2>4, <3>1 DEF t
    <2>8. /\ s \in Seq(1 .. Len(built)) /\ Len(s) = n /\ DOMAIN s = 1 .. n
          /\ \A k \in 1 .. n : s[k] = origin[ById(Verified)[k].n] /\ s[k] \in 1 .. Len(built)
      BY <1>4 DEF TrailFacts
    <2> HIDE DEF s, t, n, T
    <2>9. f \in 1 .. Len(built)
      BY <2>5, <1>4 DEF SignedFacts
    <2>10. /\ u \in Seq(1 .. Len(built)) /\ Len(u) = n + 1 /\ u[n + 1] = f
           /\ \A k \in 1 .. n : u[k] = s[k]
      BY <2>8, <2>9, AppendProperties
    <2> HIDE DEF u
    <2>11. \A k \in 1 .. n : t[k] = u[k]
      <3> SUFFICES ASSUME NEW k \in 1 .. n PROVE t[k] = u[k]
        OBVIOUS
      <3>1. k \in 1 .. n + 1
        BY <1>4
      <3>2. t[k] = origin'[ById(Verified)[k].n] /\ u[k] = origin[ById(Verified)[k].n]
        BY <2>4, <2>7, <2>8, <2>10, <3>1
      <3>3. ById(Verified)[k].n \in 1 .. m
        BY <1>4, <1>5 DEF m
      <3> QED
        BY <1>6, <3>2, <3>3 DEF m
    <2>12. t[n + 1] = u[n + 1]
      <3>1. n + 1 \in 1 .. n + 1
        BY <1>4
      <3>2. t[n + 1] = origin'[new.n]
        BY <2>4, <2>7, <3>1
      <3> QED
        BY <1>2, <1>6, <2>5, <2>10, <3>2 DEF new, m
    <2>13. t = u
      <3>1. \A k \in 1 .. n + 1 : k \in 1 .. n \/ k = n + 1
        BY <1>4
      <3>2. AsLong(t, u) /\ \A k \in 1 .. Len(t) : t[k] = u[k]
        BY <2>7, <2>10, <2>11, <2>12, <3>1 DEF AsLong
      <3> QED
        BY <2>7, <2>10, <3>2, SameSeq, Zenon
    <2>14. f \in DOMAIN SignedOf
      BY <1>4, <2>5 DEF SignedFacts
    <2>15. \E k \in DOMAIN SignedOf : t = Append(s, k)
      BY <2>13, <2>14 DEF u
    <2>16. client'.shown = client.shown
      BY <1>3
    <2>17. Audit!Store
      BY <1>3, <2>6, <2>15, <2>16 DEF Audit!Store, s, t, SignedOf, TrailOf, UptoOf, UpTo
    <2> QED
      BY <2>17
  <1> QED
    BY <1>7, <1>8

\* What a client goes through when it begins.
LEMMA AuditOpens ==
    ASSUME PathInv, open
    PROVE  Audit!Open
  <1> USE DEF PathInv
  <1>1. /\ UNCHANGED <<rows, origin, built, boot_of>>
        /\ client'.shown = <<>> /\ client'.cursor \in {0, last_rowid}
    BY ClientOpens DEF open, ClientSteps, node, store
  <1>2. SignedOf' = SignedOf /\ TrailOf' = TrailOf /\ Verified' = Verified
    BY <1>1 DEF SignedOf, TrailOf, Verified
  <1>3. Len(TrailOf) = Cardinality(Verified)
    BY TrailIs DEF TrailFacts
  <1>4. \A r \in Verified : r.id \in Nat /\ r.id >= 1 /\ r.id <= last_rowid
    BY LastRowid DEF Verified
  <1> HIDE DEF last_rowid
  <1>5. UptoOf' = Cardinality(UpTo(Verified, client'.cursor))
    BY <1>2 DEF UptoOf
  <1>6. CASE client'.cursor = 0
    <2>1. UpTo(Verified, client'.cursor) = {}
      BY <1>4, <1>6 DEF UpTo
    <2>2. UptoOf' = 0
      BY <1>5, <2>1, FS_EmptySet
    <2> QED
      BY <1>1, <1>2, <2>2 DEF Audit!Open, SignedOf, TrailOf, UptoOf, UpTo
  <1>7. CASE client'.cursor = last_rowid
    <2>1. UpTo(Verified, client'.cursor) = Verified
      BY <1>4, <1>7 DEF UpTo
    <2>2. UptoOf' = Len(TrailOf)
      BY <1>3, <1>5, <2>1
    <2> QED
      BY <1>1, <1>2, <2>2 DEF Audit!Open, SignedOf, TrailOf, UptoOf, UpTo
  <1> QED
    BY <1>1, <1>6, <1>7

\* What is new to the operator.
NewRecords == [k \in 1 .. Len(TrailOf) - UptoOf |-> SignedOf[TrailOf[UptoOf + k]].ler]

LEMMA NewRecordsAre ==
    ASSUME PathInv
    PROVE  NewRecords = RecordsOf(Newer(Verified, client.cursor))
  <1> USE DEF PathInv
  <1> DEFINE V == Verified   N == Newer(V, client.cursor)   m == Cardinality(UpTo(V, client.cursor))
             n == Cardinality(N)
  <1>1. SignedFacts /\ TrailFacts /\ client.cursor \in Nat
    BY SignedIs, TrailIs DEF ClientInv
  <1>2. Numbered(V)
    BY <1>1 DEF TrailFacts
  <1> HIDE DEF V
  <1>3. /\ m \in Nat /\ n \in Nat /\ Cardinality(V) = m + n
        /\ \A k \in 1 .. n : ById(N)[k] = ById(V)[m + k]
    BY <1>1, <1>2, ByIdTail
  <1>4. UptoOf = m
    BY DEF UptoOf, V
  <1> HIDE DEF N, m, n
  <1>5. /\ Len(TrailOf) = m + n
        /\ \A k \in 1 .. m + n : TrailOf[k] \in 1 .. Len(built) /\ TrailOf[k] = origin[ById(V)[k].n]
    BY <1>1, <1>3 DEF TrailFacts, V
  <1>6. Len(TrailOf) - UptoOf = n
    BY <1>3, <1>4, <1>5
  <1>7. ASSUME NEW k \in 1 .. n
        PROVE  SignedOf[TrailOf[UptoOf + k]].ler = built[origin[ById(N)[k].n]]
    <2> DEFINE f == TrailOf[m + k]
    <2>1. m + k \in 1 .. m + n
      BY <1>3
    <2>2. f \in 1 .. Len(built) /\ f = origin[ById(N)[k].n]
      BY <1>3, <1>5, <2>1
    <2> HIDE DEF f
    <2>3. f \in 1 .. Len(built)
      BY <1>1, <2>2 DEF SignedFacts
    <2>4. SignedOf[f].ler = built[f]
      BY <1>1, <2>3 DEF SignedFacts
    <2> QED
      BY <1>4, <2>2, <2>4 DEF f
  <1>8. NewRecords = [k \in 1 .. n |-> SignedOf[TrailOf[UptoOf + k]].ler]
    BY <1>6, Zenon DEF NewRecords
  <1>9. RecordsOf(N) = [k \in 1 .. n |-> built[origin[ById(N)[k].n]]]
    BY DEF RecordsOf, n
  <1>10. NewRecords = RecordsOf(N)
    BY <1>7, <1>8, <1>9
  <1> QED
    BY <1>10 DEF N, V

LEMMA AuditShows ==
    ASSUME PathInv, poll
    PROVE  Audit!Show
  <1> USE DEF PathInv
  <1> DEFINE new == Newer(Verified, client.cursor)
  <1>1. /\ new # {} /\ new \subseteq Verified /\ Numbered(new)
        /\ client'.cursor = Last(ById(new)).id /\ client'.cursor \in Nat
        /\ client'.shown = IF client.key = "node" THEN client.shown \o RecordsOf(new) ELSE client.shown
    BY Polled
  <1>2. UNCHANGED <<rows, origin, built, boot_of>>
    BY DEF poll, ClientSteps, node, store
  <1>3. SignedOf' = SignedOf /\ TrailOf' = TrailOf /\ Verified' = Verified
    BY <1>2 DEF SignedOf, TrailOf, Verified
  <1>4. Len(TrailOf) = Cardinality(Verified) /\ client.cursor \in Nat
        /\ \A r \in Verified : r.id \in Nat
    BY TrailIs DEF TrailFacts, Numbered, ClientInv
  <1>5. UpTo(Verified, client'.cursor) = Verified
    <2>1. Last(ById(new)) \in new /\ \A r \in new : r.id <= client'.cursor
      BY <1>1, ByIdLast
    <2>2. \A r \in Verified : r \in new \/ r.id <= client.cursor
      BY <1>4 DEF Newer
    <2>3. client'.cursor > client.cursor
      BY <1>1, <2>1 DEF Newer
    <2>4. \A r \in Verified : r.id <= client'.cursor
      BY <1>1, <1>4, <2>1, <2>2, <2>3
    <2> QED
      BY <2>4 DEF UpTo
  <1>6. UptoOf' = Len(TrailOf')
    BY <1>3, <1>4, <1>5 DEF UptoOf
  <1>7. client'.shown \in {client.shown, client.shown \o NewRecords}
    BY <1>1, NewRecordsAre
  <1> HIDE DEF PathInv
  <1> QED
    BY <1>3, <1>6, <1>7 DEF Audit!Show, NewRecords, SignedOf, TrailOf, UptoOf, UpTo

\* Every step of the path is a step of the audit trail or none.
LEMMA AuditSteps ==
    ASSUME PathInv, PathInv', [PathNext]_pathvars
    PROVE  [Audit!Sign \/ Audit!Store \/ Audit!Open \/ Audit!Show]_(Audit!audit)
  <1> DEFINE Stutter == UNCHANGED <<SignedOf, TrailOf, client.shown, UptoOf>>
             Same == UNCHANGED <<rows, origin, client, built, boot_of>>
  <1>0. SUFFICES Stutter \/ Audit!Sign \/ Audit!Store \/ Audit!Open \/ Audit!Show
    BY DEF Audit!audit, SignedOf, TrailOf, UptoOf, UpTo
  <1>1. Same => Stutter
    BY TrailSame, SignedSame
  <1> HIDE DEF Stutter
  <1>2. CASE node_step
    <2>1. UNCHANGED Elsewhere /\ (UNCHANGED <<built, boot_of>> \/ \E ler : Signing(ler))
      BY <1>2, NodeNext DEF PathInv
    <2>2. CASE UNCHANGED <<built, boot_of>>
      <3>1. Same
        BY <2>1, <2>2 DEF Elsewhere, store
      <3> HIDE DEF Same
      <3> QED
        BY <1>1, <3>1
    <2>3. CASE \E ler : Signing(ler)
      BY <2>1, <2>3, AuditSigns
    <2> QED
      BY <2>1, <2>2, <2>3
  <1>3. CASE receive \/ receive_spoilt \/ load_test_verifying_key \/ parsing \/ ignore \/ UNCHANGED pathvars
    <2>1. Same
      BY <1>3 DEF receive, receive_spoilt, load_test_verifying_key, parsing, ignore, pathvars, node, store
    <2> HIDE DEF Same
    <2> QED
      BY <1>1, <2>1
  <1>4. CASE record
    BY <1>4, AuditStores DEF Stutter
  <1>5. CASE open
    BY <1>5, AuditOpens
  <1>6. CASE poll
    BY <1>6, AuditShows
  <1> QED
    BY <1>2, <1>3, <1>4, <1>5, <1>6 DEF PathNext

\* Firmware, gateway and client together implement the audit trail: what is marked as
\* verified is what the node signed, in its order, and a client that has the PSK shows the
\* trail as it is.
THEOREM PathImplementsAudit == PathSpec => ImplementsAudit
  <1>1. PathInit => Audit!AuditInit
    BY AuditInits
  <1>2. PathInv /\ PathInv' /\ [PathNext]_pathvars
          => [Audit!Sign \/ Audit!Store \/ Audit!Open \/ Audit!Show]_(Audit!audit)
    BY AuditSteps
  <1> QED
    BY <1>1, <1>2, PathInductive, PTL DEF PathSpec, ImplementsAudit, Audit!AuditSpec

----------------------------------------------------------------------------
(* Where what is in a packet stands.                                       *)

Starts(seqs) == CHOOSE starts : Joined(FlattenSeq(seqs), seqs, starts)

LEMMA StartsAre ==
    ASSUME NEW S, NEW seqs \in Seq(Seq(S))
    PROVE  Joined(FlattenSeq(seqs), seqs, Starts(seqs))
  <1>1. \E starts : Joined(FlattenSeq(seqs), seqs, starts)
    BY FlattenJoins
  <1> QED
    BY <1>1, Zenon DEF Starts

\* How many bytes are before the k-th report, and before the j-th structure of AD data.
Off(reports, lf, k) == 5 + Starts(ReportsOf(reports, lf))[k]
AdOff(ads, lf, j) == Starts(AdsOf(ads, lf))[j]

\* The bytes of s stand in p behind the first o.
Behind(p, o, s) == \A x \in 1 .. Len(s) : p[o + x] = s[x]

\* One structure, from o to next, in data that ends at to.
AdLaid(p, kind, lf, o, next, to) ==
    /\ kind \in AdKinds /\ o \in Nat /\ next = o + AdLen(kind) /\ next <= to
    /\ Behind(p, o, Ad(kind, lf)) /\ Len(Ad(kind, lf)) = AdLen(kind)

AdsLaid(p, ads, lf, o, to) ==
    /\ Len(ads) \in Nat /\ DOMAIN ads = 1 .. Len(ads)
    /\ o + AdOff(ads, lf, 1) = o /\ o + AdOff(ads, lf, Len(ads) + 1) = to
    /\ \A j \in 1 .. Len(ads) :
         AdLaid(p, ads[j], lf, o + AdOff(ads, lf, j), o + AdOff(ads, lf, j + 1), to)

LEMMA AdsAreLaid ==
    ASSUME NEW S, 0 .. 255 \subseteq S, NEW lf \in [1 .. 184 -> S], NEW ads \in Seq(AdKinds),
           NEW p, NEW o \in Nat, NEW to, Behind(p, o, AdData(ads, lf)), NEW n \in Nat,
           Long(AdData(ads, lf), n, S), to = o + n
    PROVE  AdsLaid(p, ads, lf, o, to)
  <1> DEFINE ad == AdData(ads, lf)   a == AdsOf(ads, lf)   st == Starts(a)   l == Len(ads)
  <1>1. AdsMake(a, ads, lf, S)
    BY AdDataIs, Zenon
  <1>2. /\ a \in Seq(Seq(S)) /\ Len(a) = l /\ ad = FlattenSeq(a)
        /\ \A j \in 1 .. l : a[j] = Ad(ads[j], lf) /\ Len(a[j]) = AdLen(ads[j])
    BY <1>1 DEF AdsMake
  <1>3. Joined(FlattenSeq(a), a, st)
    BY <1>2, StartsAre, Zenon
  <1>4. l \in Nat /\ DOMAIN ads = 1 .. l /\ \A j \in 1 .. l : ads[j] \in AdKinds
    BY LenProperties, ElementOfSeq
  <1>5. \A j \in 1 .. l : AdLen(ads[j]) \in Nat
    BY <1>4 DEF AdKinds, AdLen
  <1>6. Len(ad) = n
    BY DEF Long
  <1> HIDE DEF ad, a, l
  <1>7. Joined(ad, a, st)
    BY <1>2, <1>3
  <1> HIDE DEF st
  <1>8. /\ st \in [1 .. l + 1 -> Nat] /\ st[1] = 0 /\ st[l + 1] = n
        /\ \A j \in 1 .. l : /\ st[j + 1] = st[j] + AdLen(ads[j]) /\ st[j + 1] <= n
                             /\ \A x \in 1 .. AdLen(ads[j]) : ad[st[j] + x] = a[j][x]
    BY <1>2, <1>6, <1>7 DEF Joined
  <1>9. \A x \in 1 .. n : p[o + x] = ad[x]
    BY <1>6 DEF Behind, ad
  <1>10. ASSUME NEW j \in 1 .. l
         PROVE  AdLaid(p, ads[j], lf, o + st[j], o + st[j + 1], to)
    <2> DEFINE b == st[j]   m == AdLen(ads[j])
    <2>1. /\ b \in Nat /\ m \in Nat /\ st[j + 1] = b + m /\ b + m <= n
          /\ \A x \in 1 .. m : ad[b + x] = a[j][x]
      <3>1. j \in 1 .. l + 1
        BY <1>4
      <3> QED
        BY <1>5, <1>8, <3>1
    <2> HIDE DEF b, m
    <2>2. \A x \in 1 .. m : b + x \in 1 .. n /\ (o + b) + x = o + (b + x)
      BY <2>1
    <2>3. \A x \in 1 .. m : p[(o + b) + x] = a[j][x]
      BY <1>9, <2>1, <2>2
    <2>4. a[j] = Ad(ads[j], lf) /\ Len(a[j]) = m
      BY <1>2 DEF m
    <2>5. Behind(p, o + b, Ad(ads[j], lf))
      BY <2>3, <2>4 DEF Behind
    <2>6. o + b \in Nat /\ o + st[j + 1] = (o + b) + m /\ o + st[j + 1] <= to
      BY <2>1
    <2> QED
      BY <1>4, <2>4, <2>5, <2>6 DEF AdLaid, b, m
  <1>11. o + st[1] = o /\ o + st[l + 1] = to
    BY <1>8
  <1> QED
    BY <1>4, <1>10, <1>11 DEF AdsLaid, AdOff, st, a, l

\* One report, from o to next.
ReportLaid(p, r, lf, o, next) ==
    /\ o \in Nat /\ next \in Nat /\ next >= o + 24 /\ next - (o + 24) \in 0 .. 255 /\ next <= Len(p)
    /\ \A k \in 1 .. 6 : p[o + 3 + k] = MacOf(r)[k]
    /\ p[o + 24] = next - (o + 24)
    /\ AdsLaid(p, r.ads, lf, o + 24, next)

PacketLaid(p, reports, lf) ==
    /\ Len(reports) \in 0 .. 255 /\ DOMAIN reports = 1 .. Len(reports) /\ Len(p) \in Nat /\ Len(p) >= 5
    /\ p[1] = 4 /\ p[2] = 62 /\ p[4] = 13 /\ p[5] = Len(reports)
    /\ Off(reports, lf, 1) = 5
    /\ \A k \in 1 .. Len(reports) :
         ReportLaid(p, reports[k], lf, Off(reports, lf, k), Off(reports, lf, k + 1))

LEMMA ReportIsLaid ==
    ASSUME NEW S, 0 .. 255 \subseteq S, NEW lf \in [1 .. 184 -> S], NEW r, r.ads \in Seq(AdKinds),
           NEW s, NEW n \in 0 .. 255, Long(AdData(r.ads, lf), n, S), LaidReport(s, r, AdData(r.ads, lf), S),
           NEW p, NEW o \in Nat, Behind(p, o, s), Len(p) \in Nat, o + Len(s) <= Len(p)
    PROVE  ReportLaid(p, r, lf, o, o + Len(s))
  <1> DEFINE ad == AdData(r.ads, lf)   next == o + (24 + n)
  <1>1. Len(ad) = n /\ Len(s) = 24 + n /\ n \in Nat
    BY DEF Long, LaidReport
  <1>2. \A x \in 1 .. 24 + n : p[o + x] = s[x]
    BY <1>1 DEF Behind
  <1>3. /\ \A k \in 1 .. 6 : s[3 + k] = MacOf(r)[k]
        /\ s[24] = n /\ \A x \in 1 .. n : s[24 + x] = ad[x]
    BY <1>1 DEF LaidReport, Follows
  <1>4. /\ \A k \in 1 .. 6 : 3 + k \in 1 .. 24 + n /\ o + 3 + k = o + (3 + k)
        /\ 24 \in 1 .. 24 + n
        /\ \A x \in 1 .. n : 24 + x \in 1 .. 24 + n /\ (o + 24) + x = o + (24 + x)
    BY <1>1
  <1> HIDE DEF ad
  <1>5. \A k \in 1 .. 6 : p[o + 3 + k] = MacOf(r)[k]
    BY <1>2, <1>3, <1>4
  <1>6. p[o + 24] = n
    BY <1>2, <1>3, <1>4
  <1>7. Behind(p, o + 24, ad)
    BY <1>1, <1>2, <1>3, <1>4 DEF Behind
  <1>8. o + 24 \in Nat /\ next = (o + 24) + n /\ next \in Nat /\ next >= o + 24 /\ next - (o + 24) = n
    BY <1>1
  <1>9. next <= Len(p) /\ o + Len(s) = next
    BY <1>1
  <1> HIDE DEF next
  <1>10. AdsLaid(p, r.ads, lf, o + 24, next)
    BY <1>1, <1>7, <1>8, AdsAreLaid, Zenon DEF ad
  <1>11. ReportLaid(p, r, lf, o, next)
    BY <1>5, <1>6, <1>8, <1>9, <1>10 DEF ReportLaid
  <1> QED
    BY <1>9, <1>11

LEMMA PacketIsLaid ==
    ASSUME NEW reports \in Shapes, NEW S, 0 .. 255 \subseteq S, NEW lf \in [1 .. 184 -> S]
    PROVE  PacketLaid(Packet(reports, lf), reports, lf)
  <1> DEFINE n == Len(reports)   seqs == ReportsOf(reports, lf)   body == FlattenSeq(seqs)
             st == Starts(seqs)   p == Packet(reports, lf)
  <1>1. /\ n \in 0 .. 255 /\ DOMAIN reports = 1 .. n
        /\ \A k \in 1 .. n : /\ reports[k].ads \in Seq(AdKinds)
                             /\ \E l \in 0 .. 255 : Long(AdData(reports[k].ads, lf), l, S)
    BY ShapeIs, ZenonT(60)
  <1>2. ReportsAre(seqs, reports, lf, S) /\ LaidPacket(p, body, n, S)
    BY PacketIs
  <1>3. /\ seqs \in Seq(Seq(S)) /\ Len(seqs) = n
        /\ \A k \in 1 .. n : LaidReport(seqs[k], reports[k], AdData(reports[k].ads, lf), S)
    BY <1>2 DEF ReportsAre
  <1> HIDE DEF n, p
  <1>4. Joined(body, seqs, st)
    BY <1>3, StartsAre, Zenon
  <1>5. \A k \in 1 .. n : Len(seqs[k]) \in Nat
    BY <1>3, ElementOfSeq, LenProperties
  <1> HIDE DEF seqs
  <1>6. body \in Seq(S) /\ Len(body) \in Nat
    BY <1>3, FlattenJoins, LenProperties
  <1> DEFINE l == Len(body)
  <1> HIDE DEF body, st
  <1>7. /\ st \in [1 .. n + 1 -> Nat] /\ st[1] = 0
        /\ \A k \in 1 .. n : /\ st[k + 1] = st[k] + Len(seqs[k]) /\ st[k + 1] <= l
                             /\ \A x \in 1 .. Len(seqs[k]) : body[st[k] + x] = seqs[k][x]
    BY <1>3, <1>4 DEF Joined
  <1>8. /\ Len(p) = 5 + l /\ l \in Nat
        /\ p[1] = 4 /\ p[2] = 62 /\ p[4] = 13 /\ p[5] = n
        /\ \A x \in 1 .. l : p[5 + x] = body[x]
    BY <1>2, <1>6 DEF LaidPacket, Long, Follows
  <1>8a. n \in Nat /\ Len(p) \in Nat
    <2>1. n \in Nat
      BY <1>1, ByteIsNat, Zenon
    <2>2. Len(p) = 5 + l /\ l \in Nat
      BY <1>8, Zenon
    <2> QED
      BY <2>1, <2>2
  <1> HIDE DEF l
  <1>9. ASSUME NEW k \in 1 .. n
        PROVE  ReportLaid(p, reports[k], lf, 5 + st[k], 5 + st[k + 1])
    <2> DEFINE b == st[k]   s == seqs[k]   m == Len(s)
    <2>1. b \in Nat /\ m \in Nat /\ st[k + 1] = b + m /\ b + m <= l
      <3>1. k \in 1 .. n + 1
        BY <1>8a
      <3>2. m \in Nat
        BY <1>5
      <3>3. b \in Nat
        BY <1>7, <3>1
      <3>4. st[k + 1] = b + m /\ st[k + 1] <= l
        BY <1>7
      <3> HIDE DEF b, m
      <3> QED
        BY <3>2, <3>3, <3>4
    <2>2. \A x \in 1 .. m : body[b + x] = s[x]
      BY <1>7
    <2> HIDE DEF b, m
    <2>3. \A x \in 1 .. m : b + x \in 1 .. l /\ (5 + b) + x = 5 + (b + x)
      BY <1>8, <2>1
    <2>4. \A x \in 1 .. m : p[(5 + b) + x] = s[x]
      <3>1. \A y \in 1 .. l : p[5 + y] = body[y]
        BY <1>8
      <3> QED
        BY <2>2, <2>3, <3>1
    <2>5. Behind(p, 5 + b, s)
      BY <2>4 DEF Behind, m
    <2>6. /\ 5 + b \in Nat /\ 5 + st[k + 1] = (5 + b) + m /\ Len(p) \in Nat
          /\ (5 + b) + m <= Len(p)
      BY <1>8, <2>1
    <2>7. PICK w \in 0 .. 255 : Long(AdData(reports[k].ads, lf), w, S)
      BY <1>1
    <2>8. LaidReport(s, reports[k], AdData(reports[k].ads, lf), S) /\ reports[k].ads \in Seq(AdKinds)
      BY <1>1, <1>3
    <2>9. /\ (5 + b) + Len(s) <= Len(p)
          /\ 5 + st[k + 1] = (5 + b) + Len(s)
      BY <2>6 DEF m
    <2> HIDE DEF s
    <2>10. ReportLaid(p, reports[k], lf, 5 + b, (5 + b) + Len(s))
      BY <2>5, <2>6, <2>7, <2>8, <2>9, ReportIsLaid, Zenon
    <2> QED
      BY <2>9, <2>10 DEF b
  <1>10. 5 + st[1] = 5 /\ Len(p) \in Nat /\ Len(p) >= 5
    BY <1>6, <1>7, <1>8
  <1> QED
    BY <1>1, <1>8, <1>9, <1>10 DEF PacketLaid, Off, n, st, seqs, p

\* What a structure's bytes are.
AdBytes(p, kind, lf, o, next) ==
    /\ kind = "frame" => /\ p[o + 1] = 185 /\ p[o + 2] = 255 /\ next = o + 186
                         /\ \A x \in 1 .. 184 : p[o + (2 + x)] = lf[x]
    /\ kind = "flags" => p[o + 1] = 2 /\ p[o + 2] = 1 /\ next = o + 3
    /\ kind = "short" => p[o + 1] = 2 /\ p[o + 2] = 255 /\ next = o + 3
    /\ kind = "foreign" => p[o + 1] = 4 /\ p[o + 2] = 255 /\ p[o + 3] = 76 /\ next = o + 5
    /\ kind = "end" => p[o + 1] = 0 /\ next = o + 1

LEMMA AdBytesAre ==
    ASSUME NEW S, 0 .. 255 \subseteq S, NEW lf \in [1 .. 184 -> S], NEW p, NEW kind, NEW o, NEW next, NEW to,
           AdLaid(p, kind, lf, o, next, to)
    PROVE  AdBytes(p, kind, lf, o, next)
  <1> DEFINE s == Ad(kind, lf)   m == AdLen(kind)
  <1>1. o \in Nat /\ next = o + m /\ \A x \in 1 .. m : p[o + x] = s[x]
    BY DEF AdLaid, Behind
  <1>2. CASE kind = "frame"
    <2> DEFINE h == <<185, 255>>
    <2>1. Len(lf) = 184
      BY FunctionIsSeq
    <2>2. Len(lf) + 1 = 185
      BY <2>1
    <2>3. s = h \o lf
      BY <1>2, <2>2 DEF Ad
    <2>4. h \in [1 .. 2 -> S] /\ Parts(186, 2, 184)
      BY DEF Parts
    <2>4a. h[1] = 185 /\ h[2] = 255
      OBVIOUS
    <2> HIDE DEF h
    <2> DEFINE q == h \o lf
    <2>5. Joins(q, 186, h, 2, lf, 184, S)
      BY <2>4, JoinProperties, Zenon
    <2> HIDE DEF q
    <2>6. q[1] = 185 /\ q[2] = 255 /\ \A x \in 1 .. 184 : q[2 + x] = lf[x]
      BY <2>4a, <2>5 DEF Joins
    <2>7. \A x \in 1 .. 186 : p[o + x] = q[x]
      BY <1>1, <1>2, <2>3 DEF AdLen, q
    <2>8. next = o + 186
      BY <1>1, <1>2 DEF AdLen
    <2>9. \A x \in 1 .. 184 : 2 + x \in 1 .. 186
      OBVIOUS
    <2>10. \A x \in 1 .. 184 : p[o + (2 + x)] = lf[x]
      <3> TAKE x \in 1 .. 184
      <3>1. 2 + x \in 1 .. 186
        BY <2>9, Zenon
      <3>2. p[o + (2 + x)] = q[2 + x]
        BY <2>7, <3>1, Zenon
      <3>3. q[2 + x] = lf[x]
        BY <2>6, Zenon
      <3> QED
        BY <3>2, <3>3, Zenon
    <2>11. p[o + 1] = 185 /\ p[o + 2] = 255
      BY <2>6, <2>7
    <2> QED
      BY <1>2, <2>8, <2>10, <2>11 DEF AdBytes
  <1>3. CASE kind = "flags"
    <2>1. s = <<2, 1, 6>> /\ m = 3
      BY <1>3 DEF Ad, AdLen
    <2> QED
      BY <1>1, <1>3, <2>1 DEF AdBytes
  <1>4. CASE kind = "short"
    <2>1. s = <<2, 255, 2>> /\ m = 3
      BY <1>4 DEF Ad, AdLen
    <2> QED
      BY <1>1, <1>4, <2>1 DEF AdBytes
  <1>5. CASE kind = "foreign"
    <2>1. s = <<4, 255, 76, 0, 7>> /\ m = 5
      BY <1>5 DEF Ad, AdLen
    <2> QED
      BY <1>1, <1>5, <2>1 DEF AdBytes
  <1>6. CASE kind = "end"
    <2>1. s = <<0>> /\ m = 1
      BY <1>6 DEF Ad, AdLen
    <2> QED
      BY <1>1, <1>6, <2>1 DEF AdBytes
  <1> QED
    BY <1>2, <1>3, <1>4, <1>5, <1>6 DEF AdLaid, AdKinds

----------------------------------------------------------------------------
(* The parser finds what is there.                                         *)

\* Reports and structures the parser goes over.
Passed(reports, k) == \A m \in 1 .. k - 1 : ~reports[m].node
PassedAds(ads, j) == \A m \in 1 .. j - 1 : ads[m] \in {"flags", "short"}

\* How the code decides: the first report of the node does, and in it the first manufacturer
\* data that has a company id (main.rs:741, 649).
Holds(reports) ==
    \E n \in DOMAIN reports :
      /\ reports[n].node /\ \A m \in 1 .. n - 1 : ~reports[m].node
      /\ LET ads == reports[n].ads
         IN  \E k \in DOMAIN ads :
               ads[k] = "frame" /\ \A j \in 1 .. k - 1 : ads[j] \in {"flags", "short"}

\* Before a report, before a structure of the node's first report, or at the end.
AtReport(reports, lf) ==
    \E k \in 1 .. Len(reports) + 1 :
      num_reports = Len(reports) + 1 - k /\ offset = Off(reports, lf, k) /\ Passed(reports, k)

AtAd(reports, lf) ==
    \E k \in 1 .. Len(reports) :
      /\ reports[k].node /\ Passed(reports, k)
      /\ ad_data.from = Off(reports, lf, k) + 24 /\ ad_data.to = Off(reports, lf, k + 1)
      /\ LET ads == reports[k].ads
         IN  \E j \in 1 .. Len(ads) + 1 : i = ad_data.from + AdOff(ads, lf, j) /\ PassedAds(ads, j)

AtEnd(reports, lf) ==
    IF Holds(reports) THEN found # NoFrame /\ found.mfr_id \o found.payload = lf ELSE found = NoFrame

ParserAt(reports, lf) ==
    /\ parse_pc = "report" => AtReport(reports, lf)
    /\ parse_pc = "ad" => AtAd(reports, lf)
    /\ parse_pc = "done" => AtEnd(reports, lf)

LEMMA HoldsIs ==
    ASSUME NEW reports, DOMAIN reports = 1 .. Len(reports), Len(reports) \in Nat,
           NEW k \in 1 .. Len(reports), reports[k].node, Passed(reports, k),
           NEW ads, ads = reports[k].ads, DOMAIN ads = 1 .. Len(ads), Len(ads) \in Nat,
           NEW j \in 1 .. Len(ads) + 1, PassedAds(ads, j)
    PROVE  /\ (j <= Len(ads) /\ ads[j] = "frame") => Holds(reports)
           /\ (j = Len(ads) + 1 \/ ads[j] \notin {"frame", "flags", "short"}) => ~Holds(reports)
  <1> DEFINE l == Len(ads)   n == Len(reports)
  <1>1. ASSUME j <= l, ads[j] = "frame" PROVE Holds(reports)
    <2>1. j \in DOMAIN ads /\ k \in DOMAIN reports
      BY <1>1
    <2> QED
      BY <1>1, <2>1 DEF Holds, Passed, PassedAds
  <1>2. ASSUME j = l + 1 \/ ads[j] \notin {"frame", "flags", "short"}, Holds(reports)
        PROVE  FALSE
    <2>1. PICK n_1 \in 1 .. n :
             /\ reports[n_1].node /\ \A m \in 1 .. n_1 - 1 : ~reports[m].node
             /\ \E k_1 \in DOMAIN reports[n_1].ads :
                  /\ reports[n_1].ads[k_1] = "frame"
                  /\ \A j_1 \in 1 .. k_1 - 1 : reports[n_1].ads[j_1] \in {"flags", "short"}
      BY <1>2 DEF Holds
    <2>2. n_1 = k
      <3>1. n_1 \in Int /\ k \in Int
        OBVIOUS
      <3>2. ~(n_1 < k)
        BY <2>1 DEF Passed
      <3>3. ~(k < n_1)
        BY <2>1
      <3> QED
        BY <3>1, <3>2, <3>3
    <2>3. PICK k_1 \in 1 .. l :
             ads[k_1] = "frame" /\ \A j_1 \in 1 .. k_1 - 1 : ads[j_1] \in {"flags", "short"}
      BY <2>1, <2>2
    <2>4. ~(k_1 < j)
      BY <2>3 DEF PassedAds
    <2>5. k_1 # j
      BY <1>2, <2>3
    <2>6. ~(j < k_1)
      BY <1>2, <2>3
    <2> QED
      BY <2>3, <2>4, <2>5, <2>6
  <1> QED
    BY <1>1, <1>2

LEMMA ReadIs ==
    ASSUME Len(pkt) \in Nat, NEW k \in Nat, k + 1 <= Len(pkt), pkt[k + 1] \in 0 .. 255
    PROVE  Read(k) = pkt[k + 1]
  <1>1. k + 1 \in 1 .. Len(pkt)
    OBVIOUS
  <1> QED
    BY <1>1 DEF Read, ReadOf

\* The head of a report reads as what it is.
LEMMA ReportReads ==
    ASSUME ParseInv, NEW r, NEW lf, NEW next, ReportLaid(pkt, r, lf, offset, next)
    PROVE  /\ report_end = next /\ Len(pkt) >= offset + 24 /\ Len(pkt) >= next
           /\ r.node => OfNode
           /\ ~r.node => ~OfNode
  <1> DEFINE n == next - (offset + 24)   mac == MacOf(r)   l == Len(pkt)
  <1>1. /\ offset \in Nat /\ next \in Nat /\ next >= offset + 24 /\ n \in 0 .. 255 /\ next <= l
        /\ \A k \in 1 .. 6 : pkt[offset + 3 + k] = mac[k]
        /\ pkt[offset + 24] = n
    BY DEF ReportLaid
  <1>2. l \in Nat
    BY LenProperties DEF ParseInv
  <1>3. mac \in [1 .. 6 -> 0 .. 255] /\ (~r.node => mac[1] # NodeMac[1]) /\ (r.node => mac = NodeMac)
    BY MacIs DEF MacOf
  <1> HIDE DEF mac
  <1>4. offset + 23 \in Nat /\ (offset + 23) + 1 = offset + 24 /\ offset + 24 <= l
    BY <1>1, <1>2
  <1>5. Read(offset + 23) = n
    BY <1>1, <1>2, <1>4, ReadIs
  <1>6. report_end = next
    <2> HIDE DEF n
    <2>1. report_end = offset + 24 + n
      BY <1>5 DEF report_end, data_length, REPORT_HDR
    <2> QED
      BY <1>1, <2>1 DEF n
  <1>7. ASSUME NEW k \in 0 .. 5 PROVE Read(offset + 3 + k) = mac[k + 1]
    <2>1. /\ offset + 3 + k \in Nat /\ (offset + 3 + k) + 1 = offset + 3 + (k + 1)
          /\ k + 1 \in 1 .. 6 /\ (offset + 3 + k) + 1 <= l
      BY <1>1, <1>2, SMTT(30)
    <2>2. pkt[(offset + 3 + k) + 1] = mac[k + 1] /\ mac[k + 1] \in 0 .. 255
      <3>1. mac[k + 1] \in 0 .. 255
        BY <1>3, <2>1
      <3>2. pkt[offset + 3 + (k + 1)] = mac[k + 1]
        BY <1>1, <2>1
      <3> QED
        BY <2>1, <3>1, <3>2
    <2> QED
      BY <1>2, <2>1, <2>2, ReadIs
  <1>8. r.node => OfNode
    BY <1>3, <1>7 DEF OfNode
  <1>9. ~r.node => ~OfNode
    <2>1. Read(offset + 3 + 0) = mac[1] /\ 0 \in 0 .. 5
      BY <1>7
    <2>2. OfNode => Read(offset + 3 + 0) = NodeMac[1]
      BY DEF OfNode
    <2> QED
      BY <1>3, <2>1, <2>2
  <1> QED
    BY <1>1, <1>4, <1>6, <1>8, <1>9

\* A structure of AD data reads as what it is.
LEMMA AdReads ==
    ASSUME ParseInv, parse_pc = "ad", NEW lf \in [1 .. 184 -> Int], lf[1] = 2, NEW kind, NEW next,
           AdLaid(pkt, kind, lf, i, next, ad_data.to)
    PROVE  /\ kind # "end" => WholeAd /\ ad_end = next
           /\ kind = "end" => ~WholeAd
           /\ kind \in {"flags", "short"} => ~Manufacturer
           /\ kind \in {"frame", "foreign"} => Manufacturer
           /\ kind = "frame" => Read(i + 2) = 2 /\ next = i + 186
           /\ kind = "foreign" => Read(i + 2) = 76
  <1> DEFINE l == Len(pkt)   to == ad_data.to
  <1>1. l \in Nat /\ i \in Nat /\ to \in Nat /\ to <= l
    BY LenProperties DEF ParseInv
  <1>2. kind \in AdKinds /\ next = i + AdLen(kind) /\ next <= to
    BY DEF AdLaid
  <1>3. AdBytes(pkt, kind, lf, i, next)
    <2>1. 0 .. 255 \subseteq Int
      OBVIOUS
    <2> QED
      BY <2>1, AdBytesAre, Zenon
  <1> HIDE DEF l, to
  <1>4. \A k \in Nat : (k + 1 <= l /\ pkt[k + 1] \in 0 .. 255) => Read(k) = pkt[k + 1]
    BY <1>1, ReadIs DEF l
  <1>5. i + 1 \in Nat /\ i + 2 \in Nat /\ (i + 1) + 1 = i + 2 /\ (i + 2) + 1 = i + 3
    BY <1>1
  <1>6. CASE kind = "frame"
    <2>1. /\ pkt[i + 1] = 185 /\ pkt[i + 2] = 255 /\ next = i + 186
          /\ \A x \in 1 .. 184 : pkt[i + (2 + x)] = lf[x]
      BY <1>3, <1>6 DEF AdBytes
    <2>2. pkt[i + 3] = 2
      <3>1. 1 \in 1 .. 184 /\ i + (2 + 1) = i + 3
        BY <1>1
      <3>2. pkt[i + (2 + 1)] = lf[1]
        BY <2>1, <3>1
      <3> QED
        BY <3>1, <3>2
    <2>3. i + 1 <= l /\ i + 2 <= l /\ i + 3 <= l /\ i < to
      BY <1>1, <1>2, <2>1
    <2>4. Read(i) = 185 /\ Read(i + 1) = 255 /\ Read(i + 2) = 2
      BY <1>1, <1>4, <1>5, <2>1, <2>2, <2>3
    <2>5. ad_length = 185 /\ ad_end = i + 186
      BY <1>1, <2>4 DEF ad_length, ad_end
    <2> QED
      BY <1>2, <1>6, <2>1, <2>3, <2>4, <2>5 DEF WholeAd, InAd, Manufacturer, to
  <1>7. CASE kind = "flags"
    <2>1. pkt[i + 1] = 2 /\ pkt[i + 2] = 1 /\ next = i + 3
      BY <1>3, <1>7 DEF AdBytes
    <2>2. i + 1 <= l /\ i + 2 <= l /\ i < to
      BY <1>1, <1>2, <2>1
    <2>3. Read(i) = 2 /\ Read(i + 1) = 1
      BY <1>1, <1>4, <1>5, <2>1, <2>2
    <2>4. ad_length = 2 /\ ad_end = i + 3
      BY <1>1, <2>3 DEF ad_length, ad_end
    <2> QED
      BY <1>2, <1>7, <2>1, <2>2, <2>3, <2>4 DEF WholeAd, InAd, Manufacturer, to
  <1>8. CASE kind = "short"
    <2>1. pkt[i + 1] = 2 /\ pkt[i + 2] = 255 /\ next = i + 3
      BY <1>3, <1>8 DEF AdBytes
    <2>2. i + 1 <= l /\ i + 2 <= l /\ i < to
      BY <1>1, <1>2, <2>1
    <2>3. Read(i) = 2 /\ Read(i + 1) = 255
      BY <1>1, <1>4, <1>5, <2>1, <2>2
    <2>4. ad_length = 2 /\ ad_end = i + 3
      BY <1>1, <2>3 DEF ad_length, ad_end
    <2> QED
      BY <1>2, <1>8, <2>1, <2>2, <2>3, <2>4 DEF WholeAd, InAd, Manufacturer, to
  <1>9. CASE kind = "foreign"
    <2>1. pkt[i + 1] = 4 /\ pkt[i + 2] = 255 /\ pkt[i + 3] = 76 /\ next = i + 5
      BY <1>3, <1>9 DEF AdBytes
    <2>2. i + 1 <= l /\ i + 2 <= l /\ i + 3 <= l /\ i < to
      BY <1>1, <1>2, <2>1
    <2>3. Read(i) = 4 /\ Read(i + 1) = 255 /\ Read(i + 2) = 76
      BY <1>1, <1>4, <1>5, <2>1, <2>2
    <2>4. ad_length = 4 /\ ad_end = i + 5
      BY <1>1, <2>3 DEF ad_length, ad_end
    <2> QED
      BY <1>2, <1>9, <2>1, <2>2, <2>3, <2>4 DEF WholeAd, InAd, Manufacturer, to
  <1>10. CASE kind = "end"
    <2>1. pkt[i + 1] = 0 /\ next = i + 1
      BY <1>3, <1>10 DEF AdBytes
    <2>2. i + 1 <= l
      BY <1>1, <1>2, <2>1
    <2>3. Read(i) = 0
      BY <1>1, <1>4, <2>1, <2>2
    <2>4. ad_length = 0
      BY <2>3 DEF ad_length
    <2> QED
      BY <1>10, <2>4 DEF WholeAd
  <1> QED
    BY <1>2, <1>6, <1>7, <1>8, <1>9, <1>10 DEF AdKinds

\* t is what stands in s behind the first o, n long.
CutOut(t, s, o, n) == t \in [1 .. n -> Int] /\ t \in Seq(Int) /\ Len(t) = n /\ \A x \in 1 .. n : t[x] = s[o + x]

LEMMA SliceIsCutOut ==
    ASSUME NEW s \in Seq(Int), NEW o \in Nat, NEW n \in Nat, o + n <= Len(s)
    PROVE  CutOut(SubSeq(s, o + 1, o + n), s, o, n)
  <1> DEFINE to == o + n   l == Len(s)   t == SubSeq(s, o + 1, to)
  <1>1. l \in Nat /\ to <= l
    BY LenProperties
  <1> HIDE DEF l
  <1>2. to \in o .. l /\ to - o = n
    BY <1>1
  <1> HIDE DEF to
  <1>3. /\ t \in Seq(Int) /\ Len(t) = to - o
        /\ \A x \in 1 .. to - o : t[x] = s[o + x]
    BY <1>2, SliceProperties DEF Slice, l
  <1> HIDE DEF t
  <1>4. t \in [1 .. Len(t) -> Int]
    BY <1>3, LenProperties
  <1>5. CutOut(t, s, o, n)
    BY <1>2, <1>3, <1>4 DEF CutOut
  <1> QED
    BY <1>5 DEF t, to

\* The frame behind the head of its structure is handed on in two parts.
LEMMA FrameCut ==
    ASSUME NEW p \in Seq(Int), NEW o \in Nat, o + 186 <= Len(p), NEW lf \in [1 .. 184 -> Int],
           \A x \in 1 .. 184 : p[o + (2 + x)] = lf[x]
    PROVE  HandedOn(SubSeq(p, o + 3, o + 4), SubSeq(p, o + 5, o + 186), lf)
  <1> DEFINE mfr == SubSeq(p, o + 3, o + 4)   payload == SubSeq(p, o + 5, o + 186)
  <1>1. CutOut(mfr, p, o + 2, 2)
    <2>1. o + 2 \in Nat /\ (o + 2) + 2 = o + 4 /\ (o + 2) + 1 = o + 3
      OBVIOUS
    <2>2. o + 4 <= Len(p)
      BY LenProperties
    <2> HIDE DEF CutOut
    <2>3. CutOut(SubSeq(p, (o + 2) + 1, (o + 2) + 2), p, o + 2, 2)
      BY <2>1, <2>2, SliceIsCutOut
    <2> QED
      BY <2>1, <2>3
  <1>2. CutOut(payload, p, o + 4, 182)
    <2>1. o + 4 \in Nat /\ (o + 4) + 182 = o + 186 /\ (o + 4) + 1 = o + 5
      OBVIOUS
    <2>2. 182 \in Nat /\ (o + 4) + 182 <= Len(p)
      BY <2>1
    <2> HIDE DEF CutOut
    <2>3. CutOut(SubSeq(p, (o + 4) + 1, (o + 4) + 182), p, o + 4, 182)
      BY <2>1, <2>2, SliceIsCutOut, ZenonT(60)
    <2> QED
      BY <2>1, <2>3
  <1>3. \A x \in 1 .. 2 : o + (2 + x) = (o + 2) + x
    OBVIOUS
  <1> HIDE DEF mfr, payload
  <1> DEFINE q == mfr \o payload
  <1>5. Joins(q, 184, mfr, 2, payload, 182, Int)
    <2>1. mfr \in [1 .. 2 -> Int] /\ payload \in [1 .. 182 -> Int] /\ Parts(184, 2, 182)
      <3>1. mfr \in [1 .. 2 -> Int]
        BY <1>1, Zenon DEF CutOut
      <3>2. payload \in [1 .. 182 -> Int]
        BY <1>2, Zenon DEF CutOut
      <3>3. Parts(184, 2, 182)
        BY DEF Parts
      <3> QED
        BY <3>1, <3>2, <3>3, Zenon
    <2> QED
      BY <2>1, JoinProperties, ZenonT(60)
  <1> HIDE DEF q
  <1>6. /\ q \in [1 .. 184 -> Int]
        /\ \A x \in 1 .. 2 : q[x] = mfr[x]
        /\ \A x \in 1 .. 182 : q[2 + x] = payload[x]
    BY <1>5 DEF Joins
  <1>7. ASSUME NEW x \in 1 .. 184 PROVE q[x] = lf[x]
    <2>1. p[o + (2 + x)] = lf[x]
      OBVIOUS
    <2>2. CASE x \in 1 .. 2
      <3>1. q[x] = mfr[x] /\ mfr[x] = p[(o + 2) + x]
        BY <1>1, <1>6, <2>2 DEF CutOut
      <3> QED
        BY <1>3, <2>1, <2>2, <3>1
    <2>3. CASE x \notin 1 .. 2
      <3>1. x - 2 \in 1 .. 182 /\ 2 + (x - 2) = x /\ (o + 4) + (x - 2) = o + (2 + x)
        BY <2>3
      <3>2. q[2 + (x - 2)] = payload[x - 2] /\ payload[x - 2] = p[(o + 4) + (x - 2)]
        BY <1>2, <1>6, <3>1 DEF CutOut
      <3> QED
        BY <2>1, <3>1, <3>2
    <2> QED
      BY <2>2, <2>3
  <1>8. q = lf
    <2>1. DOMAIN q = 1 .. 184 /\ DOMAIN lf = 1 .. 184 /\ q = [x \in 1 .. 184 |-> q[x]]
          /\ lf = [x \in 1 .. 184 |-> lf[x]]
      BY <1>6
    <2>2. [x \in 1 .. 184 |-> q[x]] = [x \in 1 .. 184 |-> lf[x]]
      BY <1>7, Zenon
    <2> QED
      BY <2>1, <2>2
  <1>9. HandedOn(mfr, payload, lf)
    BY <1>1, <1>2, <1>8 DEF CutOut, HandedOn, q
  <1> QED
    BY <1>9 DEF mfr, payload

\* The steps of the outer loop, over a packet that is whole.
LEMMA ParserAtReports ==
    ASSUME ParseInv, NEW reports, NEW lf, PacketLaid(pkt, reports, lf), ParserAt(reports, lf),
           no_more_reports \/ report_header_cut \/ report_data_cut \/ other_node \/ our_node
    PROVE  ParserAt(reports, lf)'
  <1> DEFINE n == Len(reports)   off(k) == Off(reports, lf, k)
  <1>1. n \in Nat /\ DOMAIN reports = 1 .. n /\ parse_pc = "report"
    <2>1. parse_pc = "report"
      BY DEF no_more_reports, report_header_cut, report_data_cut, other_node, our_node, InHeader
    <2>2. n \in 0 .. 255 /\ DOMAIN reports = 1 .. n
      BY Zenon DEF PacketLaid
    <2> QED
      BY <2>1, <2>2, ByteIsNat, Zenon
  <1>2. PICK k \in 1 .. n + 1 :
           num_reports = n + 1 - k /\ offset = off(k) /\ Passed(reports, k)
    BY <1>1 DEF ParserAt, AtReport
  <1>3. CASE no_more_reports
    <2>1. num_reports = 0 /\ parse_pc' = "done" /\ found' = NoFrame
      BY <1>3 DEF no_more_reports, Done
    <2>2. k = n + 1
      BY <1>1, <1>2, <2>1
    <2>3. \A m \in 1 .. n : ~reports[m].node
      BY <1>1, <1>2, <2>2 DEF Passed
    <2>4. ~Holds(reports)
      BY <1>1, <2>3 DEF Holds
    <2> QED
      BY <2>1, <2>4 DEF ParserAt, AtEnd
  <1>4. ASSUME num_reports > 0
        PROVE  /\ k \in 1 .. n
               /\ report_end = off(k + 1) /\ Len(pkt) >= offset + 24 /\ Len(pkt) >= report_end
               /\ OfNode <=> reports[k].node
               /\ AdsLaid(pkt, reports[k].ads, lf, offset + 24, off(k + 1))
    <2>1. k \in 1 .. n
      BY <1>1, <1>2, <1>4
    <2>2. ReportLaid(pkt, reports[k], lf, offset, off(k + 1))
      BY <1>2, <2>1 DEF PacketLaid
    <2> HIDE DEF off
    <2>3. AdsLaid(pkt, reports[k].ads, lf, offset + 24, off(k + 1))
      BY <2>2 DEF ReportLaid
    <2>4. /\ report_end = off(k + 1) /\ Len(pkt) >= offset + 24 /\ Len(pkt) >= off(k + 1)
          /\ reports[k].node => OfNode
          /\ ~reports[k].node => ~OfNode
      BY <2>2, ReportReads
    <2> QED
      BY <2>1, <2>3, <2>4
  <1>5. CASE report_header_cut \/ report_data_cut
    <2>1. num_reports > 0 /\ (Len(pkt) < offset + 24 \/ Len(pkt) < report_end)
      BY <1>5 DEF report_header_cut, report_data_cut, InHeader, REPORT_HDR
    <2>2. Len(pkt) \in Nat /\ offset \in Nat /\ report_end \in Nat
      BY LengthsAreBytes, LenProperties DEF ParseInv
    <2>3. Len(pkt) >= offset + 24 /\ Len(pkt) >= report_end
      BY <1>4, <2>1
    <2> DEFINE l == Len(pkt)
    <2>4. l \in Nat /\ (l < offset + 24 \/ l < report_end) /\ l >= offset + 24 /\ l >= report_end
      BY <2>1, <2>2, <2>3
    <2> HIDE DEF l
    <2> QED
      BY <2>2, <2>4
  <1>6. CASE other_node
    <2>1. /\ num_reports > 0 /\ ~OfNode
          /\ offset' = report_end /\ num_reports' = num_reports - 1 /\ parse_pc' = "report"
      BY <1>1, <1>6 DEF other_node, InHeader
    <2>2. k \in 1 .. n /\ report_end = off(k + 1) /\ ~reports[k].node
      BY <1>4, <2>1
    <2> HIDE DEF off
    <2>3. k + 1 \in 1 .. n + 1 /\ num_reports' = n + 1 - (k + 1)
      BY <1>1, <1>2, <2>1, <2>2
    <2>4. Passed(reports, k + 1)
      <3>1. ASSUME NEW m \in 1 .. (k + 1) - 1 PROVE ~reports[m].node
        <4>1. m = k \/ m \in 1 .. k - 1
          BY <2>2
        <4> QED
          BY <1>2, <2>2, <4>1 DEF Passed
      <3> QED
        BY <3>1 DEF Passed
    <2>5. AtReport(reports, lf)'
      BY <2>1, <2>2, <2>3, <2>4 DEF AtReport, off
    <2> QED
      BY <2>1, <2>5 DEF ParserAt
  <1>7. CASE our_node
    <2>1. /\ num_reports > 0 /\ OfNode /\ parse_pc' = "ad"
          /\ ad_data' = [from |-> offset + 24, to |-> report_end] /\ i' = offset + 24
      BY <1>7 DEF our_node, InHeader, REPORT_HDR
    <2>2. /\ k \in 1 .. n /\ report_end = off(k + 1) /\ reports[k].node
          /\ AdsLaid(pkt, reports[k].ads, lf, offset + 24, off(k + 1))
      BY <1>4, <2>1
    <2> DEFINE ads == reports[k].ads
    <2>3. Len(ads) \in Nat /\ (offset + 24) + AdOff(ads, lf, 1) = offset + 24
      BY <2>2 DEF AdsLaid
    <2>4. ad_data'.from = off(k) + 24 /\ ad_data'.to = off(k + 1)
      BY <1>2, <2>1, <2>2
    <2>5. i' = ad_data'.from + AdOff(ads, lf, 1)
      BY <2>1, <2>3
    <2>6. 1 \in 1 .. Len(ads) + 1 /\ PassedAds(ads, 1)
      BY <2>3 DEF PassedAds
    <2> HIDE DEF off
    <2>7. AtAd(reports, lf)'
      <3>1. reports[k].node /\ Passed(reports, k) /\ k \in 1 .. Len(reports)
        BY <1>2, <2>2
      <3> QED
        BY <2>4, <2>5, <2>6, <3>1 DEF AtAd, off
    <2> QED
      BY <2>1, <2>7 DEF ParserAt
  <1> QED
    BY <1>3, <1>5, <1>6, <1>7

\* The steps of the inner loop.
LEMMA ParserAtAds ==
    ASSUME ParseInv, NEW reports, NEW lf \in [1 .. 184 -> Int], lf[1] = 2,
           PacketLaid(pkt, reports, lf), ParserAt(reports, lf), ad_ends \/ next_ad \/ manufacturer_data
    PROVE  ParserAt(reports, lf)'
  <1> DEFINE n == Len(reports)
  <1>1. n \in Nat /\ DOMAIN reports = 1 .. n /\ parse_pc = "ad"
    <2>1. parse_pc = "ad"
      BY DEF ad_ends, next_ad, manufacturer_data, WholeAd, InAd
    <2>2. n \in 0 .. 255 /\ DOMAIN reports = 1 .. n
      BY DEF PacketLaid
    <2> QED
      BY <2>1, <2>2, ByteIsNat, Zenon
  <1>2. PICK k \in 1 .. n :
           /\ reports[k].node /\ Passed(reports, k)
           /\ ad_data.from = Off(reports, lf, k) + 24 /\ ad_data.to = Off(reports, lf, k + 1)
           /\ \E j \in 1 .. Len(reports[k].ads) + 1 :
                i = ad_data.from + AdOff(reports[k].ads, lf, j) /\ PassedAds(reports[k].ads, j)
    BY <1>1 DEF ParserAt, AtAd
  <1> DEFINE ads == reports[k].ads   l == Len(ads)   at(j) == ad_data.from + AdOff(ads, lf, j)
  <1>3. PICK j \in 1 .. l + 1 : i = at(j) /\ PassedAds(ads, j)
    BY <1>2
  <1>4. AdsLaid(pkt, ads, lf, ad_data.from, ad_data.to)
    <2>1. ReportLaid(pkt, reports[k], lf, Off(reports, lf, k), Off(reports, lf, k + 1))
      BY <1>1 DEF PacketLaid
    <2> QED
      BY <1>2, <2>1 DEF ReportLaid
  <1>5. l \in Nat /\ DOMAIN ads = 1 .. l /\ at(l + 1) = ad_data.to
    BY <1>4 DEF AdsLaid
  <1>6. \A m \in 1 .. l : AdLaid(pkt, ads[m], lf, at(m), at(m + 1), ad_data.to)
    BY <1>4 DEF AdsLaid
  <1>7. /\ (j <= l /\ ads[j] = "frame") => Holds(reports)
        /\ (j = l + 1 \/ ads[j] \notin {"frame", "flags", "short"}) => ~Holds(reports)
    BY <1>1, <1>2, <1>3, <1>5, HoldsIs
  <1> HIDE DEF at, l
  <1>8. CASE j = l + 1
    <2>1. i = ad_data.to /\ i \in Nat /\ ~InAd
      BY <1>3, <1>5, <1>8 DEF ParseInv, InAd
    <2>2. found' = NoFrame /\ parse_pc' = "done"
      BY <2>1 DEF ad_ends, next_ad, manufacturer_data, WholeAd, Done
    <2> QED
      BY <1>7, <1>8, <2>2 DEF ParserAt, AtEnd
  <1>9. CASE j # l + 1
    <2> DEFINE kind == ads[j]   next == at(j + 1)
    <2>1. j \in 1 .. l /\ AdLaid(pkt, kind, lf, i, next, ad_data.to)
      <3>1. j \in 1 .. l
        BY <1>3, <1>5, <1>9, NotLast, Zenon
      <3> QED
        BY <1>3, <1>6, <3>1
    <2>2. kind \in AdKinds /\ next <= ad_data.to
      BY <2>1 DEF AdLaid
    <2> HIDE DEF kind, next
    <2>3. /\ kind # "end" => WholeAd /\ ad_end = next
          /\ kind = "end" => ~WholeAd
          /\ kind \in {"flags", "short"} => ~Manufacturer
          /\ kind \in {"frame", "foreign"} => Manufacturer
          /\ kind = "frame" => Read(i + 2) = 2 /\ next = i + 186
          /\ kind = "foreign" => Read(i + 2) = 76
      BY <1>1, <2>1, AdReads
    <2>4. CASE kind = "end"
      <3>1. found' = NoFrame /\ parse_pc' = "done"
        BY <2>3, <2>4 DEF ad_ends, next_ad, manufacturer_data, Done
      <3> QED
        BY <1>7, <2>4, <3>1 DEF ParserAt, AtEnd, kind
    <2>5. CASE kind \in {"flags", "short"}
      <3>1. WholeAd /\ ~Manufacturer /\ ad_end = next /\ InAd /\ ~(i >= ad_data.to)
        <4>1. WholeAd /\ ~Manufacturer /\ ad_end = next /\ InAd /\ i < ad_data.to
          BY <2>3, <2>5 DEF WholeAd, InAd
        <4>2. i \in Nat /\ ad_data.to \in Nat
          BY DEF ParseInv
        <4>3. ~(i >= ad_data.to)
          <5>1. \A a, b \in Nat : a < b => ~(a >= b)
            OBVIOUS
          <5> QED
            BY <4>1, <4>2, <5>1, Zenon
        <4> QED
          BY <4>1, <4>3
      <3>2. next_ad
        <4>1. ~ad_ends /\ ~manufacturer_data
          BY <3>1 DEF ad_ends, manufacturer_data
        <4> QED
          BY <4>1
      <3>3. i' = next /\ parse_pc' = "ad" /\ ad_data' = ad_data
        BY <1>1, <3>1, <3>2 DEF next_ad
      <3>4. j + 1 \in 1 .. l + 1
        <4>1. j \in 1 .. l /\ l \in Nat
          BY <1>5, <2>1
        <4> QED
          BY <4>1
      <3>5. PassedAds(ads, j + 1)
        <4>1. ASSUME NEW m \in 1 .. (j + 1) - 1 PROVE ads[m] \in {"flags", "short"}
          <5>1. m = j \/ m \in 1 .. j - 1
            BY <2>1
          <5> QED
            BY <1>3, <2>5, <5>1 DEF PassedAds, kind
        <4> QED
          BY <4>1 DEF PassedAds
      <3>6. i' = ad_data'.from + AdOff(ads, lf, j + 1)
        BY <3>3 DEF next, at
      <3>7. AtAd(reports, lf)'
        BY <1>2, <3>3, <3>4, <3>5, <3>6 DEF AtAd, l
      <3> QED
        BY <3>3, <3>7 DEF ParserAt
    <2>6. CASE kind = "foreign"
      <3>1. WholeAd /\ Manufacturer /\ Read(i + 2) = 76
        BY <2>3, <2>6
      <3>2. manufacturer_data
        <4>1. ~(i >= ad_data.to)
          <5>1. i < ad_data.to /\ i \in Nat /\ ad_data.to \in Nat
            BY <3>1 DEF WholeAd, InAd, ParseInv
          <5>2. \A a, b \in Nat : a < b => ~(a >= b)
            OBVIOUS
          <5> QED
            BY <5>1, <5>2, Zenon
        <4>2. ~ad_ends /\ ~next_ad
          BY <3>1, <4>1 DEF ad_ends, next_ad
        <4> QED
          BY <4>2
      <3>3. found' = NoFrame /\ parse_pc' = "done"
        BY <3>1, <3>2 DEF manufacturer_data, Done
      <3> QED
        BY <1>7, <2>6, <3>3 DEF ParserAt, AtEnd, kind
    <2>7. CASE kind = "frame"
      <3> DEFINE mfr == SubSeq(pkt, i + 3, i + 4)   payload == SubSeq(pkt, i + 5, i + 186)
      <3>1. WholeAd /\ Manufacturer /\ Read(i + 2) = 2 /\ ad_end = i + 186
        BY <2>3, <2>7
      <3>2. manufacturer_data
        <4>1. ~(i >= ad_data.to)
          <5>1. i < ad_data.to /\ i \in Nat /\ ad_data.to \in Nat
            BY <3>1 DEF WholeAd, InAd, ParseInv
          <5>2. \A a, b \in Nat : a < b => ~(a >= b)
            OBVIOUS
          <5> QED
            BY <5>1, <5>2, Zenon
        <4>2. ~ad_ends /\ ~next_ad
          BY <3>1, <4>1 DEF ad_ends, next_ad
        <4> QED
          BY <4>2
      <3>3. found' = [mfr_id |-> mfr, payload |-> payload] /\ parse_pc' = "done"
        BY <3>1, <3>2 DEF manufacturer_data, Done
      <3>4. pkt \in Seq(Int) /\ i \in Nat /\ i + 186 <= Len(pkt)
        <4>1. i + 186 <= ad_data.to /\ ad_data.to <= Len(pkt) /\ i \in Nat /\ ad_data.to \in Nat
              /\ pkt \in Seq(Int) /\ Len(pkt) \in Nat
          BY <1>1, <2>2, <2>3, <2>7, LenProperties DEF ParseInv
        <4>2. \A a, b, c \in Nat : a <= b /\ b <= c => a <= c
          OBVIOUS
        <4>3. i + 186 \in Nat
          BY <4>1
        <4> QED
          BY <4>1, <4>2, <4>3, Zenon
      <3>5. \A x \in 1 .. 184 : pkt[i + (2 + x)] = lf[x]
        <4>1. 0 .. 255 \subseteq Int
          OBVIOUS
        <4>2. AdBytes(pkt, kind, lf, i, next)
          BY <2>1, <4>1, AdBytesAre, Zenon
        <4> QED
          BY <2>7, <4>2 DEF AdBytes
      <3>6. HandedOn(mfr, payload, lf)
        BY <3>4, <3>5, FrameCut
      <3> HIDE DEF mfr, payload
      <3>7. found'.mfr_id = mfr /\ found'.payload = payload
        BY <3>3
      <3>8. found' # NoFrame
        <4>1. Len(mfr) = 2
          BY <3>6 DEF HandedOn
        <4>2. Len(<<>>) = 0
          OBVIOUS
        <4>3. 2 # 0 /\ NoFrame.mfr_id = <<>>
          BY DEF NoFrame
        <4> QED
          BY <3>7, <4>1, <4>2, <4>3, Zenon
      <3>9. mfr \o payload = lf
        BY <3>6 DEF HandedOn
      <3>10. Holds(reports)
        BY <1>7, <2>1, <2>7 DEF kind
      <3>11. AtEnd(reports, lf)'
        BY <3>7, <3>8, <3>9, <3>10 DEF AtEnd
      <3> QED
        BY <3>3, <3>11 DEF ParserAt
    <2> QED
      BY <2>2, <2>4, <2>5, <2>6, <2>7 DEF AdKinds
  <1> QED
    BY <1>8, <1>9

\* What was received whole is the packet made of the frame, and the parser is at a place of
\* it that it can have come to.
WholeInv ==
    (parse_pc # "idle" /\ packet.whole) =>
      /\ packet.reports \in Shapes /\ packet.frame \in 1 .. Len(built)
      /\ pkt = Packet(packet.reports, Sent)
      /\ ParserAt(packet.reports, Sent)

\* Frames and their layout.
LEMMA SentIs ==
    ASSUME NodeInv, NEW f \in 1 .. Len(built), NEW reports \in Shapes
    PROVE  LET lf == lima_lf_t(f, built[f])
           IN  /\ lf \in [1 .. 184 -> Int] /\ lf[1] = 2
               /\ PacketLaid(Packet(reports, lf), reports, lf)
  <1> DEFINE lf == lima_lf_t(f, built[f])
  <1>1. f \in DOMAIN built /\ Frames(built)
    BY BuiltIs DEF NodeInv
  <1>2. lf \in [1 .. 184 -> Int] /\ built[f] \in Records
    BY <1>1, FrameOfNumbers, FrameOfBuilt, Zenon
  <1>3. lf[1] = 2
    <2>1. built[f].event_type \in 0 .. 255
      BY <1>1, FrameOfBuilt, Zenon
    <2>2. f \in Nat
      BY <1>1, FrameOfBuilt, Zenon
    <2>3. lf[1] = <<2, built[f].event_type, 0, 0>>[1]
      BY <2>1, <2>2, FrameLayout, SMTT(30)
    <2> QED
      BY <2>3
  <1> HIDE DEF lf
  <1>4. 0 .. 255 \subseteq Int
    OBVIOUS
  <1>5. PacketLaid(Packet(reports, lf), reports, lf)
    BY <1>2, <1>4, PacketIsLaid, Zenon
  <1> QED
    BY <1>2, <1>3, <1>5 DEF lf

LEMMA WholeStays ==
    ASSUME WholeInv, UNCHANGED <<packet, parsevars, built>>
    PROVE  WholeInv'
  BY DEF WholeInv, ParserAt, AtReport, AtAd, AtEnd, Sent, parsevars

\* The parser begins before the first report.
LEMMA WholeReceived ==
    ASSUME NodeInv, NEW f \in 1 .. Len(built), NEW reports \in Shapes, UNCHANGED built,
           parse(Packet(reports, lima_lf_t(f, built[f])), Worst), Received(f, reports, TRUE)
    PROVE  WholeInv'
  <1>0. PICK lf, p : lf = lima_lf_t(f, built[f]) /\ p = Packet(reports, lf)
    OBVIOUS
  <1>1. PacketLaid(p, reports, lf)
    BY <1>0, SentIs
  <1>2. parse(p, Worst) /\ packet' = [frame |-> f, reports |-> reports, whole |-> TRUE]
    BY <1>0 DEF Received
  <1>3. Sent' = lf
    BY <1>0, <1>2 DEF Sent
  <1>4. /\ Len(reports) \in 0 .. 255 /\ Len(p) \in Nat /\ Len(p) >= 5
        /\ p[1] = 4 /\ p[2] = 62 /\ p[4] = 13 /\ p[5] = Len(reports) /\ Off(reports, lf, 1) = 5
    BY <1>1 DEF PacketLaid
  <1>5. /\ ReadOf(p, Worst, 0) = 4 /\ ReadOf(p, Worst, 1) = 62 /\ ReadOf(p, Worst, 3) = 13
        /\ ReadOf(p, Worst, 4) = Len(reports)
    <2>1. 1 \in 1 .. Len(p) /\ 2 \in 1 .. Len(p) /\ 4 \in 1 .. Len(p) /\ 5 \in 1 .. Len(p)
      BY <1>4, SMTT(30)
    <2>2. 0 + 1 = 1 /\ 1 + 1 = 2 /\ 3 + 1 = 4 /\ 4 + 1 = 5
      OBVIOUS
    <2>3. ReadOf(p, Worst, 0) = p[1]
      <3>1. p[0 + 1] \in 0 .. 255 /\ 0 + 1 \in 1 .. Len(p)
        BY <1>4, <2>1, <2>2, SMTT(30)
      <3> QED
        BY <2>2, <3>1, Zenon DEF ReadOf
    <2>4. ReadOf(p, Worst, 1) = p[2]
      <3>1. p[1 + 1] \in 0 .. 255 /\ 1 + 1 \in 1 .. Len(p)
        BY <1>4, <2>1, <2>2, SMTT(30)
      <3> QED
        BY <2>2, <3>1, Zenon DEF ReadOf
    <2>5. ReadOf(p, Worst, 3) = p[4]
      <3>1. p[3 + 1] \in 0 .. 255 /\ 3 + 1 \in 1 .. Len(p)
        BY <1>4, <2>1, <2>2, SMTT(30)
      <3> QED
        BY <2>2, <3>1, Zenon DEF ReadOf
    <2>6. ReadOf(p, Worst, 4) = p[5]
      <3>1. p[5] \in 0 .. 255
        <4> DEFINE n == Len(reports)
        <4>1. n \in 0 .. 255 /\ p[5] = n
          BY <1>4
        <4> HIDE DEF n
        <4> QED
          BY <4>1
      <3>2. p[4 + 1] \in 0 .. 255 /\ 4 + 1 \in 1 .. Len(p)
        BY <2>1, <2>2, <3>1, Zenon
      <3> QED
        BY <2>2, <3>2, Zenon DEF ReadOf
    <2> QED
      BY <1>4, <2>3, <2>4, <2>5, <2>6
  <1>6. pkt' = p /\ offset' = 5 /\ parse_pc' = "report" /\ num_reports' = Len(reports)
    BY <1>2, <1>4, <1>5 DEF parse, HCI_EVENT_PKT, HCI_EVENT_CODE_LE_META, LE_EXT_ADV_REPORT_SUBEVENT
  <1>7. 1 \in 1 .. Len(reports) + 1 /\ Len(reports) = Len(reports) + 1 - 1 /\ Passed(reports, 1)
    BY <1>4, SMTT(30) DEF Passed
  <1>8. ParserAt(reports, lf)'
    <2>1. num_reports' = Len(reports) + 1 - 1 /\ offset' = Off(reports, lf, 1)
      BY <1>4, <1>6, <1>7
    <2>2. AtReport(reports, lf)'
      BY <1>7, <2>1, Zenon DEF AtReport
    <2> QED
      BY <1>6, <2>2 DEF ParserAt
  <1>9. /\ packet'.reports = reports /\ packet'.frame = f /\ f \in 1 .. Len(built')
    BY <1>2
  <1>10. pkt' = Packet(packet'.reports, Sent')
    BY <1>0, <1>3, <1>6, <1>9
  <1>11. ParserAt(packet.reports, Sent)'
    BY <1>3, <1>8, <1>9 DEF ParserAt, AtReport, AtAd, AtEnd
  <1> QED
    BY <1>9, <1>10, <1>11 DEF WholeInv

LEMMA WholeParsed ==
    ASSUME NodeInv, PacketInv, WholeInv, parse_step, UNCHANGED <<packet, built>>
    PROVE  WholeInv'
  <1> SUFFICES ASSUME packet.whole PROVE WholeInv'
    BY DEF WholeInv
  <1> DEFINE r == packet.reports
  <1>1. parse_pc # "idle"
    BY DEF parse_step, no_more_reports, report_header_cut, report_data_cut, other_node, our_node,
           ad_ends, next_ad, manufacturer_data, InHeader, WholeAd, InAd
  <1>2. /\ r \in Shapes /\ packet.frame \in 1 .. Len(built) /\ pkt = Packet(r, Sent)
        /\ ParserAt(r, Sent)
    BY <1>1 DEF WholeInv
  <1>3. Sent \in [1 .. 184 -> Int] /\ Sent[1] = 2 /\ PacketLaid(pkt, r, Sent)
    BY <1>2, SentIs DEF Sent
  <1>4. PICK reports, lf : reports = r /\ lf = Sent
    OBVIOUS
  <1>5. ParserAt(reports, lf)'
    <2>1. lf \in [1 .. 184 -> Int] /\ lf[1] = 2 /\ PacketLaid(pkt, reports, lf) /\ ParserAt(reports, lf)
      BY <1>2, <1>3, <1>4 DEF ParserAt, AtReport, AtAd, AtEnd
    <2>2. ParseInv
      BY DEF PacketInv
    <2>3. CASE no_more_reports \/ report_header_cut \/ report_data_cut \/ other_node \/ our_node
      BY <2>1, <2>2, <2>3, ParserAtReports
    <2>4. CASE ad_ends \/ next_ad \/ manufacturer_data
      BY <2>1, <2>2, <2>4, ParserAtAds
    <2> QED
      BY <2>3, <2>4 DEF parse_step
  <1>6. packet'.reports = reports /\ Sent' = lf /\ packet'.frame = packet.frame /\ built' = built
    BY <1>4 DEF Sent
  <1>7. pkt' = pkt
    BY DEF parse_step, no_more_reports, report_header_cut, report_data_cut, other_node, our_node,
           ad_ends, next_ad, manufacturer_data, Done
  <1>8. ParserAt(packet.reports, Sent)'
    BY <1>5, <1>6 DEF ParserAt, AtReport, AtAd, AtEnd
  <1>9. pkt' = Packet(packet'.reports, Sent')
    BY <1>2, <1>4, <1>6, <1>7
  <1> QED
    BY <1>2, <1>4, <1>6, <1>8, <1>9 DEF WholeInv

LEMMA WholeNext == PathInv /\ WholeInv /\ [PathNext]_pathvars => WholeInv'
  <1> SUFFICES ASSUME NodeInv, PacketInv, WholeInv, [PathNext]_pathvars PROVE WholeInv'
    BY DEF PathInv
  <1>1. CASE UNCHANGED pathvars
    BY <1>1, WholeStays DEF pathvars, node, radio
  <1>2. CASE node_step
    <2>1. UNCHANGED parsevars /\ parse_pc = "idle"
      BY <1>2 DEF node_step, power_on, power_loss, init_fails, provision_ecdsa_key, log_public_key,
                  provision_aes_key, log_psk, sign_event, Goto, Quiet
    <2> QED
      BY <2>1 DEF WholeInv, parsevars
  <1>3. CASE receive
    <2>1. PICK f \in 1 .. Len(built), reports \in Shapes :
             /\ parse(Packet(reports, lima_lf_t(f, built[f])), Worst)
             /\ Received(f, reports, TRUE)
      BY <1>3 DEF receive
    <2>2. f \in 1 .. Len(built) /\ UNCHANGED built
      BY <1>3, <2>1, BuiltIs DEF receive, node, PacketInv
    <2> QED
      BY <2>1, <2>2, WholeReceived
  <1>4. CASE receive_spoilt
    <2>1. packet'.whole = FALSE
      BY <1>4 DEF receive_spoilt, Received
    <2> QED
      BY <2>1 DEF WholeInv
  <1>5. CASE load_test_verifying_key \/ open \/ poll
    <2>1. UNCHANGED <<packet, parsevars, built>>
      BY <1>5 DEF load_test_verifying_key, open, poll, ClientSteps, node, radio
    <2> QED
      BY <2>1, WholeStays
  <1>6. CASE parsing
    <2>1. parse_step /\ UNCHANGED <<packet, built>>
      BY <1>6 DEF parsing, node, radio
    <2> QED
      BY <2>1, WholeParsed
  <1>7. CASE record \/ ignore
    <2>1. parse_pc' = "idle"
      BY <1>7 DEF record, ignore, taken
    <2> QED
      BY <2>1 DEF WholeInv
  <1> QED
    BY <1>1, <1>2, <1>3, <1>4, <1>5, <1>6, <1>7 DEF PathNext

\* Whole packets stay what they are while they are parsed, for every packet the shapes allow.
THEOREM PathWhole == PathSpec => [](PathInv /\ WholeInv)
  <1>1. PathInit => WholeInv
    BY DEF PathInit, ParseInit, WholeInv
  <1> QED
    BY <1>1, PathInductive, WholeNext, PTL DEF PathSpec

LEMMA WholeParsedIs ==
    ASSUME PathInv, WholeInv, Parsed
    PROVE  AtEnd(packet.reports, Sent) /\ packet.frame \in DOMAIN built
  <1>1. Parsed => parse_pc = "done" /\ packet.whole
    BY DEF Parsed
  <1>2. AtEnd(packet.reports, Sent) /\ packet.frame \in 1 .. Len(built)
    BY <1>1 DEF WholeInv, ParserAt
  <1> QED
    BY <1>2, BuiltIs DEF PathInv, NodeInv

\* Whether the code finds the frame is decided by the node's first report.  If none of the
\* node's reports matches it finds nothing, and if all do it finds the frame.
LEMMA FoundAsPromised ==
    ASSUME NEW reports, DOMAIN reports = 1 .. Len(reports), Len(reports) \in Nat
    PROVE  LET ours == OfNodeIn(reports)
               matching == {n \in ours : Matches(reports[n])}
           IN  /\ Holds(reports) => matching # {}
               /\ ours # {} /\ matching = ours => Holds(reports)
  <1> DEFINE ours == OfNodeIn(reports)   matching == {n \in ours : Matches(reports[n])}
  <1>1. ASSUME Holds(reports) PROVE matching # {}
    <2>1. PICK n \in DOMAIN reports :
            /\ reports[n].node
            /\ \E k \in DOMAIN reports[n].ads :
                 /\ reports[n].ads[k] = "frame"
                 /\ \A j \in 1 .. k - 1 : reports[n].ads[j] \in {"flags", "short"}
      BY <1>1 DEF Holds
    <2> QED
      BY <2>1 DEF Matches, OfNodeIn
  <1>2. ASSUME ours # {}, matching = ours PROVE Holds(reports)
    <2>1. ours \subseteq Nat /\ ours # {}
      BY <1>2 DEF OfNodeIn
    <2>2. PICK n \in ours : \A m \in ours : n <= m
      BY <2>1, LeastNat, Zenon
    <2>3. n \in DOMAIN reports /\ reports[n].node /\ Matches(reports[n]) /\ n \in 1 .. Len(reports)
      BY <1>2, <2>2 DEF OfNodeIn
    <2>4. ASSUME NEW m \in 1 .. n - 1 PROVE ~reports[m].node
      <3>1. m \in DOMAIN reports /\ ~(n <= m)
        BY <2>3, <2>4
      <3> QED
        BY <2>2, <3>1 DEF OfNodeIn
    <2> QED
      BY <2>3, <2>4 DEF Holds, Matches
  <1> QED
    BY <1>1, <1>2

\* parse_ext_adv_report() and parse_ad_manufacturer() give back nothing but frames that are
\* in a matching report of the node, unaltered, and give one back of every whole packet
\* whose reports of the node all match, wherever in the packet they stand.
THEOREM FrameIsFound == PathSpec => []ParserFindsFrame
  <1>1. PathInv /\ WholeInv => ParserFindsFrame
    <2> SUFFICES ASSUME PathInv, WholeInv, Parsed PROVE ParserFindsFrame
      BY DEF ParserFindsFrame
    <2>1. AtEnd(packet.reports, Sent)
      BY WholeParsedIs
    <2>2. DOMAIN packet.reports = 1 .. Len(packet.reports) /\ Len(packet.reports) \in Nat
      BY ShapeAssumption, LenProperties DEF Parsed, WholeInv
    <2> DEFINE ours == OfNodeIn(packet.reports)
               matching == {n \in ours : Matches(packet.reports[n])}
    <2>3. /\ Holds(packet.reports) => matching # {}
          /\ ours # {} /\ matching = ours => Holds(packet.reports)
      BY <2>2, FoundAsPromised
    <2>4. /\ found # NoFrame => matching # {} /\ found.mfr_id \o found.payload = Sent
          /\ ours # {} /\ matching = ours => found # NoFrame
      BY <2>1, <2>3, Zenon DEF AtEnd
    <2> QED
      BY <2>4 DEF ParserFindsFrame
  <1> QED
    BY <1>1, PathWhole, PTL

\* Three programs agree on the layout: whatever was signed, a whole packet's frame passes
\* verify_outer_sig(), what is stored of it opens with the node's key to the record that was
\* signed, and the screen shows the fingerprint of its signature.
THEOREM IntactCounts == PathSpec => []IntactFrameCounts
  <1>1. PathInv /\ WholeInv => IntactFrameCounts
    <2> SUFFICES ASSUME PathInv, WholeInv, Parsed, found # NoFrame
                 PROVE  /\ verify_outer_sig(built, found.mfr_id, found.payload, "node")
                        /\ decrypt_ler(built, found.payload, found.mfr_id[2], "node") = {built[packet.frame]}
                        /\ ui_row(found.payload).sig_fp = Slice(Sent, 120, 124)
      BY DEF IntactFrameCounts
    <2> DEFINE f == packet.frame   lf == lima_lf_t(f, built[f])   mfr == found.mfr_id
               payload == found.payload
    <2>1. found # NoFrame /\ mfr \o payload = lf /\ f \in DOMAIN built
      BY WholeParsedIs DEF AtEnd, Sent
    <2>2. Frames(built) /\ lf \in [1 .. 184 -> Int]
      BY <2>1, FrameOfNumbers, Zenon DEF PathInv, NodeInv
    <2>3. mfr \in [1 .. 2 -> Seen(packet.frame)] /\ payload \in Seq(Seen(packet.frame)) /\ packet.frame \in Nat
      BY <2>1, BuiltIs DEF PathInv, PacketInv
    <2>4. HandedOn(mfr, payload, lf)
      <3>1. Seen(packet.frame) \subseteq Int
        BY <2>3, SeenIs
      <3> DEFINE S == Seen(packet.frame)   m == mfr
      <3> HIDE DEF S, m
      <3>2. m \in [1 .. 2 -> S] /\ 2 \in Nat
        BY <2>3 DEF S, m
      <3>3. m \in Seq(S) /\ Len(m) = 2
        BY <3>2, FunctionIsSeq, Zenon
      <3>4. m \in Seq(Int) /\ payload \in Seq(Int)
        BY <2>3, <3>1, <3>3, SeqWidens, Zenon DEF S
      <3> QED
        BY <2>1, <3>3, <3>4 DEF HandedOn, m
    <2> HIDE DEF mfr, payload
    <2>5. verify_outer_sig(built, mfr, payload, "node")
      BY <2>1, <2>2, <2>4, FrameVerifies, Zenon
    <2>6. decrypt_ler(built, Slice(lf, 2, 184), lf[2], "node") = {built[f]}
      BY <2>1, <2>2, FrameDecrypts
    <2> HIDE DEF lf
    <2>6a. lf \in [1 .. 184 -> Int] /\ HandedOn(mfr, payload, lf)
      BY <2>2, <2>4 DEF lf
    <2>6b. PartsOf(mfr, payload, lf)
      BY <2>6a, HandedOnIs, Zenon
    <2>7. mfr[2] = lf[2] /\ payload = Slice(lf, 2, 184)
      BY <2>6b DEF PartsOf, Cut
    <2>8. ui_row(payload).sig_fp = Slice(lf, 120, 124)
      BY <2>2, <2>7, ScreenShowsSignature
    <2> QED
      BY <2>5, <2>6, <2>7, <2>8 DEF lf, mfr, payload, Sent
  <1> QED
    BY <1>1, PathWhole, PTL

=============================================================================
