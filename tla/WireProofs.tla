----------------------------- MODULE WireProofs -----------------------------
(***************************************************************************)
(* The layouts of Wire agree for every record and every frame number: what *)
(* the node lays out, each of the other programs reads back.               *)
(***************************************************************************)
EXTENDS Wire, SequenceTheorems, TLAPS

\* What a record holds: 32 bits for a number, four bytes for a reading.
Word == {v \in Nat : v \div 16777216 < 256}
Reading == [1 .. 4 -> 0 .. 255]
Records == [node_id : [1 .. 6 -> 0 .. 255], event_type : 0 .. 255, sequence : Word,
            timestamp_ms : Word, accel_g : Reading, delta_pa : Reading]

\* The numbers that may stand in frame f.
FrameBytes(f) == (0 .. 255) \cup {Secret(f, k) : k \in 0 .. 255}

----------------------------------------------------------------------------
(* Sequences.                                                              *)

LEMMA SliceProperties ==
    ASSUME NEW S, NEW s \in Seq(S), NEW from \in Nat, NEW to \in from .. Len(s)
    PROVE  /\ Slice(s, from, to) \in Seq(S) /\ Len(Slice(s, from, to)) = to - from
           /\ \A k \in 1 .. to - from : Slice(s, from, to)[k] = s[from + k]
  <1>1. \A k \in from + 1 .. to : s[k] \in S
    BY ElementOfSeq
  <1>2. /\ SubSeq(s, from + 1, to) \in Seq(S)
        /\ Len(SubSeq(s, from + 1, to)) = IF from + 1 <= to THEN to - (from + 1) + 1 ELSE 0
        /\ \A k \in 1 .. to - (from + 1) + 1 : SubSeq(s, from + 1, to)[k] = s[(from + 1) + k - 1]
    BY <1>1, SubSeqProperties
  <1> QED
    BY <1>2 DEF Slice

LEMMA FunctionIsSeq ==
    ASSUME NEW S, NEW n \in Nat, NEW s \in [1 .. n -> S]
    PROVE  s \in Seq(S) /\ Len(s) = n
  OBVIOUS

Long(s, n, S) == s \in Seq(S) /\ Len(s) = n

LEMMA FunctionIsLong ==
    ASSUME NEW S, NEW n \in Nat, NEW s \in [1 .. n -> S]
    PROVE  Long(s, n, S)
  BY FunctionIsSeq DEF Long

LEMMA FunctionWidens ==
    ASSUME NEW S, NEW T, S \subseteq T, NEW n, NEW s \in [1 .. n -> S]
    PROVE  s \in [1 .. n -> T]
  OBVIOUS

\* l bytes are m bytes and n more.
Parts(l, m, n) == l \in Nat /\ m \in Nat /\ n \in Nat /\ l = m + n

Joins(u, l, s, m, t, n, S) ==
    /\ u \in [1 .. l -> S]
    /\ \A k \in 1 .. m : u[k] = s[k]
    /\ \A k \in 1 .. n : u[m + k] = t[k]

LEMMA JoinProperties ==
    ASSUME NEW S, NEW l, NEW m, NEW n, Parts(l, m, n),
           NEW s \in [1 .. m -> S], NEW t \in [1 .. n -> S]
    PROVE  Joins(s \o t, l, s, m, t, n, S)
  <1> USE DEF Parts
  <1> DEFINE st == s \o t
  <1>1. s \in Seq(S) /\ t \in Seq(S) /\ Len(s) = m /\ Len(t) = n
    BY FunctionIsSeq
  <1>2. /\ st \in Seq(S) /\ Len(st) = l
        /\ \A k \in 1 .. l : st[k] = IF k <= m THEN s[k] ELSE t[k - m]
    BY <1>1, ConcatProperties
  <1> HIDE DEF st
  <1>3. st \in [1 .. l -> S]
    BY <1>2, LenProperties
  <1>4. \A k \in 1 .. m : st[k] = s[k]
    BY <1>2
  <1>5. \A k \in 1 .. n : st[m + k] = t[k]
    <2> SUFFICES ASSUME NEW k \in 1 .. n PROVE st[m + k] = t[k]
      OBVIOUS
    <2>1. m + k \in 1 .. l /\ ~(m + k <= m) /\ (m + k) - m = k
      OBVIOUS
    <2> QED
      BY <1>2, <2>1
  <1> QED
    BY <1>3, <1>4, <1>5 DEF st, Joins

\* The n bytes of t stand in s behind the first m.
Stands(t, n, s, m) == \A k \in 1 .. n : s[m + k] = t[k]

Cut(t, s, from, to) == Slice(s, from, to) = t

\* From one offset to another are n of l bytes.
Inside(from, to, n, l) == l \in Nat /\ n \in Nat /\ from \in Nat /\ to = from + n /\ to <= l

\* A slice is known by its length and its bytes.
LEMMA SliceIs ==
    ASSUME NEW S, NEW l, NEW from, NEW to, NEW n, Inside(from, to, n, l),
           NEW s \in [1 .. l -> S], NEW t \in [1 .. n -> S], Stands(t, n, s, from)
    PROVE  Cut(t, s, from, to)
  <1> USE DEF Inside, Stands
  <1> DEFINE u == Slice(s, from, to)
  <1>1. s \in Seq(S) /\ Len(s) = l /\ t \in Seq(S) /\ Len(t) = n
    BY FunctionIsSeq
  <1>2. u \in Seq(S) /\ Len(u) = n /\ \A k \in 1 .. n : u[k] = s[from + k]
    <2>1. to - from = n /\ to \in from .. Len(s)
      BY <1>1
    <2>2. u \in Seq(S) /\ Len(u) = to - from
      BY <1>1, <2>1, SliceProperties, ZenonT(60)
    <2>3. \A k \in 1 .. to - from : u[k] = s[from + k]
      <3>1. s \in Seq(S) /\ from \in Nat /\ to \in from .. Len(s)
        BY <1>1, <2>1
      <3> HIDE DEF Inside
      <3> QED
        BY <3>1, SliceProperties
    <2> HIDE DEF u
    <2> QED
      BY <2>1, <2>2, <2>3
  <1> HIDE DEF u
  <1>3. \A k \in 1 .. Len(u) : u[k] = t[k]
    BY <1>2
  <1>4. u = t
    BY <1>1, <1>2, <1>3, SeqEqual
  <1> QED
    BY <1>4 DEF u, Cut

\* A piece of s, in its place, that covers byte k.
Piece(p, s) == p.at \in Nat /\ Len(p.bytes) \in Nat /\ Stands(p.bytes, Len(p.bytes), s, p.at)
Covers(p, k) == k - 1 \in p.at .. p.at + Len(p.bytes) - 1

\* Pieces of s that cover every byte of it, and the buffer they make.
PiecesOf(pieces, s, len) ==
    /\ \A p \in pieces : Piece(p, s)
    /\ \A k \in 1 .. len : \E p \in pieces : Covers(p, k)

Make(pieces, s, len) == Buffer(len, pieces) = s

LEMMA BufferIs ==
    ASSUME NEW S, NEW len \in Nat, NEW s \in [1 .. len -> S], NEW pieces, PiecesOf(pieces, s, len)
    PROVE  Make(pieces, s, len)
  <1> USE DEF PiecesOf
  <1> DEFINE here(k) == {p \in pieces : k - 1 \in p.at .. p.at + Len(p.bytes) - 1}
             piece(k) == CHOOSE p \in here(k) : TRUE
             value(k) == IF here(k) = {} THEN 0 ELSE Byte(piece(k).bytes, k - 1 - piece(k).at)
  <1>1. ASSUME NEW k \in 1 .. len PROVE value(k) = s[k]
    <2>1. PICK q \in pieces : Covers(q, k)
      OBVIOUS
    <2>2. q \in here(k)
      BY <2>1 DEF Covers
    <2>3. piece(k) \in here(k)
      BY <2>2
    <2>4. value(k) = Byte(piece(k).bytes, k - 1 - piece(k).at)
      BY <2>2
    <2> DEFINE p == piece(k)
    <2>5. p \in pieces /\ k - 1 \in p.at .. p.at + Len(p.bytes) - 1
      BY <2>3
    <2> HIDE DEF p
    <2>6. Piece(p, s)
      BY <2>5
    <2>7. k - p.at \in 1 .. Len(p.bytes) /\ p.at + (k - p.at) = k
      BY <2>5, <2>6 DEF Piece
    <2>8. s[p.at + (k - p.at)] = p.bytes[k - p.at]
      BY <2>6, <2>7, Zenon DEF Piece, Stands
    <2>9. (k - 1 - p.at) + 1 = k - p.at
      BY <2>6 DEF Piece
    <2>10. Byte(p.bytes, k - 1 - p.at) = p.bytes[k - p.at]
      BY <2>9, Zenon DEF Byte
    <2> QED
      BY <2>4, <2>7, <2>8, <2>10, Zenon DEF p
  <1>2. Buffer(len, pieces) = [k \in 1 .. len |-> value(k)]
    BY Zenon DEF Buffer
  <1> HIDE DEF value
  <1>3. [k \in 1 .. len |-> value(k)] = [k \in 1 .. len |-> s[k]]
    BY <1>1
  <1> QED
    BY <1>2, <1>3 DEF Make

\* n bytes in their place, behind the first at.
Placed(p, s, at, n) == Piece(p, s) /\ p.at = at /\ Len(p.bytes) = n

LEMMA PieceIsPlaced ==
    ASSUME NEW S, NEW at \in Nat, NEW n \in Nat, NEW bytes \in [1 .. n -> S], NEW s, Stands(bytes, n, s, at)
    PROVE  Placed(At(at, bytes), s, at, n)
  <1> DEFINE p == At(at, bytes)
  <1>1. Len(bytes) = n
    BY FunctionIsSeq
  <1>2. p.at = at /\ p.bytes = bytes
    BY DEF At
  <1> HIDE DEF p
  <1>3. Len(p.bytes) = n /\ Stands(p.bytes, Len(p.bytes), s, p.at)
    BY <1>1, <1>2
  <1> QED
    BY <1>2, <1>3 DEF Placed, Piece, p

\* What is cut out of s is a piece of it.
LEMMA SliceIsPlaced ==
    ASSUME NEW S, NEW len, NEW from, NEW to, NEW n, Inside(from, to, n, len), NEW s \in [1 .. len -> S]
    PROVE  Placed(At(from, Slice(s, from, to)), s, from, n)
  <1>0. len \in Nat /\ from \in Nat /\ to \in from .. len
    BY DEF Inside
  <1> DEFINE u == Slice(s, from, to)
  <1>1. s \in Seq(S) /\ to \in from .. Len(s)
    BY <1>0, FunctionIsSeq
  <1>2. /\ u \in Seq(S) /\ Len(u) = to - from
        /\ \A k \in 1 .. to - from : u[k] = s[from + k]
    BY <1>0, <1>1, SliceProperties
  <1>3. n \in Nat /\ to - from = n
    BY DEF Inside
  <1> HIDE DEF u
  <1>4. u \in [1 .. n -> S] /\ Stands(u, n, s, from)
    BY <1>2, <1>3, LenProperties DEF Stands
  <1> QED
    BY <1>0, <1>3, <1>4, PieceIsPlaced, Zenon DEF u

----------------------------------------------------------------------------
(* Numbers.                                                                *)

LEMMA LittleEndian ==
    ASSUME NEW v \in Word
    PROVE  /\ to_le_bytes(v) \in [1 .. 4 -> 0 .. 255]
           /\ from_le_bytes(to_le_bytes(v)) = v
  <1>1. v \in Nat /\ v \div 16777216 < 256
    BY DEF Word
  <1> DEFINE a == v \div 256   b == v \div 65536   c == v \div 16777216
  <1>2. a \in Nat /\ b \in Nat /\ c \in Nat /\ b = a \div 256 /\ c = b \div 256
    BY <1>1
  <1>3. v = 256 * a + (v % 256) /\ a = 256 * b + (a % 256) /\ b = 256 * c + (b % 256) /\ c % 256 = c
    BY <1>1, <1>2
  <1>4. v % 256 \in 0 .. 255 /\ a % 256 \in 0 .. 255 /\ b % 256 \in 0 .. 255 /\ c \in 0 .. 255
    BY <1>1, <1>2
  <1>5. to_le_bytes(v) = <<v % 256, a % 256, b % 256, c % 256>>
    BY DEF to_le_bytes
  <1> HIDE DEF a, b, c
  <1>6. to_le_bytes(v) \in [1 .. 4 -> 0 .. 255]
    BY <1>3, <1>4, <1>5
  <1>7. from_le_bytes(to_le_bytes(v)) = (v % 256) + 256 * (a % 256) + 65536 * (b % 256) + 16777216 * c
    BY <1>3, <1>5 DEF from_le_bytes
  <1>8. (v % 256) + 256 * (a % 256) + 65536 * (b % 256) + 16777216 * c = v
    BY <1>1, <1>2, <1>3, <1>4
  <1> QED
    BY <1>6, <1>7, <1>8

\* Behind the first m bytes of a frame, those that follow go on to byte l.
LEMMA SecretsGoOn ==
    ASSUME NEW f \in Nat, NEW m \in 0 .. 256, NEW l \in m .. 256, NEW s \in [1 .. m -> FrameBytes(f)]
    PROVE  /\ s \o Secrets(f, m, l) \in [1 .. l -> FrameBytes(f)]
           /\ \A k \in 1 .. l : (s \o Secrets(f, m, l))[k] = IF k <= m THEN s[k] ELSE Secret(f, k - 1)
  <1> DEFINE t == Secrets(f, m, l)   S == FrameBytes(f)
  <1>1. \A k \in 1 .. l - m : m + k - 1 \in 0 .. 255
    OBVIOUS
  <1>2. \A k \in 1 .. l - m : Secret(f, m + k - 1) \in S
    BY <1>1, ZenonT(60) DEF FrameBytes
  <1>3. t \in [1 .. l - m -> S] /\ \A k \in 1 .. l - m : t[k] = Secret(f, m + k - 1)
    BY <1>2, Zenon DEF Secrets
  <1> HIDE DEF t, S
  <1>4. s \in Seq(S) /\ t \in Seq(S) /\ Len(s) = m /\ Len(t) = l - m
    BY <1>3, FunctionIsSeq DEF S
  <1>5. /\ s \o t \in Seq(S) /\ Len(s \o t) = l
        /\ \A k \in 1 .. l : (s \o t)[k] = IF k <= m THEN s[k] ELSE t[k - m]
    BY <1>4, ConcatProperties
  <1>6. s \o t \in [1 .. l -> S]
    BY <1>5, LenProperties
  <1>7. \A k \in 1 .. l : k > m => t[k - m] = Secret(f, k - 1)
    BY <1>3 DEF Secret
  <1>8. \A k \in 1 .. l : (s \o t)[k] = IF k <= m THEN s[k] ELSE Secret(f, k - 1)
    <2> SUFFICES ASSUME NEW k \in 1 .. l
                 PROVE  (s \o t)[k] = IF k <= m THEN s[k] ELSE Secret(f, k - 1)
      OBVIOUS
    <2>1. (s \o t)[k] = IF k <= m THEN s[k] ELSE t[k - m]
      BY <1>5, Zenon
    <2>2. k > m \/ k <= m
      OBVIOUS
    <2> HIDE DEF t
    <2> QED
      BY <1>7, <2>1, <2>2
  <1> QED
    BY <1>6, <1>8, Zenon DEF S, t

----------------------------------------------------------------------------
(* The frame and the record as the node lays them out.                     *)

\* 184 bytes, of which all but the first four belong to this frame alone.
LEMMA FrameLayout ==
    ASSUME NEW f \in Nat, NEW ler, ler.event_type \in 0 .. 255
    PROVE  /\ lima_lf_t(f, ler) \in [1 .. 184 -> FrameBytes(f)]
           /\ \A k \in 1 .. 184 :
                lima_lf_t(f, ler)[k] = IF k <= 4 THEN <<2, ler.event_type, 0, 0>>[k] ELSE Secret(f, k - 1)
  <1> DEFINE S == FrameBytes(f)
             h == <<2, ler.event_type, 0, 0>>
             n == h \o Secrets(f, 4, 16)
             c == n \o Secrets(f, 16, 104)
             t == c \o Secrets(f, 104, 120)
             o == t \o Secrets(f, 120, 184)
  <1>1. lima_lf_t(f, ler) = o
    BY DEF lima_lf_t, LIMA_LF_HEADER_LEN, LIMA_LF_NONCE_LEN, LIMA_LF_CIPHERTEXT_LEN, LIMA_LF_TAG_LEN,
           LIMA_LF_OUTER_SIG_LEN
  <1>2. h \in [1 .. 4 -> S]
    BY DEF FrameBytes
  <1> HIDE DEF h, S
  <1>3. n \in [1 .. 16 -> S] /\ \A k \in 1 .. 16 : n[k] = IF k <= 4 THEN h[k] ELSE Secret(f, k - 1)
    <2>1. 4 \in 0 .. 256 /\ 16 \in 4 .. 256
      OBVIOUS
    <2> QED
      BY <1>2, <2>1, SecretsGoOn, Zenon DEF S
  <1> HIDE DEF n
  <1>4. c \in [1 .. 104 -> S] /\ \A k \in 1 .. 104 : c[k] = IF k <= 16 THEN n[k] ELSE Secret(f, k - 1)
    <2>1. 16 \in 0 .. 256 /\ 104 \in 16 .. 256
      OBVIOUS
    <2> QED
      BY <1>3, <2>1, SecretsGoOn, Zenon DEF S
  <1> HIDE DEF c
  <1>5. t \in [1 .. 120 -> S] /\ \A k \in 1 .. 120 : t[k] = IF k <= 104 THEN c[k] ELSE Secret(f, k - 1)
    <2>1. 104 \in 0 .. 256 /\ 120 \in 104 .. 256
      OBVIOUS
    <2> QED
      BY <1>4, <2>1, SecretsGoOn, ZenonT(60) DEF S
  <1> HIDE DEF t
  <1>6. o \in [1 .. 184 -> S] /\ \A k \in 1 .. 184 : o[k] = IF k <= 120 THEN t[k] ELSE Secret(f, k - 1)
    <2>1. 120 \in 0 .. 256 /\ 184 \in 120 .. 256
      OBVIOUS
    <2> QED
      BY <1>5, <2>1, SecretsGoOn, ZenonT(60) DEF S
  <1> HIDE DEF o
  <1>7. \A k \in 1 .. 184 : o[k] = IF k <= 4 THEN h[k] ELSE Secret(f, k - 1)
    BY <1>3, <1>4, <1>5, <1>6
  <1> QED
    BY <1>1, <1>6, <1>7 DEF h, S

LEMMA RecordLayout ==
    ASSUME NEW ler \in Records
    PROVE  LET b == lima_ler_t(ler)
           IN  /\ b \in [1 .. 24 -> 0 .. 255]
               /\ \A k \in 1 .. 6 : b[k] = ler.node_id[k]
               /\ b[7] = ler.event_type /\ b[8] = 0
               /\ \A k \in 1 .. 4 : /\ b[8 + k] = to_le_bytes(ler.sequence)[k]
                                   /\ b[12 + k] = to_le_bytes(ler.timestamp_ms)[k]
                                   /\ b[16 + k] = ler.accel_g[k]
                                   /\ b[20 + k] = ler.delta_pa[k]
  <1> DEFINE S == 0 .. 255
             id == ler.node_id
             et == <<ler.event_type, 0>>
             sq == to_le_bytes(ler.sequence)
             ts == to_le_bytes(ler.timestamp_ms)
             b8 == id \o et   b12 == b8 \o sq   b16 == b12 \o ts
             b20 == b16 \o ler.accel_g   b24 == b20 \o ler.delta_pa
  <1>1. /\ id \in [1 .. 6 -> S] /\ ler.event_type \in S /\ ler.sequence \in Word
        /\ ler.timestamp_ms \in Word /\ ler.accel_g \in [1 .. 4 -> S] /\ ler.delta_pa \in [1 .. 4 -> S]
    BY DEF Records, Reading
  <1>2. et \in [1 .. 2 -> S] /\ et[1] = ler.event_type /\ et[2] = 0
    BY <1>1
  <1>3. sq \in [1 .. 4 -> S] /\ ts \in [1 .. 4 -> S]
    BY <1>1, LittleEndian
  <1>4. lima_ler_t(ler) = b24
    BY DEF lima_ler_t
  <1>5. Parts(8, 6, 2) /\ Parts(12, 8, 4) /\ Parts(16, 12, 4) /\ Parts(20, 16, 4) /\ Parts(24, 20, 4)
    BY DEF Parts
  <1> HIDE DEF S, id, et, sq, ts
  <1>6. /\ b8 \in [1 .. 8 -> S] /\ \A k \in 1 .. 6 : b8[k] = id[k]
        /\ \A k \in 1 .. 2 : b8[6 + k] = et[k]
    <2>1. Joins(b8, 8, id, 6, et, 2, S)
      BY <1>1, <1>2, <1>5, JoinProperties, Zenon
    <2> QED
      BY <2>1, Zenon DEF Joins
  <1> HIDE DEF b8
  <1>7. /\ b12 \in [1 .. 12 -> S] /\ \A k \in 1 .. 8 : b12[k] = b8[k]
        /\ \A k \in 1 .. 4 : b12[8 + k] = sq[k]
    <2>1. Joins(b12, 12, b8, 8, sq, 4, S)
      BY <1>6, <1>3, <1>5, JoinProperties, Zenon
    <2> QED
      BY <2>1, Zenon DEF Joins
  <1> HIDE DEF b12
  <1>8. /\ b16 \in [1 .. 16 -> S] /\ \A k \in 1 .. 12 : b16[k] = b12[k]
        /\ \A k \in 1 .. 4 : b16[12 + k] = ts[k]
    <2>1. Joins(b16, 16, b12, 12, ts, 4, S)
      BY <1>7, <1>3, <1>5, JoinProperties, Zenon
    <2> QED
      BY <2>1, Zenon DEF Joins
  <1> HIDE DEF b16
  <1>9. /\ b20 \in [1 .. 20 -> S] /\ \A k \in 1 .. 16 : b20[k] = b16[k]
        /\ \A k \in 1 .. 4 : b20[16 + k] = ler.accel_g[k]
    <2>1. Joins(b20, 20, b16, 16, ler.accel_g, 4, S)
      BY <1>8, <1>1, <1>5, JoinProperties, Zenon
    <2> QED
      BY <2>1, Zenon DEF Joins
  <1> HIDE DEF b20
  <1>10. /\ b24 \in [1 .. 24 -> S] /\ \A k \in 1 .. 20 : b24[k] = b20[k]
         /\ \A k \in 1 .. 4 : b24[20 + k] = ler.delta_pa[k]
    <2>1. Joins(b24, 24, b20, 20, ler.delta_pa, 4, S)
      BY <1>9, <1>1, <1>5, JoinProperties, Zenon
    <2> QED
      BY <2>1, Zenon DEF Joins
  <1> HIDE DEF b24
  <1>11. \A k \in 1 .. 6 : b24[k] = id[k]
    BY <1>6, <1>7, <1>8, <1>9, <1>10
  <1>12. b24[7] = et[1] /\ b24[8] = et[2]
    BY <1>6, <1>7, <1>8, <1>9, <1>10
  <1>13. \A k \in 1 .. 4 : /\ b24[8 + k] = sq[k] /\ b24[12 + k] = ts[k]
                          /\ b24[16 + k] = ler.accel_g[k] /\ b24[20 + k] = ler.delta_pa[k]
    BY <1>7, <1>8, <1>9, <1>10
  <1> QED
    BY <1>2, <1>4, <1>10, <1>11, <1>12, <1>13, Zenon DEF S, id, sq, ts

\* What every reader of a record takes out of it.
LEMMA RecordSlices ==
    ASSUME NEW ler \in Records
    PROVE  LET b == lima_ler_t(ler)
           IN  /\ Slice(b, 0, 6) = ler.node_id
               /\ Byte(b, 6) = ler.event_type /\ Byte(b, 7) = 0
               /\ from_le_bytes(Slice(b, 8, 12)) = ler.sequence
               /\ from_le_bytes(Slice(b, 12, 16)) = ler.timestamp_ms
               /\ Slice(b, 16, 20) = ler.accel_g /\ Slice(b, 20, 24) = ler.delta_pa
  <1> DEFINE S == 0 .. 255
             b == lima_ler_t(ler)
             sq == to_le_bytes(ler.sequence)
             ts == to_le_bytes(ler.timestamp_ms)
  <1>1. /\ ler.node_id \in [1 .. 6 -> S] /\ ler.event_type \in S /\ ler.sequence \in Word
        /\ ler.timestamp_ms \in Word /\ ler.accel_g \in [1 .. 4 -> S] /\ ler.delta_pa \in [1 .. 4 -> S]
    BY DEF Records, Reading
  <1>2. /\ sq \in [1 .. 4 -> S] /\ from_le_bytes(sq) = ler.sequence
        /\ ts \in [1 .. 4 -> S] /\ from_le_bytes(ts) = ler.timestamp_ms
    BY <1>1, LittleEndian
  <1>3. /\ b \in [1 .. 24 -> S]
        /\ \A k \in 1 .. 6 : b[k] = ler.node_id[k]
        /\ b[7] = ler.event_type /\ b[8] = 0
        /\ \A k \in 1 .. 4 : /\ b[8 + k] = sq[k] /\ b[12 + k] = ts[k]
                            /\ b[16 + k] = ler.accel_g[k] /\ b[20 + k] = ler.delta_pa[k]
    BY RecordLayout, Zenon
  <1> HIDE DEF S, b, sq, ts
  <1>4. /\ Stands(ler.node_id, 6, b, 0) /\ Stands(sq, 4, b, 8) /\ Stands(ts, 4, b, 12)
        /\ Stands(ler.accel_g, 4, b, 16) /\ Stands(ler.delta_pa, 4, b, 20)
    BY <1>3 DEF Stands
  <1>5. /\ Inside(0, 6, 6, 24) /\ Inside(8, 12, 4, 24) /\ Inside(12, 16, 4, 24)
        /\ Inside(16, 20, 4, 24) /\ Inside(20, 24, 4, 24)
    BY DEF Inside
  <1>6. Cut(ler.node_id, b, 0, 6)
    BY <1>1, <1>3, <1>4, <1>5, SliceIs, Zenon
  <1>7. Cut(sq, b, 8, 12)
    BY <1>2, <1>3, <1>4, <1>5, SliceIs, Zenon
  <1>8. Cut(ts, b, 12, 16)
    BY <1>2, <1>3, <1>4, <1>5, SliceIs, Zenon
  <1>9. Cut(ler.accel_g, b, 16, 20)
    BY <1>1, <1>3, <1>4, <1>5, SliceIs, Zenon
  <1>10. Cut(ler.delta_pa, b, 20, 24)
    BY <1>1, <1>3, <1>4, <1>5, SliceIs, Zenon
  <1>11. Byte(b, 6) = ler.event_type /\ Byte(b, 7) = 0
    BY <1>3 DEF Byte
  <1> QED
    BY <1>2, <1>6, <1>7, <1>8, <1>9, <1>10, <1>11, Zenon DEF b, Cut

\* The client's parse_ler() (client crypto.rs:112-131) reads back the record that the node's
\* lima_crypto_build_lf() encrypted.
THEOREM ClientReadsRecord ==
    ASSUME NEW f \in Nat, NEW ler \in Records
    PROVE  parse_ler(Slice(plaintext(f, ler), 0, 24)) = ler
  <1> DEFINE b == lima_ler_t(ler)   p == plaintext(f, ler)   sig == Secrets(f, 184, 184 + 64)
  <1>1. b \in [1 .. 24 -> 0 .. 255]
    BY RecordLayout, Zenon
  <1>2. b \in [1 .. 24 -> Int]
    <2> HIDE DEF b
    <2>1. 0 .. 255 \subseteq Int
      OBVIOUS
    <2> QED
      BY <1>1, <2>1, FunctionWidens, ZenonT(60)
  <1>3. sig \in [1 .. 64 -> Int]
    BY DEF Secrets, Secret
  <1>4. p = b \o sig
    BY DEF plaintext, LIMA_LF_OUTER_SIG_LEN
  <1> HIDE DEF b, sig, p
  <1>5. Parts(88, 24, 64) /\ Inside(0, 24, 24, 88)
    BY DEF Parts, Inside
  <1>6. Joins(p, 88, b, 24, sig, 64, Int)
    BY <1>2, <1>3, <1>4, <1>5, JoinProperties, Zenon
  <1>7. p \in [1 .. 88 -> Int] /\ Stands(b, 24, p, 0)
    BY <1>6 DEF Joins, Stands
  <1>9. Cut(b, p, 0, 24)
    BY <1>2, <1>5, <1>7, SliceIs, Zenon
  <1>10. parse_ler(b) = [node_id |-> ler.node_id, event_type |-> ler.event_type, sequence |-> ler.sequence,
                         timestamp_ms |-> ler.timestamp_ms, accel_g |-> ler.accel_g, delta_pa |-> ler.delta_pa]
    BY RecordSlices, Zenon DEF parse_ler, b
  <1>11. ler = [node_id |-> ler.node_id, event_type |-> ler.event_type, sequence |-> ler.sequence,
                timestamp_ms |-> ler.timestamp_ms, accel_g |-> ler.accel_g, delta_pa |-> ler.delta_pa]
    BY DEF Records
  <1> QED
    BY <1>9, <1>10, <1>11 DEF p, Cut

----------------------------------------------------------------------------
(* lima-types.                                                             *)

\* The record as lima-types has it: with the byte the firmware leaves zero.
Mirrored(ler) ==
    [node_id |-> ler.node_id, event_type |-> ler.event_type, reserved |-> 0, sequence |-> ler.sequence,
     timestamp_ms |-> ler.timestamp_ms, accel_g |-> ler.accel_g, delta_pa |-> ler.delta_pa]

LEMMA RecordIsRead ==
    ASSUME NEW ler \in Records
    PROVE  LimaEventRecord_from_bytes(lima_ler_t(ler)) = Mirrored(ler)
  BY RecordSlices, Zenon DEF LimaEventRecord_from_bytes, Mirrored

\* Each field has its place in the buffer and leaves the others theirs.
LEMMA RecordIsWritten ==
    ASSUME NEW ler \in Records
    PROVE  LimaEventRecord_to_bytes(Mirrored(ler)) = lima_ler_t(ler)
  <1> DEFINE S == 0 .. 255
             b == lima_ler_t(ler)
             r == Mirrored(ler)
             et == <<ler.event_type>>
             z == <<0>>
             sq == to_le_bytes(ler.sequence)
             ts == to_le_bytes(ler.timestamp_ms)
             p1 == At(0, ler.node_id)   p2 == At(6, et)   p3 == At(7, z)
             p4 == At(8, sq)   p5 == At(12, ts)
             p6 == At(16, ler.accel_g)   p7 == At(20, ler.delta_pa)
             pieces == {p1, p2, p3, p4, p5, p6, p7}
  <1>1. LimaEventRecord_to_bytes(r) = Buffer(24, pieces)
    BY DEF LimaEventRecord_to_bytes, Mirrored, LER_LEN
  <1>2. /\ ler.node_id \in [1 .. 6 -> S] /\ ler.event_type \in S /\ ler.sequence \in Word
        /\ ler.timestamp_ms \in Word /\ ler.accel_g \in [1 .. 4 -> S] /\ ler.delta_pa \in [1 .. 4 -> S]
    BY DEF Records, Reading
  <1>3. /\ sq \in [1 .. 4 -> S] /\ ts \in [1 .. 4 -> S]
        /\ et \in [1 .. 1 -> S] /\ et[1] = ler.event_type /\ z \in [1 .. 1 -> S] /\ z[1] = 0
    <2>1. sq \in [1 .. 4 -> S] /\ ts \in [1 .. 4 -> S]
      BY <1>2, LittleEndian, Zenon
    <2>2. et \in [1 .. 1 -> S] /\ et[1] = ler.event_type
      BY <1>2
    <2>3. z \in [1 .. 1 -> S] /\ z[1] = 0
      OBVIOUS
    <2> QED
      BY <2>1, <2>2, <2>3, Zenon
  <1>4. /\ b \in [1 .. 24 -> S]
        /\ \A k \in 1 .. 6 : b[k] = ler.node_id[k]
        /\ b[7] = ler.event_type /\ b[8] = 0
        /\ \A k \in 1 .. 4 : /\ b[8 + k] = sq[k] /\ b[12 + k] = ts[k]
                            /\ b[16 + k] = ler.accel_g[k] /\ b[20 + k] = ler.delta_pa[k]
    BY RecordLayout, Zenon
  <1> HIDE DEF b, S, et, z, sq, ts
  <1>5. /\ Stands(ler.node_id, 6, b, 0) /\ Stands(et, 1, b, 6) /\ Stands(z, 1, b, 7)
        /\ Stands(sq, 4, b, 8) /\ Stands(ts, 4, b, 12)
        /\ Stands(ler.accel_g, 4, b, 16) /\ Stands(ler.delta_pa, 4, b, 20)
    BY <1>3, <1>4 DEF Stands
  <1>6. /\ 0 \in Nat /\ 6 \in Nat /\ 7 \in Nat /\ 8 \in Nat /\ 12 \in Nat /\ 16 \in Nat /\ 20 \in Nat
        /\ 1 \in Nat /\ 4 \in Nat /\ 24 \in Nat
    OBVIOUS
  <1>7. Placed(p1, b, 0, 6)
    BY <1>2, <1>5, <1>6, PieceIsPlaced, Zenon
  <1>8. Placed(p2, b, 6, 1) /\ Placed(p3, b, 7, 1)
    BY <1>3, <1>5, <1>6, PieceIsPlaced, Zenon
  <1>9. Placed(p4, b, 8, 4) /\ Placed(p5, b, 12, 4)
    BY <1>3, <1>5, <1>6, PieceIsPlaced, Zenon
  <1>10. Placed(p6, b, 16, 4) /\ Placed(p7, b, 20, 4)
    BY <1>2, <1>5, <1>6, PieceIsPlaced, Zenon
  <1> HIDE DEF p1, p2, p3, p4, p5, p6, p7
  <1>11. \A k \in 1 .. 24 : \/ Covers(p1, k) \/ Covers(p2, k) \/ Covers(p3, k) \/ Covers(p4, k)
                           \/ Covers(p5, k) \/ Covers(p6, k) \/ Covers(p7, k)
    BY <1>7, <1>8, <1>9, <1>10 DEF Covers, Placed
  <1>12. PiecesOf(pieces, b, 24)
    <2>1. \A p \in pieces : Piece(p, b)
      BY <1>7, <1>8, <1>9, <1>10 DEF Placed
    <2>2. \A k \in 1 .. 24 : \E p \in pieces : Covers(p, k)
      BY <1>11, Zenon
    <2> QED
      BY <2>1, <2>2 DEF PiecesOf
  <1> HIDE DEF pieces
  <1>13. Make(pieces, b, 24)
    BY <1>4, <1>6, <1>12, BufferIs, Zenon
  <1> QED
    BY <1>1, <1>13, Zenon DEF b, r, Make

\* A frame is read and written back as it is, whatever bytes it holds.
LEMMA FrameIsWrittenBack ==
    ASSUME NEW S, NEW lf \in [1 .. 184 -> S]
    PROVE  /\ LimaFrame_to_bytes(LimaFrame_from_bytes(lf)) = lf
           /\ LimaFrame_from_bytes(lf).event_type = lf[2]
           /\ signed_bytes(LimaFrame_from_bytes(lf)) = Slice(lf, 0, 120)
  <1> DEFINE b1 == <<Byte(lf, 0)>>   b2 == <<Byte(lf, 1)>>
             p1 == At(0, b1)   p2 == At(1, b2)
             p3 == At(2, Slice(lf, 2, 4))   p4 == At(4, Slice(lf, 4, 16))
             p5 == At(16, Slice(lf, 16, 104))   p6 == At(104, Slice(lf, 104, 120))
             p7 == At(120, Slice(lf, 120, 184))
             pieces == {p1, p2, p3, p4, p5, p6, p7}
             w == Buffer(184, pieces)
  <1>1. LimaFrame_to_bytes(LimaFrame_from_bytes(lf)) = w
    BY DEF LimaFrame_to_bytes, LimaFrame_from_bytes, LF_LEN, HEADER_LEN, NONCE_LEN, CIPHERTEXT_LEN,
           TAG_LEN, OUTER_SIG_LEN, LF_OFFSET_PROTO, LF_OFFSET_EVENT_TYPE, LF_OFFSET_NONCE,
           LF_OFFSET_CIPHERTEXT, LF_OFFSET_GCM_TAG, LF_OFFSET_OUTER_SIG
  <1>2. b1 \in [1 .. 1 -> S] /\ b2 \in [1 .. 1 -> S] /\ Stands(b1, 1, lf, 0) /\ Stands(b2, 1, lf, 1)
    BY DEF Stands, Byte
  <1>3. /\ Inside(2, 4, 2, 184) /\ Inside(4, 16, 12, 184) /\ Inside(16, 104, 88, 184)
        /\ Inside(104, 120, 16, 184) /\ Inside(120, 184, 64, 184)
    BY DEF Inside
  <1>3a. 184 \in Nat /\ 0 \in Nat /\ 1 \in Nat
    OBVIOUS
  <1> HIDE DEF b1, b2, w
  <1>4. Placed(p1, lf, 0, 1) /\ Placed(p2, lf, 1, 1)
    BY <1>2, <1>3a, PieceIsPlaced, Zenon
  <1>5. Placed(p3, lf, 2, 2)
    BY <1>3, SliceIsPlaced, Zenon
  <1>6. Placed(p4, lf, 4, 12)
    BY <1>3, SliceIsPlaced, Zenon
  <1>7. Placed(p5, lf, 16, 88)
    BY <1>3, SliceIsPlaced, ZenonT(60)
  <1>8. Placed(p6, lf, 104, 16)
    BY <1>3, SliceIsPlaced, ZenonT(60)
  <1>9. Placed(p7, lf, 120, 64)
    BY <1>3, SliceIsPlaced, ZenonT(60)
  <1> HIDE DEF p1, p2, p3, p4, p5, p6, p7
  <1>10. \A k \in 1 .. 184 : \/ Covers(p1, k) \/ Covers(p2, k) \/ Covers(p3, k) \/ Covers(p4, k)
                            \/ Covers(p5, k) \/ Covers(p6, k) \/ Covers(p7, k)
    BY <1>4, <1>5, <1>6, <1>7, <1>8, <1>9 DEF Covers, Placed
  <1>11. PiecesOf(pieces, lf, 184)
    <2>1. \A p \in pieces : Piece(p, lf)
      BY <1>4, <1>5, <1>6, <1>7, <1>8, <1>9 DEF Placed
    <2>2. \A k \in 1 .. 184 : \E p \in pieces : Covers(p, k)
      BY <1>10, Zenon
    <2> QED
      BY <2>1, <2>2 DEF PiecesOf
  <1> HIDE DEF pieces
  <1>12. Make(pieces, lf, 184)
    BY <1>3a, <1>11, BufferIs, Zenon
  <1>13. w = lf
    BY <1>12 DEF Make, w
  <1>14. LimaFrame_from_bytes(lf).event_type = lf[2]
    BY DEF LimaFrame_from_bytes, Byte, LF_OFFSET_EVENT_TYPE
  <1> QED
    BY <1>1, <1>13, <1>14 DEF signed_bytes, LF_SIGNED_BYTES

\* The round trip of crypto-test (crypto-test main.rs) passes for every record: sealed,
\* opened and cut up at its own offsets, it comes back unchanged.
THEOREM RoundTripPasses ==
    ASSUME NEW ler \in Records
    PROVE  crypto_test(Mirrored(ler))
  <1> DEFINE b == lima_ler_t(ler)
             r == Mirrored(ler)
             g == test_inner_sig
             text == test_plaintext(r)
             p1 == At(0, b)   p2 == At(24, g)
             pieces == {p1, p2}
             sealed == Secrets(1, 16, 16 + 88 + 16)
             m == b \o g
  <1>1. LimaEventRecord_to_bytes(r) = b /\ LimaEventRecord_from_bytes(b) = r
    BY RecordIsWritten, RecordIsRead
  <1>2. b \in [1 .. 24 -> 0 .. 255]
    BY RecordLayout, Zenon
  <1> HIDE DEF b, r
  <1>3. b \in [1 .. 24 -> Int]
    <2>1. 0 .. 255 \subseteq Int
      OBVIOUS
    <2> QED
      BY <1>2, <2>1, FunctionWidens, ZenonT(60)
  <1>4. g \in [1 .. 64 -> Int]
    BY DEF test_inner_sig, Secrets, Secret, INNER_SIG_LEN
  <1>5. Parts(88, 24, 64) /\ Inside(0, 24, 24, 88) /\ Inside(24, 88, 64, 88)
    BY DEF Parts, Inside
  <1>6. text = Buffer(88, pieces)
    BY <1>1 DEF test_plaintext, LER_LEN, INNER_SIG_LEN
  <1> HIDE DEF g, text
  <1>7. Joins(m, 88, b, 24, g, 64, Int)
    BY <1>3, <1>4, <1>5, JoinProperties, Zenon
  <1> HIDE DEF m
  <1>8. m \in [1 .. 88 -> Int] /\ Stands(b, 24, m, 0) /\ Stands(g, 64, m, 24)
    BY <1>3, <1>7 DEF Joins, Stands
  <1>9. 88 \in Nat /\ 64 \in Nat /\ 0 \in Nat /\ 24 \in Nat
    OBVIOUS
  <1>10. Placed(p1, m, 0, 24) /\ Placed(p2, m, 24, 64)
    BY <1>3, <1>4, <1>8, <1>9, PieceIsPlaced, Zenon
  <1> HIDE DEF p1, p2
  <1>11. \A k \in 1 .. 88 : Covers(p1, k) \/ Covers(p2, k)
    BY <1>10 DEF Covers, Placed
  <1>12. PiecesOf(pieces, m, 88)
    BY <1>10, <1>11 DEF PiecesOf, Placed
  <1> HIDE DEF pieces
  <1>13. Make(pieces, m, 88)
    BY <1>8, <1>9, <1>12, BufferIs, Zenon
  <1>14. text = m
    BY <1>6, <1>13 DEF Make
  <1>15. Cut(b, m, 0, 24)
    BY <1>3, <1>5, <1>8, SliceIs, Zenon
  <1>16. Cut(g, m, 24, 88)
    BY <1>4, <1>5, <1>8, SliceIs, Zenon
  <1>17. Slice(text, 0, 24) = b /\ Slice(text, 24, 88) = g
    BY <1>14, <1>15, <1>16 DEF Cut
  <1>18. Len(text) = 88
    BY <1>8, <1>9, <1>14, FunctionIsSeq
  <1>19. Len(to_sign_outer(r)) = 116
    <2>1. to_sign_outer(r) = test_nonce \o sealed
      BY <1>18 DEF to_sign_outer, test_sealed, TAG_LEN, text
    <2>2. test_nonce \in [1 .. 12 -> Int]
      BY DEF test_nonce, Secrets, Secret, NONCE_LEN
    <2>3. sealed \in [1 .. 104 -> Int]
      BY DEF Secrets, Secret
    <2>4. Parts(116, 12, 104) /\ 116 \in Nat
      BY DEF Parts
    <2> HIDE DEF sealed
    <2>5. Joins(test_nonce \o sealed, 116, test_nonce, 12, sealed, 104, Int)
      BY <2>2, <2>3, <2>4, JoinProperties, Zenon
    <2> DEFINE q == test_nonce \o sealed
    <2>6. q \in [1 .. 116 -> Int]
      BY <2>5 DEF Joins
    <2> HIDE DEF q
    <2>7. Len(q) = 116
      BY <2>4, <2>6, FunctionIsSeq
    <2> QED
      BY <2>1, <2>7 DEF q
  <1>20. crypto_test(r) <=>
           /\ Len(to_sign_outer(r)) = 116
           /\ Slice(text, 24, 88) = g /\ Slice(text, 0, 24) = LimaEventRecord_to_bytes(r)
           /\ LimaEventRecord_from_bytes(Slice(text, 0, 24)).sequence = r.sequence
           /\ LimaEventRecord_from_bytes(Slice(text, 0, 24)).timestamp_ms = r.timestamp_ms
           /\ LimaEventRecord_from_bytes(Slice(text, 0, 24)).event_type = r.event_type
           /\ LimaEventRecord_from_bytes(Slice(text, 0, 24)).node_id = r.node_id
    BY DEF crypto_test, text, g, LER_LEN, INNER_SIG_LEN, NONCE_LEN, CIPHERTEXT_LEN, TAG_LEN
  <1> QED
    BY <1>1, <1>17, <1>19, <1>20 DEF r

----------------------------------------------------------------------------
(* The ciphers.  Frames of numbers f and g, made for whatever records.     *)

\* A frame's number is in every byte it draws or makes.
LEMMA SecretsDiffer ==
    ASSUME NEW f \in Nat, NEW g \in Nat, NEW j \in 0 .. 255, NEW k \in 0 .. 255
    PROVE  Secret(f, j) = Secret(g, k) => f = g /\ j = k
  BY DEF Secret

\* The first byte of its nonce tells a frame.
LEMMA NonceIsOwn ==
    ASSUME NEW f \in Nat, NEW ler, ler.event_type \in 0 .. 255
    PROVE  lima_lf_t(f, ler)[5] = Secret(f, 4)
  <1>1. 5 \in 1 .. 184 /\ ~(5 <= 4) /\ 5 - 1 = 4
    OBVIOUS
  <1> QED
    BY <1>1, FrameLayout

\* What the checks below are about: the frames of built.
Frames(built) == built \in Seq(Records)

LEMMA FrameOfBuilt ==
    ASSUME NEW built, Frames(built), NEW f \in DOMAIN built
    PROVE  /\ f \in Nat /\ built[f] \in Records /\ built[f].event_type \in 0 .. 255
           /\ lima_lf_t(f, built[f]) \in [1 .. 184 -> FrameBytes(f)]
  <1>1. f \in 1 .. Len(built) /\ built[f] \in Records
    BY ElementOfSeq DEF Frames
  <1>2. built[f].event_type \in 0 .. 255 /\ f \in Nat
    BY <1>1 DEF Records
  <1> QED
    BY <1>1, <1>2, FrameLayout

\* A sequence cut in two, and its pieces joined again.
Rejoins(s, m, l) == Slice(s, 0, m) \o Slice(s, m, l) = s

LEMMA CutsJoin ==
    ASSUME NEW S, NEW l \in Nat, NEW s \in [1 .. l -> S], NEW m, NEW n, Parts(l, m, n)
    PROVE  Rejoins(s, m, l)
  <1> USE DEF Parts
  <1>1. s \in Seq(S) /\ Len(s) = l
    BY FunctionIsSeq
  <1>2. 0 \in Nat /\ m \in Nat /\ m \in 0 .. Len(s) /\ l \in m .. Len(s)
    BY <1>1
  <1> DEFINE u == Slice(s, 0, m)   v == Slice(s, m, l)
  <1>3. u \in Seq(S) /\ Len(u) = m - 0 /\ \A k \in 1 .. m - 0 : u[k] = s[0 + k]
    BY <1>1, <1>2, SliceProperties, Zenon
  <1>4. v \in Seq(S) /\ Len(v) = l - m /\ \A k \in 1 .. l - m : v[k] = s[m + k]
    BY <1>1, <1>2, SliceProperties, Zenon
  <1> HIDE DEF u, v
  <1>5. m - 0 = m /\ l - m = n /\ m \in Nat /\ n \in Nat
    OBVIOUS
  <1>6. u \in [1 .. m -> S] /\ v \in [1 .. n -> S]
    BY <1>3, <1>4, <1>5, LenProperties
  <1> DEFINE w == u \o v
  <1>7. Joins(w, l, u, m, v, n, S)
    BY <1>6, JoinProperties, Zenon
  <1> HIDE DEF w
  <1>8. w \in Seq(S) /\ Len(w) = l
    BY <1>7, FunctionIsSeq DEF Joins
  <1>9. \A k \in 1 .. l : w[k] = s[k]
    <2> SUFFICES ASSUME NEW k \in 1 .. l PROVE w[k] = s[k]
      OBVIOUS
    <2>1. CASE k \in 1 .. m
      <3>1. w[k] = u[k]
        BY <1>7, <2>1 DEF Joins
      <3> QED
        BY <1>3, <1>5, <2>1, <3>1
    <2>2. CASE ~(k \in 1 .. m)
      <3>1. k - m \in 1 .. n /\ m + (k - m) = k
        BY <1>5, <2>2
      <3>2. w[m + (k - m)] = v[k - m]
        BY <1>7, <3>1, Zenon DEF Joins
      <3>3. v[k - m] = s[m + (k - m)]
        BY <1>4, <1>5, <3>1, Zenon
      <3> QED
        BY <3>1, <3>2, <3>3
    <2> QED
      BY <2>1, <2>2
  <1> QED
    BY <1>1, <1>8, <1>9, SeqEqual DEF u, v, w, Rejoins

\* verify_outer_sig() (gateway main.rs:243-263) succeeds only with the node's key and only
\* for one of its frames, and then every byte handed on is that frame's.
THEOREM VerifiedIsFrame ==
    ASSUME NEW built, Frames(built), NEW S, NEW mfr \in [1 .. 2 -> S], NEW payload \in Seq(S), NEW vk,
           verify_outer_sig(built, mfr, payload, vk)
    PROVE  /\ vk = "node"
           /\ \E f \in DOMAIN built : mfr \o payload = lima_lf_t(f, built[f])
  <1> DEFINE full == mfr \o payload
  <1>1. Len(payload) = 182
    BY DEF verify_outer_sig, LF_LEN, HEADER_LEN, NONCE_LEN, CIPHERTEXT_LEN, TAG_LEN, OUTER_SIG_LEN
  <1>2. Verifies(built, vk, Slice(full, 0, 120), Slice(full, 120, 184))
    BY DEF verify_outer_sig, LF_SIGNED_BYTES, LF_OFFSET_OUTER_SIG, OUTER_SIG_LEN
  <1>3. PICK f \in DOMAIN built :
          /\ vk = "node"
          /\ Slice(full, 0, 120) = Slice(lima_lf_t(f, built[f]), 0, 120)
          /\ Slice(full, 120, 184) = Slice(lima_lf_t(f, built[f]), 120, 184)
    BY <1>2 DEF Verifies, LIMA_LF_SIGNED_LEN, LIMA_LF_OUTER_SIG_LEN
  <1> DEFINE lf == lima_lf_t(f, built[f])
  <1>4. lf \in [1 .. 184 -> FrameBytes(f)]
    BY FrameOfBuilt, Zenon
  <1> HIDE DEF lf
  <1>5. payload \in [1 .. 182 -> S]
    BY <1>1, LenProperties
  <1>6. Parts(184, 2, 182) /\ Parts(184, 120, 64) /\ 184 \in Nat
    BY DEF Parts
  <1>7. Joins(full, 184, mfr, 2, payload, 182, S)
    BY <1>5, <1>6, JoinProperties, Zenon
  <1> HIDE DEF full
  <1>8. full \in [1 .. 184 -> S]
    BY <1>7 DEF Joins
  <1>9. Rejoins(full, 120, 184) /\ Rejoins(lf, 120, 184)
    BY <1>4, <1>6, <1>8, CutsJoin, Zenon
  <1>10. full = lf
    BY <1>3, <1>9, Zenon DEF Rejoins, lf
  <1> QED
    BY <1>3, <1>10, Zenon DEF full, lf

\* A frame as the parser hands it on: its first two bytes as the company id, the rest as
\* the payload.
HandedOn(mfr, payload, lf) == mfr \in Seq(Int) /\ Len(mfr) = 2 /\ payload \in Seq(Int) /\ mfr \o payload = lf

LEMMA FrameOfNumbers ==
    ASSUME NEW built, Frames(built), NEW f \in DOMAIN built
    PROVE  lima_lf_t(f, built[f]) \in [1 .. 184 -> Int]
  <1>1. f \in Nat /\ lima_lf_t(f, built[f]) \in [1 .. 184 -> FrameBytes(f)]
    BY FrameOfBuilt, Zenon
  <1>2. ASSUME NEW k \in 0 .. 255 PROVE Secret(f, k) \in Int
    BY <1>1 DEF Secret
  <1>3. FrameBytes(f) \subseteq Int
    BY <1>2 DEF FrameBytes
  <1> DEFINE lf == lima_lf_t(f, built[f])
  <1> HIDE DEF lf
  <1>4. lf \in [1 .. 184 -> FrameBytes(f)]
    BY <1>1 DEF lf
  <1>5. lf \in [1 .. 184 -> Int]
    BY <1>3, <1>4, FunctionWidens, Zenon
  <1> QED
    BY <1>5 DEF lf

\* Its parts are known from the frame.
PartsOf(mfr, payload, lf) ==
    /\ mfr = <<lf[1], lf[2]>> /\ mfr[2] = lf[2]
    /\ Len(payload) = 182 /\ Cut(payload, lf, 2, 184)

LEMMA HandedOnIs ==
    ASSUME NEW lf \in [1 .. 184 -> Int], NEW mfr, NEW payload, HandedOn(mfr, payload, lf)
    PROVE  PartsOf(mfr, payload, lf)
  <1>1. mfr \in [1 .. 2 -> Int] /\ mfr \in Seq(Int) /\ Len(mfr) = 2 /\ payload \in Seq(Int) /\ mfr \o payload = lf
    BY LenProperties DEF HandedOn
  <1>2. Len(lf) = 184
    BY FunctionIsSeq
  <1>3. Len(mfr \o payload) = Len(mfr) + Len(payload)
    BY <1>1, ConcatProperties, Zenon
  <1>4. Len(payload) = 182
    <2>1. Len(mfr \o payload) = 184
      BY <1>1, <1>2, Zenon
    <2>2. 184 = 2 + Len(payload)
      BY <1>1, <1>3, <2>1, Zenon
    <2>3. Len(payload) \in Nat
      BY <1>1
    <2>4. \A n \in Nat : 184 = 2 + n => n = 182
      OBVIOUS
    <2> QED
      BY <2>2, <2>3, <2>4, Zenon
  <1>5. payload \in [1 .. 182 -> Int]
    BY <1>1, <1>4, LenProperties, ZenonT(60)
  <1>6. Parts(184, 2, 182) /\ Inside(2, 184, 182, 184)
    BY DEF Parts, Inside
  <1>7. Joins(mfr \o payload, 184, mfr, 2, payload, 182, Int)
    BY <1>1, <1>5, <1>6, JoinProperties, ZenonT(60)
  <1>8. Joins(lf, 184, mfr, 2, payload, 182, Int)
    BY <1>7 DEF HandedOn
  <1>9. Stands(payload, 182, lf, 2)
    BY <1>8, Zenon DEF Joins, Stands
  <1>10. Cut(payload, lf, 2, 184)
    <2> HIDE DEF HandedOn
    <2> QED
      BY <1>5, <1>6, <1>9, SliceIs, ZenonT(60)
  <1>11. lf[1] = mfr[1] /\ lf[2] = mfr[2]
    BY <1>8 DEF Joins
  <1>12. mfr = <<mfr[1], mfr[2]>>
    BY <1>1
  <1> QED
    BY <1>4, <1>10, <1>11, <1>12 DEF PartsOf

\* An intact frame verifies with the node's public key.
LEMMA FrameVerifies ==
    ASSUME NEW built, Frames(built), NEW f \in DOMAIN built, NEW mfr, NEW payload,
           HandedOn(mfr, payload, lima_lf_t(f, built[f]))
    PROVE  verify_outer_sig(built, mfr, payload, "node")
  <1> DEFINE lf == lima_lf_t(f, built[f])
  <1>1. lf \in [1 .. 184 -> Int]
    BY FrameOfNumbers, Zenon
  <1>2. Len(payload) = 182 /\ mfr \o payload = lf
    <2>1. HandedOn(mfr, payload, lf)
      OBVIOUS
    <2> HIDE DEF lf
    <2>2. PartsOf(mfr, payload, lf)
      BY <1>1, <2>1, HandedOnIs, Zenon
    <2> QED
      BY <2>1, <2>2, Zenon DEF HandedOn, PartsOf
  <1>4. Verifies(built, "node", Slice(lf, 0, 120), Slice(lf, 120, 120 + 64))
    BY DEF Verifies, LIMA_LF_SIGNED_LEN, LIMA_LF_OUTER_SIG_LEN
  <1> HIDE DEF lf
  <1> QED
    BY <1>2, <1>4 DEF verify_outer_sig, LF_SIGNED_BYTES, LF_OFFSET_OUTER_SIG, OUTER_SIG_LEN, LF_LEN,
       HEADER_LEN, NONCE_LEN, CIPHERTEXT_LEN, TAG_LEN

\* Adjacent slices join.
LEMMA SlicesJoin ==
    ASSUME NEW S, NEW l, NEW from, NEW at, NEW to, NEW m, NEW n, NEW o, Inside(from, at, m, l),
           Inside(at, to, n, l), Inside(from, to, o, l), NEW s \in [1 .. l -> S]
    PROVE  Cut(Slice(s, from, at) \o Slice(s, at, to), s, from, to)
  <1> DEFINE u == Slice(s, from, at)   v == Slice(s, at, to)   w == u \o v
  <1>1. Placed(At(from, u), s, from, m)
    BY SliceIsPlaced
  <1>2. Placed(At(at, v), s, at, n)
    BY SliceIsPlaced
  <1>3. /\ l \in Nat /\ from \in Nat /\ at \in Nat /\ m \in Nat /\ n \in Nat /\ o = m + n /\ at = from + m
        /\ Parts(o, m, n)
    BY DEF Inside, Parts
  <1>3a. s \in Seq(S) /\ Len(s) = l
    BY <1>3, FunctionIsSeq
  <1>3b. at \in from .. Len(s) /\ to \in at .. Len(s)
    BY <1>3a DEF Inside
  <1>4. u \in Seq(S) /\ v \in Seq(S)
    BY <1>3, <1>3a, <1>3b, SliceProperties, Zenon
  <1> HIDE DEF u, v
  <1>5. Len(u) = m /\ Stands(u, m, s, from) /\ Len(v) = n /\ Stands(v, n, s, at)
    BY <1>1, <1>2 DEF Placed, Piece, At
  <1>6. u \in [1 .. m -> S] /\ v \in [1 .. n -> S]
    BY <1>4, <1>5, LenProperties
  <1>7. Joins(w, o, u, m, v, n, S)
    BY <1>3, <1>6, JoinProperties, Zenon
  <1> HIDE DEF w
  <1>8. Stands(w, o, s, from)
    <2> SUFFICES ASSUME NEW k \in 1 .. o PROVE s[from + k] = w[k]
      BY DEF Stands
    <2>2. CASE k \in 1 .. m
      BY <1>5, <1>7, <2>2 DEF Joins, Stands
    <2>3. CASE ~(k \in 1 .. m)
      <3>1. k - m \in 1 .. n /\ m + (k - m) = k /\ at + (k - m) = from + k
        BY <1>3, <2>3
      <3>2. w[m + (k - m)] = v[k - m]
        BY <1>7, <3>1, Zenon DEF Joins
      <3>3. s[at + (k - m)] = v[k - m]
        BY <1>5, <3>1, Zenon DEF Stands
      <3> QED
        BY <3>1, <3>2, <3>3
    <2> QED
      BY <2>2, <2>3
  <1>10. w \in [1 .. o -> S]
    BY <1>7 DEF Joins
  <1> QED
    BY <1>8, <1>10, SliceIs, Zenon DEF w, u, v

\* What is stored of a frame, with the type stored beside it, the client's decrypt_ler()
\* (client crypto.rs:76-108) opens with the node's key to the record that frame was built of, and with no
\* other key.
THEOREM FrameDecrypts ==
    ASSUME NEW built, Frames(built), NEW f \in DOMAIN built, NEW key
    PROVE  LET lf == lima_lf_t(f, built[f])
           IN  decrypt_ler(built, Slice(lf, 2, 184), lf[2], key) = IF key = "node" THEN {built[f]} ELSE {}
  <1> DEFINE lf == lima_lf_t(f, built[f])
             raw == Slice(lf, 2, 184)
             ct == Slice(lf, 16, 104) \o Slice(lf, 104, 120)
             opened == Opened(built, key, Slice(lf, 4, 16), Slice(lf, 0, 4), ct)
  <1>1. lf \in [1 .. 184 -> Int] /\ built[f] \in Records /\ f \in Nat
    BY FrameOfNumbers, FrameOfBuilt, Zenon
  <1>2. lf[1] = 2
    <2>1. built[f].event_type \in 0 .. 255
      BY FrameOfBuilt, Zenon
    <2>2. lf[1] = <<2, built[f].event_type, 0, 0>>[1]
      BY <1>1, <2>1, FrameLayout, SMTT(30)
    <2> QED
      BY <2>2
  <1> HIDE DEF lf
  <1>3. Slice(lf, 0, 2) = <<lf[1], lf[2]>> /\ Len(raw) = 182 /\ Slice(lf, 0, 2) \o raw = lf
    <2>1. 184 \in Nat /\ Parts(184, 2, 182) /\ Inside(0, 2, 2, 184) /\ Inside(2, 184, 182, 184)
      BY DEF Parts, Inside
    <2>2. Rejoins(lf, 2, 184)
      BY <1>1, <2>1, CutsJoin, Zenon
    <2>3. Placed(At(2, raw), lf, 2, 182)
      BY <1>1, <2>1, SliceIsPlaced, ZenonT(60)
    <2> DEFINE t == <<lf[1], lf[2]>>
    <2>4. t \in [1 .. 2 -> Int] /\ Stands(t, 2, lf, 0)
      BY <1>1 DEF Stands
    <2> HIDE DEF t
    <2>5. Cut(t, lf, 0, 2)
      BY <1>1, <2>1, <2>4, SliceIs, Zenon
    <2> QED
      BY <2>2, <2>3, <2>5 DEF Rejoins, Placed, At, Cut, t
  <1>4. reconstruct_lf(raw, lf[2]) = {lf}
    BY <1>2, <1>3 DEF reconstruct_lf, LF_STRIPPED_LEN
  <1>5. decrypt_ler(built, raw, lf[2], key) = {parse_ler(Slice(plaintext(g, built[g]), 0, 24)) : g \in opened}
    BY <1>4 DEF decrypt_ler, LF_CIPHER_OFFSET, LF_TAG_OFFSET, LF_NONCE_OFFSET
  <1>6. ct = Slice(lf, 16, 120)
    <2>1. Inside(16, 104, 88, 184) /\ Inside(104, 120, 16, 184) /\ Inside(16, 120, 104, 184)
      BY DEF Inside
    <2>2. Cut(ct, lf, 16, 120)
      BY <1>1, <2>1, SlicesJoin, ZenonT(60)
    <2> QED
      BY <2>2 DEF Cut
  <1> HIDE DEF ct
  <1>7. opened = IF key = "node" THEN {f} ELSE {}
    <2>1. ASSUME NEW g \in opened PROVE key = "node" /\ g = f
      <3>1. g \in DOMAIN built /\ key = "node" /\ Slice(lf, 4, 16) = Slice(lima_lf_t(g, built[g]), 4, 16)
        BY DEF Opened, LIMA_LF_NONCE_LEN
      <3> DEFINE lg == lima_lf_t(g, built[g])
      <3>2. lg \in [1 .. 184 -> Int]
        BY <3>1, FrameOfNumbers, Zenon
      <3>3. Slice(lf, 4, 16)[1] = lf[5] /\ Slice(lg, 4, 16)[1] = lg[5]
        <4>1. Inside(4, 16, 12, 184)
          BY DEF Inside
        <4> HIDE DEF lg
        <4>2. Placed(At(4, Slice(lf, 4, 16)), lf, 4, 12)
          BY <1>1, <4>1, SliceIsPlaced, Zenon
        <4>3. Placed(At(4, Slice(lg, 4, 16)), lg, 4, 12)
          BY <3>2, <4>1, SliceIsPlaced, Zenon
        <4> QED
          BY <4>2, <4>3 DEF Placed, Piece, At, Stands
      <3>4. lima_lf_t(f, built[f])[5] = lima_lf_t(g, built[g])[5]
        BY <3>1, <3>3 DEF lf
      <3>5. /\ built[f].event_type \in 0 .. 255 /\ built[g].event_type \in 0 .. 255
            /\ f \in Nat /\ g \in Nat
        BY <3>1, FrameOfBuilt, ZenonT(60)
      <3>6. Secret(f, 4) = Secret(g, 4)
        BY <3>4, <3>5, NonceIsOwn
      <3> QED
        BY <3>1, <3>5, <3>6 DEF Secret
    <2>2. ASSUME key = "node" PROVE f \in opened
      BY <1>6, <2>2 DEF Opened, LIMA_LF_NONCE_LEN, LIMA_LF_HEADER_LEN, LIMA_LF_CIPHERTEXT_LEN, LIMA_LF_TAG_LEN, lf
    <2> HIDE DEF opened
    <2> QED
      BY <2>1, <2>2
  <1> HIDE DEF opened
  <1>8. parse_ler(Slice(plaintext(f, built[f]), 0, 24)) = built[f]
    BY <1>1, ClientReadsRecord
  <1> QED
    BY <1>5, <1>7, <1>8 DEF lf, raw

\* The screen of the gateway shows the first four bytes of a frame's signature.
LEMMA ScreenShowsSignature ==
    ASSUME NEW lf \in [1 .. 184 -> Int]
    PROVE  ui_row(Slice(lf, 2, 184)).sig_fp = Slice(lf, 120, 124)
  <1> DEFINE raw == Slice(lf, 2, 184)   fp == Slice(raw, 118, 122)
  <1>1. Inside(2, 184, 182, 184) /\ Inside(118, 122, 4, 182) /\ Inside(120, 124, 4, 184)
    BY DEF Inside
  <1>2. Placed(At(2, raw), lf, 2, 182)
    BY <1>1, SliceIsPlaced, ZenonT(60)
  <1>3. Len(raw) = 182 /\ Stands(raw, 182, lf, 2)
    BY <1>2 DEF Placed, Piece, At
  <1>4. raw \in Seq(Int)
    <2>1. lf \in Seq(Int)
      BY FunctionIsSeq, ZenonT(60)
    <2>2. Len(lf) = 184
      BY FunctionIsSeq
    <2>3. 2 \in Nat /\ 184 \in 2 .. Len(lf)
      BY <2>2
    <2> QED
      BY <2>1, <2>3, SliceProperties, ZenonT(60)
  <1> HIDE DEF raw
  <1>5. raw \in [1 .. 182 -> Int]
    BY <1>3, <1>4, LenProperties, ZenonT(60)
  <1>6. Placed(At(118, fp), raw, 118, 4)
    BY <1>1, <1>5, SliceIsPlaced, ZenonT(60)
  <1>7. Len(fp) = 4 /\ Stands(fp, 4, raw, 118)
    BY <1>6 DEF Placed, Piece, At
  <1>8. fp \in Seq(Int)
    <2>1. 118 \in Nat /\ 122 \in 118 .. Len(raw)
      BY <1>3
    <2> QED
      BY <1>4, <2>1, SliceProperties, ZenonT(60)
  <1> HIDE DEF fp
  <1>9. fp \in [1 .. 4 -> Int]
    BY <1>7, <1>8, LenProperties
  <1>10. Stands(fp, 4, lf, 120)
    <2> SUFFICES ASSUME NEW k \in 1 .. 4 PROVE lf[120 + k] = fp[k]
      BY DEF Stands
    <2>1. raw[118 + k] = fp[k]
      BY <1>7 DEF Stands
    <2>2. lf[2 + (118 + k)] = raw[118 + k]
      BY <1>3 DEF Stands
    <2> QED
      BY <2>1, <2>2
  <1>11. Cut(fp, lf, 120, 124)
    BY <1>1, <1>9, <1>10, SliceIs, ZenonT(60)
  <1>12. Len(raw) >= 122
    BY <1>3
  <1>13. ui_row(raw).sig_fp = Slice(raw, 118, 122)
    BY <1>12 DEF ui_row
  <1> QED
    BY <1>11, <1>13 DEF Cut, fp, raw

=============================================================================
