---------------------------- MODULE ClientProofs ----------------------------
(***************************************************************************)
(* The safety of the operator's clients, for any number of them, of rows   *)
(* and of openings, and whichever statements fail.                         *)
(***************************************************************************)
EXTENDS Client, SequenceTheorems, WellFoundedInduction, TLAPS

(* Strengthening.                                                          *)

\* The table: AUTOINCREMENT gives the n-th reception the id n, and no id to two rows.
Numbered ==
    /\ sqlite_sequence = inserted
    /\ \A r \in rows : r.id = r.n /\ r.id <= sqlite_sequence
    /\ \A r, s \in rows : r.id = s.id => r = s

\* Whatever a client knows of lies behind its cursor, so that a poll brings it only rows
\* it knows nothing of, and none that the gateway is yet to insert.
Behind(c) == RowIds(list[c]) \cup errors[c] \cup erased[c] \cup seen[c] \subseteq 1 .. cursor[c]

Sorted(s) == \A i, j \in DOMAIN s : i < j => s[i].rowid < s[j].rowid

\* The properties, for one client, open or not.
Sees(c) == \A r \in rows : (r.verified /\ r.id > began[c] /\ r.id <= cursor[c]) => r.n \in seen[c]
Lists(c) == \A r \in rows : (r.n \in seen[c] /\ r.id \notin errors[c]) => r.id \in RowIds(list[c])
Omits(c) == RowIds(list[c]) \cap (erased[c] \cup errors[c]) = {}
Selects(c) == IF list[c] = <<>> THEN selected[c] = 0 ELSE selected[c] \in DOMAIN list[c]
Acks(c) == \A i \in DOMAIN list[c] : list[c][i].acked => \A r \in rows : r.id = list[c][i].rowid => r.acked

Follows(c) == Behind(c) /\ Sorted(list[c]) /\ Sees(c) /\ Lists(c) /\ Omits(c) /\ Selects(c) /\ Acks(c)

ClientInv == ClientTypeOK /\ Numbered /\ \A c \in Clients : Follows(c)

----------------------------------------------------------------------------
(* Facts about the operators of the model.                                 *)

LEMMA MinExists ==
    ASSUME NEW S \in SUBSET Nat, S # {}
    PROVE  \E m \in S : \A k \in S : m <= k
  <1> DEFINE R == {p \in Nat \X Nat : p[1] < p[2]}
  <1>1. R = OpToRel(<, Nat)
    BY DEF OpToRel
  <1>2. IsWellFoundedOn(R, Nat)
    BY <1>1, NatLessThanWellFounded
  <1> HIDE DEF R
  <1>3. PICK m \in S : \A k \in S : ~(<<k, m>> \in R)
    BY <1>2, WFMin
  <1>4. ASSUME NEW k \in S PROVE m <= k
    <2>1. m \in Nat /\ k \in Nat /\ ~(<<k, m>> \in R)
      BY <1>3
    <2> QED
      BY <2>1 DEF R
  <1> QED
    BY <1>4

LEMMA MaxExists ==
    ASSUME NEW N \in Nat, NEW S \in SUBSET (0 .. N), S # {}
    PROVE  \E m \in S : \A k \in S : k <= m
  <1> DEFINE D == {N - k : k \in S}
  <1>1. \A k \in S : k \in Int /\ N - k \in Nat
    OBVIOUS
  <1>2. D \in SUBSET Nat /\ D # {}
    BY <1>1
  <1> HIDE DEF D
  <1>3. PICK d \in D : \A k \in D : d <= k
    BY <1>2, MinExists
  <1>4. PICK m \in S : d = N - m
    BY <1>3 DEF D
  <1>5. ASSUME NEW k \in S PROVE k <= m
    <2>1. N - k \in D
      BY DEF D
    <2>2. N - m <= N - k
      BY <2>1, <1>3, <1>4
    <2> QED
      BY <2>2, <1>1
  <1> QED
    BY <1>5

\* Where a client opened under LIMA_LIVE begins: with no row behind it that does not exist.
LEMMA LastRowid ==
    ASSUME ClientTypeOK, Numbered
    PROVE  last_rowid \in 0 .. sqlite_sequence
  <1>1. CASE rows = {}
    BY <1>1 DEF last_rowid, ClientTypeOK
  <1>2. CASE rows # {}
    <2>1. Ids # {} /\ Ids \in SUBSET (0 .. sqlite_sequence) /\ sqlite_sequence \in Nat
      BY <1>2 DEF Ids, ClientTypeOK, Numbered, Row
    <2>2. \E m \in Ids : \A k \in Ids : k <= m
      BY <2>1, MaxExists
    <2>3. last_rowid \in Ids
      BY <1>2, <2>2 DEF last_rowid
    <2> QED
      BY <2>1, <2>3
  <1> QED
    BY <1>1, <1>2

LEMMA OrderedFacts ==
    ASSUME NEW frames, NEW s \in Ordered(frames), MaxInserts \in Nat
    PROVE  /\ s \in Seq(frames)
           /\ frames = {s[i] : i \in DOMAIN s}
           /\ \A i, j \in DOMAIN s : i < j => s[i].id < s[j].id
  <1>1. s \in BoundedSeq(frames, MaxInserts)
    BY DEF Ordered
  <1>2. PICK m \in 0 .. MaxInserts : s \in [1 .. m -> frames]
    BY <1>1 DEF BoundedSeq, SeqOf
  <1> QED
    BY <1>2 DEF Ordered

LEMMA RemoveFacts ==
    ASSUME NEW S, NEW s \in Seq(S), NEW k \in DOMAIN s
    PROVE  /\ RemoveAt(s, k) \in Seq(S)
           /\ Len(RemoveAt(s, k)) = Len(s) - 1
           /\ \A j \in 1 .. Len(s) - 1 : RemoveAt(s, k)[j] = IF j < k THEN s[j] ELSE s[j + 1]
  <1> DEFINE a == SubSeq(s, 1, k - 1)
             b == SubSeq(s, k + 1, Len(s))
  <1>1. k \in 1 .. Len(s) /\ Len(s) \in Nat /\ \A j \in 1 .. Len(s) : s[j] \in S
    OBVIOUS
  <1>2. /\ a \in Seq(S) /\ Len(a) = k - 1
        /\ \A j \in 1 .. k - 1 : a[j] = s[j]
    BY <1>1, SubSeqProperties
  <1>3. /\ b \in Seq(S) /\ Len(b) = Len(s) - k
        /\ \A j \in 1 .. Len(s) - k : b[j] = s[k + j]
    <2>1. k + 1 \in Int /\ \A j \in k + 1 .. Len(s) : s[j] \in S
      BY <1>1
    <2>2. /\ b \in Seq(S)
          /\ Len(b) = IF k + 1 <= Len(s) THEN Len(s) - (k + 1) + 1 ELSE 0
          /\ \A j \in 1 .. Len(s) - (k + 1) + 1 : b[j] = s[(k + 1) + j - 1]
      BY <1>1, <2>1, SubSeqProperties
    <2> QED
      BY <1>1, <2>2
  <1>4. RemoveAt(s, k) = a \o b
    BY DEF RemoveAt
  <1> HIDE DEF a, b
  <1>5. /\ a \o b \in Seq(S) /\ Len(a \o b) = Len(a) + Len(b)
        /\ \A j \in 1 .. Len(a) + Len(b) : (a \o b)[j] = IF j <= Len(a) THEN a[j] ELSE b[j - Len(a)]
    BY <1>2, <1>3, ConcatProperties
  <1>6. ASSUME NEW j \in 1 .. Len(s) - 1
        PROVE  (a \o b)[j] = IF j < k THEN s[j] ELSE s[j + 1]
    <2>1. CASE j < k
      BY <2>1, <1>1, <1>2, <1>3, <1>5, SMTT(30)
    <2>2. CASE ~(j < k)
      <3>1. j - (k - 1) \in 1 .. Len(s) - k /\ ~(j <= k - 1)
        BY <2>2, <1>1
      <3>2. j \in 1 .. Len(a) + Len(b) /\ ~(j <= Len(a))
        BY <3>1, <1>1, <1>2, <1>3, SMTT(30)
      <3>3. (a \o b)[j] = b[j - Len(a)]
        BY <3>2, <1>5
      <3>4. j - Len(a) = j - (k - 1)
        BY <1>2
      <3> QED
        BY <3>1, <3>3, <3>4, <2>2, <1>1, <1>3, SMTT(30)
    <2> QED
      BY <2>1, <2>2
  <1>7. Len(a) + Len(b) = Len(s) - 1
    BY <1>1, <1>2, <1>3
  <1> QED
    BY <1>4, <1>5, <1>6, <1>7

----------------------------------------------------------------------------
(* What a step leaves alone.                                               *)

\* Statements of other programs: rows may go, or be acknowledged, but none comes.
Descend ==
    \A r \in rows' : \E s \in rows :
      /\ s.id = r.id /\ s.n = r.n /\ s.verified = r.verified
      /\ s.acked => r.acked

Apart(c) ==
    /\ list'[c] = list[c] /\ cursor'[c] = cursor[c] /\ errors'[c] = errors[c]
    /\ seen'[c] = seen[c] /\ erased'[c] = erased[c] /\ began'[c] = began[c]

\* All that a client's keys have no part in.
LEMMA KeepsAll ==
    ASSUME ClientInv, NEW c \in Clients, Descend, Apart(c)
    PROVE  Behind(c)' /\ Sorted(list[c])' /\ Sees(c)' /\ Lists(c)' /\ Omits(c)' /\ Acks(c)'
  <1>1. Follows(c)
    BY DEF ClientInv
  <1>2. RowIds(list[c])' = RowIds(list[c])
    BY DEF Apart, RowIds
  <1>3. Behind(c)' /\ Sorted(list[c])' /\ Omits(c)'
    BY <1>1, <1>2 DEF Apart, Follows, Behind, Sorted, Omits
  <1>4. Sees(c)'
    <2> SUFFICES ASSUME NEW r \in rows', r.verified, r.id > began[c], r.id <= cursor[c]
                 PROVE  r.n \in seen[c]
      BY DEF Apart, Sees
    <2>1. PICK s \in rows : s.id = r.id /\ s.n = r.n /\ s.verified = r.verified
      BY DEF Descend
    <2> QED
      BY <1>1, <2>1 DEF Follows, Sees
  <1>5. Lists(c)'
    <2> SUFFICES ASSUME NEW r \in rows', r.n \in seen[c], r.id \notin errors[c]
                 PROVE  r.id \in RowIds(list[c])
      BY <1>2 DEF Apart, Lists
    <2>1. PICK s \in rows : s.id = r.id /\ s.n = r.n
      BY DEF Descend
    <2> QED
      BY <1>1, <2>1 DEF Follows, Lists
  <1>6. Acks(c)'
    <2> SUFFICES ASSUME NEW k \in DOMAIN list[c], list[c][k].acked,
                        NEW r \in rows', r.id = list[c][k].rowid
                 PROVE  r.acked
      BY Zenon DEF Apart, Acks
    <2>1. PICK s \in rows : s.id = r.id /\ (s.acked => r.acked)
      BY DEF Descend
    <2> QED
      BY <1>1, <2>1 DEF Follows, Acks
  <1> QED
    BY <1>3, <1>4, <1>5, <1>6

LEMMA Keeps ==
    ASSUME ClientInv, NEW c \in Clients, Descend, Apart(c), selected'[c] = selected[c]
    PROVE  Follows(c)'
  <1>1. Selects(c)'
    BY DEF ClientInv, Follows, Selects, Apart
  <1> QED
    BY <1>1, KeepsAll DEF Follows

LEMMA AckStore ==
    ASSUME ClientTypeOK, Numbered, NEW id, ack_frame(id), inserted' = inserted
    PROVE  /\ rows' \subseteq Row /\ UNCHANGED sqlite_sequence /\ Numbered' /\ Descend
           /\ \A r \in rows' : r.id = id => r.acked
  <1> DEFINE New(r) == IF r.id = id THEN [r EXCEPT !.acked = TRUE] ELSE r
  <1>1. rows' = {New(r) : r \in rows} /\ UNCHANGED sqlite_sequence
    BY DEF ack_frame
  <1>2. rows \subseteq Row
    BY DEF ClientTypeOK
  <1>3. ASSUME NEW r \in rows
        PROVE  /\ New(r) \in Row /\ New(r).id = r.id /\ New(r).n = r.n /\ New(r).verified = r.verified
               /\ r.acked => New(r).acked
               /\ r.id = id => New(r).acked
    BY <1>2 DEF Row
  <1> HIDE DEF New
  <1>4. Descend
    BY <1>1, <1>3 DEF Descend
  <1>5. Numbered'
    <2>1. \A r \in rows' : r.id = r.n /\ r.id <= sqlite_sequence'
      BY <1>1, <1>3 DEF Numbered
    <2>2. ASSUME NEW r \in rows', NEW s \in rows', r.id = s.id
          PROVE  r = s
      <3>1. PICK q \in rows : r = New(q)
        BY <1>1
      <3>2. PICK t \in rows : s = New(t)
        BY <1>1
      <3>3. q = t
        BY <3>1, <3>2, <2>2, <1>3 DEF Numbered
      <3> QED
        BY <3>1, <3>2, <3>3
    <2> QED
      BY <1>1, <2>1, <2>2 DEF Numbered
  <1> QED
    BY <1>1, <1>3, <1>4, <1>5

LEMMA DeleteStore ==
    ASSUME ClientTypeOK, Numbered, NEW id, delete_frame(id), inserted' = inserted
    PROVE  /\ rows' \subseteq rows /\ UNCHANGED sqlite_sequence /\ Numbered' /\ Descend
           /\ \A r \in rows' : r.id # id
  BY DEF delete_frame, Numbered, Descend

LEMMA SameStore ==
    ASSUME ClientTypeOK, Numbered, UNCHANGED store, inserted' = inserted
    PROVE  rows' = rows /\ UNCHANGED sqlite_sequence /\ Numbered' /\ Descend
  BY DEF store, Numbered, Descend

----------------------------------------------------------------------------
(* One lemma for each kind of step.                                        *)

Entry == [rowid : 1 .. sqlite_sequence, acked : BOOLEAN]

LEMMA TypeParts ==
    ASSUME ClientInv, NEW c \in Clients
    PROVE  /\ list[c] \in Seq(Entry) /\ Len(list[c]) \in Nat /\ DOMAIN list[c] = 1 .. Len(list[c])
           /\ selected[c] \in Nat /\ cursor[c] \in 0 .. sqlite_sequence /\ sqlite_sequence \in Nat
           /\ began[c] \in 0 .. sqlite_sequence
           /\ errors[c] \subseteq 1 .. sqlite_sequence /\ erased[c] \subseteq 1 .. sqlite_sequence
           /\ seen[c] \subseteq 1 .. MaxInserts
           /\ Follows(c) /\ MaxInserts \in Nat
  <1>1. list[c] \in Seq(Entry)
    BY DEF ClientInv, ClientTypeOK, Entry
  <1> QED
    BY <1>1, ClientBoundAssumption DEF ClientInv, ClientTypeOK

LEMMA LeaveStep ==
    ASSUME ClientInv, NEW c \in Clients, Leave(c)
    PROVE  ClientInv'
  <1>1. ClientTypeOK'
    BY DEF ClientInv, ClientTypeOK, Leave, store
  <1>2. Descend /\ Numbered'
    BY SameStore DEF Leave, ClientInv
  <1>3. ASSUME NEW d \in Clients
        PROVE  Follows(d)'
    BY <1>2, Keeps DEF Leave, Apart
  <1> QED
    BY <1>1, <1>2, <1>3 DEF ClientInv

LEMMA InsertStep ==
    ASSUME ClientInv, gateway_inserts
    PROVE  ClientInv'
  <1>1. PICK verified \in BOOLEAN : db_insert(inserted + 1, verified)
    BY DEF gateway_inserts
  <1> DEFINE new == [id |-> sqlite_sequence + 1, n |-> inserted + 1, verified |-> verified, acked |-> FALSE]
  <1>2. /\ inserted \in Nat /\ sqlite_sequence = inserted /\ inserted + 1 <= MaxInserts
        /\ MaxInserts \in Nat /\ rows \subseteq Row
    BY ClientBoundAssumption DEF ClientInv, ClientTypeOK, Numbered, gateway_inserts
  <1>3. /\ rows' = rows \cup {new} /\ sqlite_sequence' = sqlite_sequence + 1
        /\ inserted' = inserted + 1
    BY <1>1, <1>2 DEF db_insert, insert_id, gateway_inserts
  <1>4. /\ new.id = sqlite_sequence + 1 /\ new.n = sqlite_sequence + 1 /\ new.acked = FALSE
        /\ new \in Row
    BY <1>2 DEF Row
  <1> HIDE DEF new
  <1>5. Numbered'
    <2>1. \A r \in rows : r.id \in Nat /\ r.id = r.n /\ r.id <= sqlite_sequence
      BY <1>2 DEF ClientInv, Numbered, Row
    <2>2. \A r \in rows : ~(r.id = new.id)
      BY <2>1, <1>2, <1>4
    <2>3. \A r, t \in rows' : r.id = t.id => r = t
      BY <2>2, <1>3 DEF ClientInv, Numbered
    <2>4. \A r \in rows' : r.id = r.n /\ r.id <= sqlite_sequence'
      BY <2>1, <1>2, <1>3, <1>4
    <2> QED
      BY <2>3, <2>4, <1>2, <1>3 DEF Numbered
  <1>6. /\ UNCHANGED <<client_pc, cursor, list, selected, errors, opens, began, seen, erased>>
    BY DEF gateway_inserts
  <1>7. ASSUME NEW c \in Clients
        PROVE  /\ list'[c] \in Seq(Entry') /\ cursor'[c] \in 0 .. sqlite_sequence'
               /\ began'[c] \in 0 .. sqlite_sequence'
               /\ errors'[c] \subseteq 1 .. sqlite_sequence' /\ erased'[c] \subseteq 1 .. sqlite_sequence'
    <2>1. Entry \subseteq Entry'
      BY <1>2, <1>3 DEF Entry
    <2>2. list[c] \in Seq(Entry')
      BY <2>1, TypeParts
    <2> QED
      BY <2>2, <1>2, <1>3, <1>6, TypeParts
  <1>8. ClientTypeOK'
    <2>1. /\ cursor' \in [Clients -> 0 .. sqlite_sequence'] /\ began' \in [Clients -> 0 .. sqlite_sequence']
          /\ list' \in [Clients -> Seq(Entry')]
          /\ errors' \in [Clients -> SUBSET (1 .. sqlite_sequence')]
          /\ erased' \in [Clients -> SUBSET (1 .. sqlite_sequence')]
      BY <1>6, <1>7 DEF ClientInv, ClientTypeOK
    <2>2. /\ client_pc' \in [Clients -> {"closed", "keys", "poll"}]
          /\ selected' \in [Clients -> Nat] /\ \A c \in Clients : selected'[c] <= Len(list'[c])
          /\ opens' \in 0 .. MaxOpens /\ seen' \in [Clients -> SUBSET (1 .. MaxInserts)]
      BY <1>6 DEF ClientInv, ClientTypeOK
    <2>3. /\ rows' \subseteq Row /\ inserted' \in 0 .. MaxInserts /\ sqlite_sequence' \in 0 .. MaxInserts
      BY <1>2, <1>3, <1>4
    <2> QED
      BY <2>1, <2>2, <2>3 DEF ClientTypeOK, Entry
  <1>9. ASSUME NEW c \in Clients
        PROVE  Follows(c)'
    <2>1. Follows(c) /\ cursor[c] \in 0 .. sqlite_sequence
      BY TypeParts
    <2>2. new.id \notin RowIds(list[c]) /\ new.n \notin seen[c] /\ ~(new.id <= cursor[c])
      BY <2>1, <1>2, <1>4 DEF Follows, Behind
    <2>3. Behind(c)' /\ Sorted(list[c])' /\ Omits(c)' /\ Selects(c)'
      BY <2>1, <1>6 DEF Follows, Behind, Sorted, Omits, Selects, RowIds
    <2>4. Sees(c)' /\ Lists(c)'
      BY <2>1, <2>2, <1>3, <1>6 DEF Follows, Sees, Lists, RowIds
    <2>5. Acks(c)'
      <3> SUFFICES ASSUME NEW k \in DOMAIN list[c], list[c][k].acked,
                          NEW r \in rows \cup {new}, r.id = list[c][k].rowid
                   PROVE  r.acked
        BY <1>3, <1>6, Zenon DEF Acks
      <3>1. r.id \in RowIds(list[c])
        BY DEF RowIds
      <3>2. r \in rows
        BY <3>1, <2>2
      <3> QED
        BY <3>2, <2>1 DEF Follows, Acks
    <2> QED
      BY <2>3, <2>4, <2>5 DEF Follows
  <1> QED
    BY <1>5, <1>8, <1>9 DEF ClientInv

\* Keys that move the selection, or do nothing.
LEMMA MoveStep ==
    ASSUME ClientInv, NEW c \in Clients, Key(c), UNCHANGED <<list, erased, store>>,
           NEW to, selected' = [selected EXCEPT ![c] = to],
           IF list[c] = <<>> THEN to = 0 ELSE to \in DOMAIN list[c]
    PROVE  ClientInv'
  <1>1. to \in Nat /\ to <= Len(list[c])
    BY TypeParts
  <1>2. selected'[c] = to /\ \A d \in Clients \ {c} : selected'[d] = selected[d]
    BY DEF ClientInv, ClientTypeOK
  <1>3. ClientTypeOK'
    BY <1>1, <1>2 DEF ClientInv, ClientTypeOK, Key, store
  <1>4. Descend /\ Numbered'
    BY SameStore DEF Key, ClientInv
  <1>5. ASSUME NEW d \in Clients
        PROVE  Follows(d)'
    <2>1. Apart(d)
      BY DEF Apart, Key
    <2>2. CASE d # c
      BY <2>1, <2>2, <1>2, <1>4, Keeps
    <2>3. CASE d = c
      <3>1. Selects(c)'
        BY <1>2 DEF Selects
      <3> QED
        BY <2>1, <2>3, <3>1, <1>4, KeepsAll DEF Follows
    <2> QED
      BY <2>2, <2>3
  <1> QED
    BY <1>3, <1>4, <1>5 DEF ClientInv

\* Acknowledging an entry leaves which rows a list holds, and their order.
LEMMA MarkFacts ==
    ASSUME NEW N, NEW s \in Seq([rowid : N, acked : BOOLEAN]), NEW k \in DOMAIN s,
           NEW t, t = [s EXCEPT ![k].acked = TRUE]
    PROVE  /\ t \in Seq([rowid : N, acked : BOOLEAN]) /\ Len(t) = Len(s) /\ DOMAIN t = DOMAIN s
           /\ \A j \in DOMAIN s : t[j].rowid = s[j].rowid
           /\ \A j \in DOMAIN s : t[j].acked => j = k \/ s[j].acked
           /\ RowIds(t) = RowIds(s)
           /\ Sorted(s) => Sorted(t)
  <1> DEFINE R == [rowid : N, acked : BOOLEAN]
             shown == [s[k] EXCEPT !.acked = TRUE]
  <1>1. s \in Seq(R)
    OBVIOUS
  <1>2. t = [s EXCEPT ![k] = shown]
    OBVIOUS
  <1> HIDE DEF R, shown
  <1>3. DOMAIN s = 1 .. Len(s) /\ k \in 1 .. Len(s) /\ s[k] \in R /\ Len(s) \in Nat
    BY <1>1
  <1>4. shown \in R /\ shown.rowid = s[k].rowid
    BY <1>3 DEF R, shown
  <1>5. /\ t \in Seq(R) /\ Len(t) = Len(s)
        /\ \A j \in 1 .. Len(s) : t[j] = IF j = k THEN shown ELSE s[j]
    <2>1. k \in 1 .. Len(s)
      BY <1>3
    <2>2. /\ [s EXCEPT ![k] = shown] \in Seq(R) /\ Len([s EXCEPT ![k] = shown]) = Len(s)
          /\ \A j \in 1 .. Len(s) : [s EXCEPT ![k] = shown][j] = IF j = k THEN shown ELSE s[j]
      BY <1>1, <1>4, <2>1, ExceptSeq
    <2> QED
      BY <2>2, <1>2
  <1>6. DOMAIN t = DOMAIN s
    BY <1>3, <1>5
  <1>7. \A j \in DOMAIN s : t[j].rowid = s[j].rowid
    BY <1>3, <1>4, <1>5
  <1>8. ASSUME NEW j \in DOMAIN s, t[j].acked, j # k PROVE s[j].acked
    <2>1. t[j] = s[j]
      BY <1>3, <1>5, <1>8
    <2> QED
      BY <2>1, <1>8
  <1>9. RowIds(t) \subseteq RowIds(s) /\ RowIds(s) \subseteq RowIds(t)
    BY <1>6, <1>7 DEF RowIds
  <1>10. Sorted(s) => Sorted(t)
    BY <1>6, <1>7 DEF Sorted
  <1> QED
    BY <1>5, <1>6, <1>7, <1>8, <1>9, <1>10 DEF R

LEMMA AckStep ==
    ASSUME ClientInv, NEW c \in Clients, ack_key(c)
    PROVE  ClientInv'
  <1> DEFINE k == selected[c]
  <1>1. /\ k \in DOMAIN list[c] /\ list[c] \in Seq(Entry) /\ Follows(c)
    BY TypeParts DEF ack_key
  <1>2. /\ list'[c] = [list[c] EXCEPT ![k].acked = TRUE]
        /\ \A d \in Clients \ {c} : list'[d] = list[d]
    BY DEF ack_key, ClientInv, ClientTypeOK
  <1>3. /\ list'[c] \in Seq(Entry) /\ Len(list'[c]) = Len(list[c]) /\ DOMAIN list'[c] = DOMAIN list[c]
        /\ \A j \in DOMAIN list[c] : list'[c][j].rowid = list[c][j].rowid
        /\ \A j \in DOMAIN list[c] : list'[c][j].acked => j = k \/ list[c][j].acked
        /\ RowIds(list'[c]) = RowIds(list[c])
        /\ Sorted(list[c]) => Sorted(list'[c])
    BY <1>1, <1>2, MarkFacts DEF Entry
  <1>4. /\ ack_frame(list[c][k].rowid) /\ inserted' = inserted /\ UNCHANGED <<selected, erased>>
        /\ UNCHANGED <<cursor, errors, opens, seen, began>>
        /\ client_pc' = [client_pc EXCEPT ![c] = "poll"]
    BY DEF ack_key, selected_rowid, Key
  <1>5. /\ rows' \subseteq Row /\ UNCHANGED sqlite_sequence /\ Numbered' /\ Descend
        /\ \A r \in rows' : r.id = list[c][k].rowid => r.acked
    BY <1>4, AckStore DEF ClientInv
  <1>6. ClientTypeOK'
    <2>1. list' \in [Clients -> Seq(Entry)] /\ \A d \in Clients : Len(list'[d]) = Len(list[d])
      BY <1>2, <1>3 DEF ack_key, ClientInv, ClientTypeOK, Entry
    <2> QED
      BY <2>1, <1>4, <1>5 DEF ClientInv, ClientTypeOK, Entry
  <1>7. Follows(c)'
    <2>1. Behind(c)' /\ Omits(c)' /\ Sorted(list[c])'
      BY <1>1, <1>3, <1>4 DEF Follows, Behind, Omits, Sorted, RowIds
    <2>2. Selects(c)'
      BY <1>1, <1>3, <1>4 DEF Selects
    <2>3. Sees(c)'
      BY <1>1, <1>4, <1>5 DEF Follows, Sees, Descend
    <2>4. Lists(c)'
      <3> SUFFICES ASSUME NEW r \in rows', r.n \in seen[c], r.id \notin errors[c]
                   PROVE  r.id \in RowIds(list'[c])
        BY <1>4 DEF Lists, RowIds
      <3>1. PICK s \in rows : s.id = r.id /\ s.n = r.n
        BY <1>5 DEF Descend
      <3> QED
        BY <3>1, <1>1, <1>3 DEF Follows, Lists
    <2>5. ASSUME NEW j \in DOMAIN list'[c], list'[c][j].acked,
                 NEW r \in rows', r.id = list'[c][j].rowid
          PROVE  r.acked
      <3>1. j \in DOMAIN list[c] /\ r.id = list[c][j].rowid /\ (j = k \/ list[c][j].acked)
        BY <2>5, <1>3
      <3>2. CASE j = k
        BY <3>1, <3>2, <1>5
      <3>3. CASE list[c][j].acked
        <4>1. PICK s \in rows : s.id = r.id /\ (s.acked => r.acked)
          BY <1>5 DEF Descend
        <4>2. s.acked
          BY <4>1, <3>1, <3>3, <1>1 DEF Follows, Acks
        <4> QED
          BY <4>1, <4>2
      <3> QED
        BY <3>1, <3>2, <3>3
    <2>6. Acks(c)'
      BY <2>5 DEF Acks
    <2> QED
      BY <2>1, <2>2, <2>3, <2>4, <2>6 DEF Follows
  <1>8. ASSUME NEW d \in Clients, d # c
        PROVE  Follows(d)'
    BY <1>2, <1>4, <1>5, <1>8, Keeps DEF Apart
  <1> QED
    BY <1>5, <1>6, <1>7, <1>8 DEF ClientInv

\* Removing an entry of an ordered list takes its row out of the list, and no other.
LEMMA RemoveIds ==
    ASSUME NEW N \in Nat, NEW s \in Seq([rowid : 1 .. N, acked : BOOLEAN]), NEW k \in DOMAIN s,
           Sorted(s), NEW t, t = RemoveAt(s, k)
    PROVE  /\ t \in Seq([rowid : 1 .. N, acked : BOOLEAN]) /\ Len(t) = Len(s) - 1
           /\ \A j \in DOMAIN t : \E i \in DOMAIN s : t[j] = s[i]
           /\ RowIds(t) = RowIds(s) \ {s[k].rowid}
           /\ Sorted(t)
  <1> DEFINE R == [rowid : 1 .. N, acked : BOOLEAN]
             from(j) == IF j < k THEN j ELSE j + 1
  <1>1. s \in Seq(R)
    OBVIOUS
  <1> HIDE DEF R
  <1>2. /\ t \in Seq(R) /\ Len(t) = Len(s) - 1 /\ Len(s) \in Nat /\ k \in 1 .. Len(s)
        /\ DOMAIN t = 1 .. Len(s) - 1 /\ DOMAIN s = 1 .. Len(s)
        /\ \A j \in 1 .. Len(s) - 1 : t[j] = IF j < k THEN s[j] ELSE s[j + 1]
    <2>1. /\ RemoveAt(s, k) \in Seq(R) /\ Len(RemoveAt(s, k)) = Len(s) - 1
          /\ \A j \in 1 .. Len(s) - 1 : RemoveAt(s, k)[j] = IF j < k THEN s[j] ELSE s[j + 1]
      BY <1>1, RemoveFacts
    <2>2. Len(s) \in Nat /\ DOMAIN s = 1 .. Len(s) /\ k \in 1 .. Len(s)
      BY <1>1
    <2> QED
      BY <2>1, <2>2
  <1>3. \A i \in DOMAIN s : s[i].rowid \in Nat
    <2>1. \A i \in DOMAIN s : s[i] \in R
      BY <1>1
    <2> QED
      BY <2>1 DEF R
  <1>4. ASSUME NEW j \in DOMAIN t
        PROVE  from(j) \in DOMAIN s /\ from(j) # k /\ t[j] = s[from(j)]
    <2>1. CASE j < k
      BY <2>1, <1>2, SMTT(30)
    <2>2. CASE ~(j < k)
      BY <2>2, <1>2
    <2> QED
      BY <2>1, <2>2
  <1>5. \A i, j \in DOMAIN t : i < j => from(i) < from(j)
    BY <1>2, SMTT(30)
  <1>6. ASSUME NEW i \in DOMAIN s, i # k PROVE \E j \in DOMAIN t : from(j) = i
    <2>1. CASE i < k
      BY <2>1, <1>2
    <2>2. CASE i > k
      <3>1. i - 1 \in DOMAIN t /\ ~(i - 1 < k) /\ (i - 1) + 1 = i
        BY <2>2, <1>2
      <3> QED
        BY <3>1
    <2> QED
      BY <2>1, <2>2, <1>6, <1>2
  <1>7. ASSUME NEW i \in DOMAIN s, i # k
        PROVE  s[i].rowid # s[k].rowid
    <2>1. s[i].rowid \in Nat /\ s[k].rowid \in Nat /\ (i < k \/ k < i)
      BY <1>2, <1>3, <1>7
    <2>2. s[i].rowid < s[k].rowid \/ s[k].rowid < s[i].rowid
      BY <2>1 DEF Sorted
    <2> QED
      BY <2>1, <2>2
  <1> HIDE DEF from
  <1>8. RowIds(t) \subseteq RowIds(s) \ {s[k].rowid}
    BY <1>4, <1>7 DEF RowIds
  <1>9. RowIds(s) \ {s[k].rowid} \subseteq RowIds(t)
    BY <1>4, <1>6 DEF RowIds
  <1>10. Sorted(t)
    BY <1>4, <1>5 DEF Sorted
  <1> QED
    BY <1>2, <1>4, <1>8, <1>9, <1>10 DEF R

LEMMA DeleteStep ==
    ASSUME ClientInv, NEW c \in Clients, delete_key(c)
    PROVE  ClientInv'
  <1> DEFINE k == selected[c]
             id == list[c][k].rowid
  <1>1. /\ k \in DOMAIN list[c] /\ list[c] \in Seq(Entry) /\ Follows(c) /\ sqlite_sequence \in Nat
        /\ k \in 1 .. Len(list[c]) /\ Len(list[c]) \in Nat
    BY TypeParts DEF delete_key
  <1>2. /\ list'[c] = RemoveAt(list[c], k)
        /\ erased'[c] = erased[c] \cup {id}
        /\ selected'[c] = Smaller(k, Len(list[c]) - 1)
        /\ \A d \in Clients \ {c} : /\ list'[d] = list[d] /\ erased'[d] = erased[d]
                                    /\ selected'[d] = selected[d]
    BY DEF delete_key, selected_rowid, ClientInv, ClientTypeOK
  <1>3. /\ list'[c] \in Seq(Entry) /\ Len(list'[c]) = Len(list[c]) - 1
        /\ \A j \in DOMAIN list'[c] : \E i \in DOMAIN list[c] : list'[c][j] = list[c][i]
        /\ RowIds(list'[c]) = RowIds(list[c]) \ {id}
        /\ Sorted(list'[c])
    BY <1>1, <1>2, RemoveIds, SMTT(30) DEF Entry, Follows
  <1>4. /\ delete_frame(id) /\ inserted' = inserted
        /\ UNCHANGED <<cursor, errors, opens, seen, began>>
        /\ client_pc' = [client_pc EXCEPT ![c] = "poll"]
    BY DEF delete_key, selected_rowid, Key
  <1>5. /\ rows' \subseteq rows /\ UNCHANGED sqlite_sequence /\ Numbered' /\ Descend
        /\ \A r \in rows' : r.id # id
    BY <1>4, DeleteStore DEF ClientInv
  <1>6. id \in 1 .. sqlite_sequence /\ id \in RowIds(list[c])
    <2>1. list[c][k] \in Entry
      BY <1>1
    <2> QED
      BY <2>1, <1>1 DEF Entry, RowIds
  <1>7. ClientTypeOK'
    <2>1. list' \in [Clients -> Seq(Entry)]
      BY <1>2, <1>3 DEF delete_key, ClientInv, ClientTypeOK, Entry
    <2>2. erased' \in [Clients -> SUBSET (1 .. sqlite_sequence)]
      BY <1>2, <1>6 DEF delete_key, ClientInv, ClientTypeOK
    <2>3. selected'[c] \in Nat /\ selected'[c] <= Len(list'[c])
      BY <1>1, <1>2, <1>3 DEF Smaller
    <2>4. selected' \in [Clients -> Nat] /\ \A d \in Clients : selected'[d] <= Len(list'[d])
      BY <1>2, <2>3 DEF delete_key, ClientInv, ClientTypeOK
    <2> QED
      BY <2>1, <2>2, <2>4, <1>4, <1>5 DEF ClientInv, ClientTypeOK, Entry
  <1>8. Follows(c)'
    <2>1. Behind(c)' /\ Omits(c)' /\ Sorted(list[c])'
      BY <1>1, <1>2, <1>3, <1>4, <1>6, ZenonT(60) DEF Follows, Behind, Omits, Sorted, RowIds
    <2>2. Selects(c)'
      <3>1. Len(list'[c]) \in Nat /\ DOMAIN list'[c] = 1 .. Len(list'[c])
            /\ (list'[c] = <<>> <=> Len(list'[c]) = 0)
        <4>1. list'[c] # <<>> => Len(list'[c]) \in Nat \ {0}
          BY <1>3, EmptySeq
        <4>2. Len(list'[c]) \in Nat /\ DOMAIN list'[c] = 1 .. Len(list'[c])
          BY <1>3
        <4> QED
          BY <4>1, <4>2, EmptySeq
      <3> QED
        BY <3>1, <1>1, <1>2, <1>3 DEF Selects, Smaller
    <2>3. Sees(c)'
      BY <1>1, <1>4, <1>5 DEF Follows, Sees
    <2>4. Lists(c)'
      BY <1>1, <1>3, <1>4, <1>5 DEF Follows, Lists, RowIds
    <2>5. ASSUME NEW j \in DOMAIN list'[c], list'[c][j].acked,
                 NEW r \in rows', r.id = list'[c][j].rowid
          PROVE  r.acked
      <3>1. PICK i \in DOMAIN list[c] : list'[c][j] = list[c][i]
        BY <1>3
      <3> QED
        BY <3>1, <2>5, <1>1, <1>5 DEF Follows, Acks
    <2>6. Acks(c)'
      BY <2>5 DEF Acks
    <2> QED
      BY <2>1, <2>2, <2>3, <2>4, <2>6 DEF Follows
  <1>9. ASSUME NEW d \in Clients, d # c
        PROVE  Follows(d)'
    BY <1>2, <1>4, <1>5, <1>9, Keeps DEF Apart
  <1> QED
    BY <1>5, <1>7, <1>8, <1>9 DEF ClientInv

----------------------------------------------------------------------------
(* The poll.                                                               *)

LEMMA LastFacts ==
    ASSUME NEW frames, frames # {}, \A f \in frames : f.id \in Nat,
           NEW s \in Ordered(frames), MaxInserts \in Nat
    PROVE  Last(s) \in frames /\ \A f \in frames : f.id <= Last(s).id
  <1>1. /\ s \in Seq(frames) /\ frames = {s[i] : i \in DOMAIN s}
        /\ \A i, j \in DOMAIN s : i < j => s[i].id < s[j].id
    BY OrderedFacts
  <1>2. DOMAIN s = 1 .. Len(s) /\ Len(s) \in Nat
    BY <1>1
  <1>3. Len(s) \in DOMAIN s
    BY <1>1, <1>2
  <1>4. Last(s) \in frames
    BY <1>1, <1>3 DEF Last
  <1>5. ASSUME NEW f \in frames
        PROVE  f.id <= Last(s).id
    <2>1. PICK i \in DOMAIN s : f = s[i]
      BY <1>1
    <2>2. CASE i = Len(s)
      BY <2>1, <2>2 DEF Last
    <2>3. CASE i < Len(s)
      <3>1. s[i].id < s[Len(s)].id
        BY <2>3, <1>1, <1>3
      <3> QED
        BY <3>1, <2>1, <1>4 DEF Last
    <2> QED
      BY <2>2, <2>3, <1>2
  <1> QED
    BY <1>4, <1>5

\* What a poll appends: the new rows that decrypt, by ascending id.
LEMMA PushFacts ==
    ASSUME NEW N \in Nat, NEW frames, \A f \in frames : f.id \in 1 .. N,
           NEW s \in Ordered(frames), MaxInserts \in Nat,
           NEW e, e = [i \in DOMAIN s |-> push_event(s[i])]
    PROVE  /\ e \in Seq([rowid : 1 .. N, acked : BOOLEAN])
           /\ Sorted(e)
           /\ RowIds(e) = {f.id : f \in frames}
           /\ \A i \in DOMAIN e : ~e[i].acked
  <1> DEFINE R == [rowid : 1 .. N, acked : BOOLEAN]
  <1>1. /\ s \in Seq(frames) /\ frames = {s[i] : i \in DOMAIN s}
        /\ \A i, j \in DOMAIN s : i < j => s[i].id < s[j].id
    BY OrderedFacts
  <1>2. DOMAIN s = 1 .. Len(s) /\ Len(s) \in Nat /\ DOMAIN e = DOMAIN s
    BY <1>1
  <1>3. \A i \in DOMAIN s : e[i] \in R /\ e[i].rowid = s[i].id /\ ~e[i].acked
    BY <1>1 DEF push_event
  <1> HIDE DEF R
  <1>4. e \in Seq(R)
    <2>1. e \in [1 .. Len(s) -> R]
      BY <1>2, <1>3
    <2> QED
      BY <2>1, <1>2
  <1>5. Sorted(e)
    BY <1>1, <1>2, <1>3 DEF Sorted
  <1>6. RowIds(e) = {f.id : f \in frames}
    <2>1. RowIds(e) \subseteq {f.id : f \in frames}
      BY <1>1, <1>2, <1>3 DEF RowIds
    <2>2. ASSUME NEW f \in frames
          PROVE  f.id \in RowIds(e)
      <3>1. PICK i \in DOMAIN s : f = s[i]
        BY <1>1
      <3> QED
        BY <3>1, <1>2, <1>3 DEF RowIds
    <2> QED
      BY <2>1, <2>2
  <1> QED
    BY <1>2, <1>3, <1>4, <1>5, <1>6 DEF R

LEMMA AppendRowIds ==
    ASSUME NEW R, NEW s \in Seq(R), NEW e \in Seq(R)
    PROVE  RowIds(s \o e) = RowIds(s) \cup RowIds(e)
  <1> DEFINE t == s \o e
  <1>1. /\ t \in Seq(R) /\ Len(t) = Len(s) + Len(e)
        /\ \A i \in 1 .. Len(s) + Len(e) : t[i] = IF i <= Len(s) THEN s[i] ELSE e[i - Len(s)]
    BY ConcatProperties
  <1> HIDE DEF t
  <1>2. /\ Len(s) \in Nat /\ Len(e) \in Nat /\ DOMAIN s = 1 .. Len(s) /\ DOMAIN e = 1 .. Len(e)
        /\ DOMAIN t = 1 .. Len(s) + Len(e)
    BY <1>1
  <1>3. ASSUME NEW j \in DOMAIN t
        PROVE  (j \in DOMAIN s /\ t[j] = s[j]) \/ (j - Len(s) \in DOMAIN e /\ t[j] = e[j - Len(s)])
    BY <1>1, <1>2
  <1>4. \A j \in DOMAIN s : j \in DOMAIN t /\ t[j] = s[j]
    BY <1>1, <1>2
  <1>5. ASSUME NEW j \in DOMAIN e PROVE Len(s) + j \in DOMAIN t /\ t[Len(s) + j] = e[j]
    <2>1. Len(s) + j \in 1 .. Len(s) + Len(e) /\ ~(Len(s) + j <= Len(s)) /\ (Len(s) + j) - Len(s) = j
      BY <1>2
    <2> QED
      BY <2>1, <1>1, <1>2
  <1>6. RowIds(t) \subseteq RowIds(s) \cup RowIds(e)
    BY <1>3 DEF RowIds
  <1>7. RowIds(s) \subseteq RowIds(t) /\ RowIds(e) \subseteq RowIds(t)
    BY <1>4, <1>5 DEF RowIds
  <1> QED
    BY <1>6, <1>7 DEF t

LEMMA AppendIds ==
    ASSUME NEW R, NEW s \in Seq(R), NEW e \in Seq(R),
           Sorted(s), Sorted(e), \A i \in RowIds(s), j \in RowIds(e) : i < j,
           NEW t, t = s \o e
    PROVE  /\ t \in Seq(R) /\ Len(t) = Len(s) + Len(e)
           /\ Sorted(t)
           /\ \A j \in DOMAIN t : (j \in DOMAIN s /\ t[j] = s[j]) \/ \E i \in DOMAIN e : t[j] = e[i]
  <1>1. /\ t \in Seq(R) /\ Len(t) = Len(s) + Len(e)
        /\ \A i \in 1 .. Len(s) + Len(e) : t[i] = IF i <= Len(s) THEN s[i] ELSE e[i - Len(s)]
    BY ConcatProperties
  <1>2. /\ Len(s) \in Nat /\ Len(e) \in Nat /\ DOMAIN s = 1 .. Len(s) /\ DOMAIN e = 1 .. Len(e)
        /\ DOMAIN t = 1 .. Len(s) + Len(e)
    BY <1>1
  <1>3. \A j \in DOMAIN s : j \in DOMAIN t /\ t[j] = s[j]
    BY <1>1, <1>2
  <1>4. ASSUME NEW j \in DOMAIN e PROVE Len(s) + j \in DOMAIN t /\ t[Len(s) + j] = e[j]
    <2>1. Len(s) + j \in 1 .. Len(s) + Len(e) /\ ~(Len(s) + j <= Len(s)) /\ (Len(s) + j) - Len(s) = j
      BY <1>2
    <2> QED
      BY <2>1, <1>1, <1>2
  <1>5. ASSUME NEW j \in DOMAIN t
        PROVE  (j \in DOMAIN s /\ t[j] = s[j]) \/ (~(j \in DOMAIN s) /\ j - Len(s) \in DOMAIN e /\ t[j] = e[j - Len(s)])
    BY <1>1, <1>2
  <1>6. Sorted(t)
    <2> SUFFICES ASSUME NEW i \in DOMAIN t, NEW j \in DOMAIN t, i < j
                 PROVE  t[i].rowid < t[j].rowid
      BY DEF Sorted
    <2>1. CASE j \in DOMAIN s
      BY <2>1, <1>2, <1>3 DEF Sorted
    <2>2. CASE i \in DOMAIN s /\ ~(j \in DOMAIN s)
      <3>1. t[i].rowid \in RowIds(s) /\ t[j].rowid \in RowIds(e)
        BY <2>2, <1>5 DEF RowIds
      <3> QED
        BY <3>1
    <2>3. CASE ~(i \in DOMAIN s) /\ ~(j \in DOMAIN s)
      <3>1. i - Len(s) \in DOMAIN e /\ j - Len(s) \in DOMAIN e /\ i - Len(s) < j - Len(s)
            /\ t[i] = e[i - Len(s)] /\ t[j] = e[j - Len(s)]
        BY <2>3, <1>5, <1>2
      <3> QED
        BY <3>1 DEF Sorted
    <2> QED
      BY <2>1, <2>2, <2>3, <1>2
  <1> QED
    BY <1>1, <1>5, <1>6

LEMMA PollStep ==
    ASSUME ClientInv, NEW c \in Clients, poll(c)
    PROVE  ClientInv'
  <1> DEFINE frames == poll_new_frames(cursor[c])
  <1>1. PICK new \in Ordered(frames), corrupt \in SUBSET frames : \E shown \in Ordered(frames \ corrupt) :
          LET entries == [i \in DOMAIN shown |-> push_event(shown[i])]
          IN  /\ cursor' = [cursor EXCEPT ![c] = IF frames = {} THEN @ ELSE Last(new).id]
              /\ list' = [list EXCEPT ![c] = @ \o entries]
              /\ errors' = [errors EXCEPT ![c] = @ \cup {r.id : r \in corrupt}]
              /\ selected' = [selected EXCEPT ![c] = IF @ = 0 /\ entries # <<>> THEN 1 ELSE @]
              /\ seen' = [seen EXCEPT ![c] = @ \cup {r.n : r \in frames}]
    BY DEF poll, decrypt_ler
  <1>2. PICK shown \in Ordered(frames \ corrupt) :
          LET entries == [i \in DOMAIN shown |-> push_event(shown[i])]
          IN  /\ cursor' = [cursor EXCEPT ![c] = IF frames = {} THEN @ ELSE Last(new).id]
              /\ list' = [list EXCEPT ![c] = @ \o entries]
              /\ errors' = [errors EXCEPT ![c] = @ \cup {r.id : r \in corrupt}]
              /\ selected' = [selected EXCEPT ![c] = IF @ = 0 /\ entries # <<>> THEN 1 ELSE @]
              /\ seen' = [seen EXCEPT ![c] = @ \cup {r.n : r \in frames}]
    BY <1>1
  <1> DEFINE entries == [i \in DOMAIN shown |-> push_event(shown[i])]
             N == sqlite_sequence
  <1>3. /\ list[c] \in Seq(Entry) /\ Follows(c) /\ N \in Nat /\ cursor[c] \in 0 .. N
        /\ Len(list[c]) \in Nat /\ DOMAIN list[c] = 1 .. Len(list[c])
        /\ MaxInserts \in Nat /\ errors[c] \subseteq 1 .. N /\ seen[c] \subseteq 1 .. MaxInserts
        /\ selected[c] \in Nat
    BY TypeParts
  <1>4. /\ cursor'[c] = IF frames = {} THEN cursor[c] ELSE Last(new).id
        /\ list'[c] = list[c] \o entries
        /\ errors'[c] = errors[c] \cup {r.id : r \in corrupt}
        /\ selected'[c] = IF selected[c] = 0 /\ entries # <<>> THEN 1 ELSE selected[c]
        /\ seen'[c] = seen[c] \cup {r.n : r \in frames}
    BY <1>2 DEF ClientInv, ClientTypeOK
  <1>5. /\ UNCHANGED <<opens, inserted, began, erased, store, rows, sqlite_sequence>>
        /\ client_pc' = [client_pc EXCEPT ![c] = "keys"]
    BY DEF poll, store
  <1>6. ASSUME NEW d \in Clients, d # c
        PROVE  /\ cursor'[d] = cursor[d] /\ list'[d] = list[d] /\ errors'[d] = errors[d]
               /\ selected'[d] = selected[d] /\ seen'[d] = seen[d]
    BY <1>2, <1>6 DEF ClientInv, ClientTypeOK
  <1>7. /\ rows \subseteq Row
        /\ \A r \in rows : r.id = r.n /\ r.id <= N
        /\ \A r, s \in rows : r.id = s.id => r = s
    BY DEF ClientInv, ClientTypeOK, Numbered
  <1>8. \A f \in frames : /\ f \in rows /\ f.id \in 1 .. N /\ f.id > cursor[c]
                          /\ f.n = f.id /\ f.n \in 1 .. MaxInserts
    BY <1>3, <1>7 DEF poll_new_frames, Row
  <1>9. \A r \in rows : r.verified /\ r.id > cursor[c] => r \in frames
    BY DEF poll_new_frames
  <1> HIDE DEF frames
  <1>10. \A f \in frames \ corrupt : f.id \in 1 .. N
    BY <1>8
  <1>11. /\ entries \in Seq(Entry) /\ Sorted(entries)
         /\ RowIds(entries) = {f.id : f \in frames \ corrupt}
         /\ \A i \in DOMAIN entries : ~entries[i].acked
    BY <1>3, <1>10, PushFacts, SMTT(30) DEF Entry
  <1> HIDE DEF entries
  <1>12. /\ cursor'[c] \in 0 .. N /\ cursor[c] <= cursor'[c]
         /\ \A f \in frames : f.id <= cursor'[c]
    <2>1. CASE frames = {}
      BY <2>1, <1>3, <1>4
    <2>2. CASE frames # {}
      <3>1. \A f \in frames : f.id \in Nat
        BY <1>8
      <3>2. Last(new) \in frames /\ \A f \in frames : f.id <= Last(new).id
        BY <2>2, <3>1, <1>3, LastFacts
      <3>3. Last(new).id \in 1 .. N /\ Last(new).id > cursor[c]
        BY <3>2, <1>8
      <3> QED
        BY <2>2, <3>2, <3>3, <1>3, <1>4
    <2> QED
      BY <2>1, <2>2
  <1>13. /\ list'[c] \in Seq(Entry) /\ Len(list'[c]) = Len(list[c]) + Len(entries)
         /\ RowIds(list'[c]) = RowIds(list[c]) \cup {f.id : f \in frames \ corrupt}
         /\ Sorted(list'[c])
         /\ \A j \in DOMAIN list'[c] : \/ j \in DOMAIN list[c] /\ list'[c][j] = list[c][j]
                                       \/ \E i \in DOMAIN entries : list'[c][j] = entries[i]
    <2>1. \A i \in RowIds(list[c]) : i \in Nat /\ i <= cursor[c]
      BY <1>3 DEF Follows, Behind
    <2>2. \A i \in RowIds(list[c]), j \in RowIds(entries) : i < j
      BY <2>1, <1>3, <1>8, <1>11
    <2>3. Sorted(list[c])
      BY <1>3 DEF Follows
    <2>4. /\ list'[c] \in Seq(Entry) /\ Len(list'[c]) = Len(list[c]) + Len(entries)
          /\ RowIds(list'[c]) = RowIds(list[c]) \cup RowIds(entries)
          /\ Sorted(list'[c])
          /\ \A j \in DOMAIN list'[c] : \/ j \in DOMAIN list[c] /\ list'[c][j] = list[c][j]
                                        \/ \E i \in DOMAIN entries : list'[c][j] = entries[i]
      <3>1. list[c] \in Seq(Entry) /\ entries \in Seq(Entry) /\ Sorted(entries)
            /\ list'[c] = list[c] \o entries
        BY <1>3, <1>4, <1>11
      <3>2. list'[c] \in Seq(Entry) /\ Len(list'[c]) = Len(list[c]) + Len(entries)
        BY <2>2, <2>3, <3>1, AppendIds
      <3>3. Sorted(list'[c])
        BY <2>2, <2>3, <3>1, AppendIds, ZenonT(60)
      <3>4. \A j \in DOMAIN list'[c] : \/ j \in DOMAIN list[c] /\ list'[c][j] = list[c][j]
                                       \/ \E i \in DOMAIN entries : list'[c][j] = entries[i]
        BY <2>2, <2>3, <3>1, AppendIds
      <3>5. RowIds(list[c] \o entries) = RowIds(list[c]) \cup RowIds(entries)
        BY <3>1, AppendRowIds
      <3> QED
        BY <3>1, <3>2, <3>3, <3>4, <3>5
    <2> QED
      BY <2>4, <1>11
  <1>14. ClientTypeOK'
    <2>1. list' \in [Clients -> Seq(Entry)]
      BY <1>2, <1>13 DEF ClientInv, ClientTypeOK, Entry
    <2>2. cursor' \in [Clients -> 0 .. N] /\ errors' \in [Clients -> SUBSET (1 .. N)]
          /\ seen' \in [Clients -> SUBSET (1 .. MaxInserts)]
      BY <1>2, <1>4, <1>8, <1>12, SMTT(30) DEF ClientInv, ClientTypeOK
    <2>3. selected'[c] \in Nat /\ selected'[c] <= Len(list'[c])
      <3>1. entries # <<>> => Len(entries) \in Nat \ {0}
        BY <1>11, EmptySeq
      <3>2. Len(entries) \in Nat /\ selected[c] <= Len(list[c])
        BY <1>11 DEF ClientInv, ClientTypeOK
      <3> QED
        BY <3>1, <3>2, <1>3, <1>4, <1>13
    <2>4. selected' \in [Clients -> Nat] /\ \A d \in Clients : selected'[d] <= Len(list'[d])
      BY <1>2, <1>6, <2>3 DEF ClientInv, ClientTypeOK
    <2> QED
      BY <2>1, <2>2, <2>4, <1>5 DEF ClientInv, ClientTypeOK, Entry
  <1>15. Follows(c)'
    <2>1. Behind(c)'
      <3>1. \A i \in 1 .. cursor[c] : i \in 1 .. cursor'[c]
        BY <1>3, <1>12
      <3>2. \A f \in frames : f.id \in 1 .. cursor'[c] /\ f.n \in 1 .. cursor'[c]
        BY <1>8, <1>12
      <3>3. RowIds(list'[c]) \cup errors'[c] \cup erased[c] \cup seen'[c] \subseteq 1 .. cursor'[c]
        BY <3>1, <3>2, <1>3, <1>4, <1>13 DEF Follows, Behind
      <3> QED
        BY <3>3, <1>5 DEF Behind, RowIds
    <2>2. Sorted(list[c])'
      BY <1>13 DEF Sorted
    <2>3. Sees(c)'
      <3> SUFFICES ASSUME NEW r \in rows, r.verified, r.id > began[c], r.id <= cursor'[c]
                   PROVE  r.n \in seen'[c]
        BY <1>5 DEF Sees
      <3>1. CASE r.id <= cursor[c]
        BY <3>1, <1>3, <1>4 DEF Follows, Sees
      <3>2. CASE r.id > cursor[c]
        BY <3>2, <1>4, <1>9
      <3> QED
        BY <3>1, <3>2, <1>3, <1>7 DEF Row
    <2>4. Lists(c)'
      <3> SUFFICES ASSUME NEW r \in rows, r.n \in seen'[c], r.id \notin errors'[c]
                   PROVE  r.id \in RowIds(list'[c])
        BY <1>5 DEF Lists, RowIds
      <3>1. CASE r.n \in seen[c]
        BY <3>1, <1>3, <1>4, <1>13 DEF Follows, Lists
      <3>2. CASE r.n \in {f.n : f \in frames}
        <4>1. PICK f \in frames : r.n = f.n
          BY <3>2
        <4>2. r = f
          BY <4>1, <1>7, <1>8
        <4>3. r \notin corrupt
          BY <1>4
        <4> QED
          BY <4>1, <4>2, <4>3, <1>13
      <3> QED
        BY <3>1, <3>2, <1>4
    <2>5. Omits(c)'
      <3>1. \A i \in RowIds(list[c]) \cup errors[c] \cup erased[c] : i <= cursor[c] /\ i \in Nat
        BY <1>3 DEF Follows, Behind
      <3>2. {f.id : f \in frames \ corrupt} \cap {f.id : f \in corrupt} = {}
        BY <1>7, <1>8
      <3>3. \A f \in frames : f.id \notin RowIds(list[c]) \cup errors[c] \cup erased[c]
        BY <3>1, <1>3, <1>8
      <3>4. \A i \in RowIds(list'[c]) : i \notin erased[c] /\ i \notin errors[c]
        BY <3>3, <1>3, <1>13 DEF Follows, Omits
      <3>5. \A i \in RowIds(list'[c]) : i \notin {f.id : f \in corrupt}
        BY <3>2, <3>3, <1>13
      <3>6. RowIds(list'[c]) \cap (erased[c] \cup errors'[c]) = {}
        BY <3>4, <3>5, <1>4
      <3> QED
        BY <3>6, <1>5 DEF Omits, RowIds
    <2>6. Selects(c)'
      <3>1. /\ entries # <<>> => Len(entries) \in Nat \ {0}
            /\ list[c] # <<>> => Len(list[c]) \in Nat \ {0}
            /\ list'[c] # <<>> => Len(list'[c]) \in Nat \ {0}
            /\ Len(<<>>) = 0
        BY <1>3, <1>11, <1>13, EmptySeq
      <3>2. Len(entries) \in Nat /\ DOMAIN list'[c] = 1 .. Len(list'[c]) /\ Len(list'[c]) \in Nat
        BY <1>11, <1>13
      <3>3. IF list[c] = <<>> THEN selected[c] = 0 ELSE selected[c] \in 1 .. Len(list[c])
        BY <1>3 DEF Follows, Selects
      <3>4. CASE list'[c] = <<>>
        BY <3>1, <3>2, <3>3, <3>4, <1>3, <1>4, <1>13 DEF Selects
      <3>5. CASE list'[c] # <<>>
        <4>1. selected'[c] \in 1 .. Len(list'[c])
          BY <3>1, <3>2, <3>3, <3>5, <1>3, <1>4, <1>13
        <4> QED
          BY <4>1, <3>2, <3>5 DEF Selects
      <3> QED
        BY <3>4, <3>5
    <2>7. ASSUME NEW j \in DOMAIN list'[c], list'[c][j].acked,
                 NEW r \in rows, r.id = list'[c][j].rowid
          PROVE  r.acked
      <3>1. j \in DOMAIN list[c] /\ list'[c][j] = list[c][j]
        BY <2>7, <1>11, <1>13
      <3> QED
        BY <3>1, <2>7, <1>3 DEF Follows, Acks
    <2>8. Acks(c)'
      BY <2>7, <1>5 DEF Acks
    <2> QED
      BY <2>1, <2>2, <2>3, <2>4, <2>5, <2>6, <2>8 DEF Follows
  <1>16. Descend /\ Numbered'
    BY <1>5, SameStore DEF ClientInv
  <1>17. ASSUME NEW d \in Clients, d # c
         PROVE  Follows(d)'
    BY <1>5, <1>6, <1>16, <1>17, Keeps DEF Apart
  <1> QED
    BY <1>14, <1>15, <1>16, <1>17 DEF ClientInv

LEMMA EmptyList ==
    ASSUME NEW S
    PROVE  <<>> \in Seq(S) /\ Len(<<>>) = 0 /\ RowIds(<<>>) = {} /\ Sorted(<<>>) /\ DOMAIN <<>> = {}
  <1>1. <<>> \in Seq(S) /\ Len(<<>>) = 0 /\ DOMAIN <<>> = {}
    BY EmptySeq
  <1> QED
    BY <1>1 DEF RowIds, Sorted

LEMMA OpenStep ==
    ASSUME ClientInv, NEW c \in Clients, open(c)
    PROVE  ClientInv'
  <1>1. PICK from \in {0, last_rowid} : /\ cursor' = [cursor EXCEPT ![c] = from]
                                       /\ began' = [began EXCEPT ![c] = from]
    BY DEF open
  <1>2. from \in 0 .. sqlite_sequence /\ sqlite_sequence \in Nat
    <2>1. last_rowid \in 0 .. sqlite_sequence
      BY LastRowid DEF ClientInv
    <2>2. sqlite_sequence \in Nat
      BY TypeParts
    <2> QED
      BY <2>1, <2>2
  <1>3. /\ list' = [list EXCEPT ![c] = <<>>] /\ selected' = [selected EXCEPT ![c] = 0]
        /\ errors' = [errors EXCEPT ![c] = {}] /\ seen' = [seen EXCEPT ![c] = {}]
        /\ erased' = [erased EXCEPT ![c] = {}]
        /\ client_pc' = [client_pc EXCEPT ![c] = "keys"]
        /\ UNCHANGED <<inserted, store>> /\ opens' = opens + 1 /\ opens < MaxOpens
    BY DEF open
  <1>4. /\ list'[c] = <<>> /\ selected'[c] = 0 /\ errors'[c] = {} /\ seen'[c] = {} /\ erased'[c] = {}
        /\ cursor'[c] = from /\ began'[c] = from
    BY <1>1, <1>3 DEF ClientInv, ClientTypeOK
  <1>5. ASSUME NEW d \in Clients, d # c
        PROVE  Apart(d) /\ selected'[d] = selected[d]
    BY <1>1, <1>3, <1>5 DEF ClientInv, ClientTypeOK, Apart
  <1>6. Descend /\ Numbered' /\ rows' = rows /\ UNCHANGED sqlite_sequence
    BY <1>3, SameStore DEF ClientInv
  <1>7. ClientTypeOK'
    <2>1. list' \in [Clients -> Seq(Entry)]
      BY <1>3, EmptyList DEF ClientInv, ClientTypeOK, Entry
    <2>2. selected' \in [Clients -> Nat] /\ \A d \in Clients : selected'[d] <= Len(list'[d])
      <3>1. selected' \in [Clients -> Nat]
        BY <1>3 DEF ClientInv, ClientTypeOK
      <3>2. selected'[c] <= Len(list'[c])
        BY <1>4, EmptyList
      <3>3. ASSUME NEW d \in Clients, d # c PROVE selected'[d] <= Len(list'[d])
        BY <1>5, <3>3 DEF Apart, ClientInv, ClientTypeOK
      <3> QED
        BY <3>1, <3>2, <3>3
    <2>3. opens' \in 0 .. MaxOpens
      BY <1>3, ClientBoundAssumption DEF ClientInv, ClientTypeOK
    <2>4. cursor' \in [Clients -> 0 .. sqlite_sequence] /\ began' \in [Clients -> 0 .. sqlite_sequence]
      BY <1>1, <1>2 DEF ClientInv, ClientTypeOK
    <2> QED
      BY <2>1, <2>2, <2>3, <2>4, <1>3, <1>6 DEF ClientInv, ClientTypeOK, Entry
  <1>8. Follows(c)'
    <2>1. RowIds(list'[c]) = {} /\ Sorted(list'[c]) /\ DOMAIN list'[c] = {}
      BY <1>4, EmptyList
    <2>2. Behind(c)' /\ Omits(c)'
      BY <2>1, <1>4 DEF Behind, Omits, RowIds
    <2>3. Sorted(list[c])' /\ Acks(c)' /\ Selects(c)'
      BY <2>1, <1>4 DEF Sorted, Acks, Selects
    <2>4. Lists(c)'
      BY <1>4 DEF Lists
    <2>5. Sees(c)'
      <3> SUFFICES ASSUME NEW r \in rows, r.id > from, r.id <= from
                   PROVE  FALSE
        BY <1>4, <1>6 DEF Sees
      <3> QED
        BY <1>2 DEF ClientInv, ClientTypeOK, Row
    <2> QED
      BY <2>2, <2>3, <2>4, <2>5 DEF Follows
  <1>9. ASSUME NEW d \in Clients, d # c
        PROVE  Follows(d)'
    BY <1>5, <1>6, <1>9, Keeps
  <1> QED
    BY <1>6, <1>7, <1>8, <1>9 DEF ClientInv

----------------------------------------------------------------------------
(* The invariant.                                                          *)

LEMMA ClientInitInv == ClientInit => ClientInv
  <1> SUFFICES ASSUME ClientInit PROVE ClientInv
    OBVIOUS
  <1>1. /\ rows = {} /\ sqlite_sequence = 0 /\ opens = 0 /\ inserted = 0
        /\ client_pc = [c \in Clients |-> "closed"] /\ cursor = [c \in Clients |-> 0] /\ began = cursor
        /\ list = [c \in Clients |-> <<>>] /\ selected = [c \in Clients |-> 0]
        /\ errors = [c \in Clients |-> {}] /\ seen = errors /\ erased = errors
    BY DEF ClientInit, StoreInit
  <1>2. ClientTypeOK
    <2>1. list \in [Clients -> Seq([rowid : 1 .. sqlite_sequence, acked : BOOLEAN])]
      BY <1>1, EmptyList
    <2>2. selected \in [Clients -> Nat] /\ \A c \in Clients : selected[c] <= Len(list[c])
      BY <1>1, EmptyList
    <2> QED
      BY <2>1, <2>2, <1>1, ClientBoundAssumption DEF ClientTypeOK
  <1>3. Numbered
    BY <1>1 DEF Numbered
  <1>4. ASSUME NEW c \in Clients
        PROVE  Follows(c)
    <2>1. list[c] = <<>> /\ errors[c] = {} /\ erased[c] = {} /\ seen[c] = {} /\ selected[c] = 0
      BY <1>1
    <2>2. RowIds(list[c]) = {} /\ Sorted(list[c]) /\ DOMAIN list[c] = {}
      BY <2>1, EmptyList
    <2> QED
      BY <2>1, <2>2, <1>1 DEF Follows, Behind, Sees, Lists, Omits, Selects, Acks
  <1> QED
    BY <1>2, <1>3, <1>4 DEF ClientInv

LEMMA ClientNextInv ==
    ASSUME ClientInv, [ClientNext]_clientvars
    PROVE  ClientInv'
  <1>1. CASE gateway_inserts
    BY <1>1, InsertStep
  <1>2. ASSUME NEW c \in Clients, ClientStep(c)
        PROVE  ClientInv'
    <2>0. /\ list[c] \in Seq(Entry) /\ Len(list[c]) \in Nat /\ DOMAIN list[c] = 1 .. Len(list[c])
          /\ selected[c] \in Nat /\ Selects(c)
      BY TypeParts DEF Follows
    <2>1. CASE open(c)
      BY <2>1, OpenStep
    <2>2. CASE no_key(c)
      <3>1. selected' = [selected EXCEPT ![c] = selected[c]]
        BY <2>2 DEF no_key, ClientInv, ClientTypeOK
      <3> QED
        BY <2>0, <2>2, <3>1, MoveStep DEF no_key, Selects
    <2>3. CASE next(c)
      <3>1. Smaller(selected[c] + 1, Len(list[c])) \in DOMAIN list[c] /\ list[c] # <<>>
        BY <2>0, <2>3, EmptySeq DEF next, Smaller, Selects
      <3> QED
        BY <2>3, <3>1, MoveStep DEF next
    <2>4. CASE prev(c)
      <3>1. Larger(selected[c] - 1, 1) \in DOMAIN list[c] /\ list[c] # <<>>
        BY <2>0, <2>4 DEF prev, Larger, Selects
      <3> QED
        BY <2>4, <3>1, MoveStep DEF prev
    <2>5. CASE ack_key(c)
      BY <2>5, AckStep
    <2>6. CASE delete_key(c)
      BY <2>6, DeleteStep
    <2>7. CASE poll(c)
      BY <2>7, PollStep
    <2>8. CASE quit(c) \/ ack_fails(c) \/ delete_fails(c) \/ poll_fails(c)
      BY <2>8, LeaveStep DEF quit, ack_fails, delete_fails, poll_fails
    <2> QED
      BY <1>2, <2>1, <2>2, <2>3, <2>4, <2>5, <2>6, <2>7, <2>8 DEF ClientStep, keys
  <1>3. CASE UNCHANGED clientvars
    <2>1. ClientTypeOK'
      BY <1>3 DEF clientvars, store, ClientInv, ClientTypeOK
    <2>2. Descend /\ Numbered'
      BY <1>3, SameStore DEF clientvars, ClientInv
    <2>3. ASSUME NEW c \in Clients PROVE Follows(c)'
      BY <1>3, <2>2, Keeps DEF clientvars, Apart
    <2> QED
      BY <2>1, <2>2, <2>3 DEF ClientInv
  <1> QED
    BY <1>1, <1>2, <1>3 DEF ClientNext

\* The strengthened invariant holds in every state any number of clients and the gateway
\* reach together.
THEOREM ClientInductive == ClientSpec => []ClientInv
  <1>1. ClientInit => ClientInv
    BY ClientInitInv
  <1>2. ClientInv /\ [ClientNext]_clientvars => ClientInv'
    BY ClientNextInv
  <1> QED
    BY <1>1, <1>2, PTL DEF ClientSpec

\* Every variable of the clients and the table keeps to its values; in particular no
\* selection is past the end of the list, where Vec::remove() would panic.
THEOREM ClientTypeCorrect == ClientSpec => []ClientTypeOK
  <1>1. ClientInv => ClientTypeOK
    BY DEF ClientInv
  <1> QED
    BY <1>1, ClientInductive, PTL

\* No client's cursor passes a verified row the client did not handle, however many others
\* insert and delete meanwhile: poll_new_frames() with "rowid > last" misses nothing.
THEOREM NoRowEverMissed == ClientSpec => []NoRowMissed
  <1>1. ClientInv => NoRowMissed
    BY DEF ClientInv, Follows, Sees, NoRowMissed
  <1> QED
    BY <1>1, ClientInductive, PTL

\* The list on the screen is what was polled and not deleted here, once and in the order of
\* the table: the delete key takes the same row out of both.
THEOREM ListAlwaysFollows == ClientSpec => []ListFollowsTable
  <1>1. ClientInv => ListFollowsTable
    BY DEF ClientInv, Follows, Lists, Omits, Sorted, ListFollowsTable
  <1> QED
    BY <1>1, ClientInductive, PTL

\* The keys always have an entry to act upon when the list has one, and never one outside it.
THEOREM SelectionAlwaysOnScreen == ClientSpec => []SelectionOnScreen
  <1>1. ClientInv => SelectionOnScreen
    BY DEF ClientInv, Follows, Selects, SelectionOnScreen
  <1> QED
    BY <1>1, ClientInductive, PTL

\* What a client shows as acknowledged is acknowledged in the table, if the row is still there.
THEOREM AckAlwaysStored == ClientSpec => []AcknowledgedIsStored
  <1>1. ClientInv => AcknowledgedIsStored
    BY DEF ClientInv, Follows, Acks, AcknowledgedIsStored
  <1> QED
    BY <1>1, ClientInductive, PTL
=============================================================================
