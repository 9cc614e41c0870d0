------------------------------- MODULE Client -------------------------------
(***************************************************************************)
(* The operator's client (client/src): it follows the gateway's table of   *)
(* events through a cursor, and lets the operator acknowledge and delete   *)
(* what it shows.  Several clients and the gateway use the table at once;  *)
(* a client's loop is one thread, and its statements are the only points   *)
(* where it meets the others.                                              *)
(***************************************************************************)
EXTENDS EventStore, Sequences, SequencesExt

CONSTANTS
    Clients,       \* the open programs
    ClientFaults,  \* the statements that may fail: "ack", "delete", "poll"
    MaxInserts,    \* bound on the rows the gateway inserts
    MaxOpens       \* bound on the times clients are opened

ASSUME ClientFaultAssumption == ClientFaults \subseteq {"ack", "delete", "poll"}
ASSUME ClientBoundAssumption == {MaxInserts, MaxOpens} \subseteq Nat

VARIABLES
    client_pc,  \* where run_loop() is: "keys" or "poll"; or "closed"
    cursor,     \* main()'s last_rowid
    list,       \* AppState.events: sequence of [rowid, acked]
    selected,   \* list_state: a position in list, 0 if there is none
    errors,     \* AppState.errors, by the row they are about
    opens,
    inserted,
    began,      \* history: the cursor a client was opened with
    seen,       \* history: the receptions a client has handled since
    erased      \* history: the rows a client has deleted since

clientvars == <<client_pc, cursor, list, selected, errors, opens, inserted, began, seen, erased, store>>

Errs(statement) == IF statement \in ClientFaults THEN BOOLEAN ELSE {FALSE}
RowIds(s) == {s[i].rowid : i \in DOMAIN s}
Smaller(a, b) == IF a < b THEN a ELSE b
Larger(a, b) == IF a > b THEN a ELSE b

----------------------------------------------------------------------------
(* Keys.  Each ends in the poll of the same round of run_loop().           *)

Key(c) ==
    /\ client_pc[c] = "keys"
    /\ client_pc' = [client_pc EXCEPT ![c] = "poll"]
    /\ UNCHANGED <<cursor, errors, opens, inserted, began, seen>>

\* A failed statement leaves run_loop(), and the program, by `?`.
Leave(c) ==
    /\ client_pc' = [client_pc EXCEPT ![c] = "closed"]
    /\ UNCHANGED <<cursor, list, selected, errors, opens, inserted, began, seen, erased, store>>

no_key(c) == Key(c) /\ UNCHANGED <<list, selected, erased, store>>

quit(c) == client_pc[c] = "keys" /\ Leave(c)

\* Seeded bug: no min() with the last position.
next_unclamped(c) ==
    /\ Key(c) /\ list[c] # <<>>
    /\ selected' = [selected EXCEPT ![c] = @ + 1]
    /\ UNCHANGED <<list, erased, store>>

next(c) ==
    /\ Key(c) /\ list[c] # <<>>
    /\ selected' = [selected EXCEPT ![c] = Smaller(@ + 1, Len(list[c]))]
    /\ UNCHANGED <<list, erased, store>>

prev(c) ==
    /\ Key(c) /\ list[c] # <<>>
    /\ selected' = [selected EXCEPT ![c] = Larger(@ - 1, 1)]
    /\ UNCHANGED <<list, erased, store>>

selected_rowid(c) == list[c][selected[c]].rowid

\* Seeded bug: a failed UPDATE is ignored.
ack_key_ignoring(c) ==
    /\ Key(c) /\ selected[c] \in DOMAIN list[c]
    /\ list' = [list EXCEPT ![c][selected[c]].acked = TRUE]
    /\ \E failed \in Errs("ack") : IF failed THEN UNCHANGED store ELSE ack_frame(selected_rowid(c))
    /\ UNCHANGED <<selected, erased>>

ack_key(c) ==
    /\ Key(c) /\ selected[c] \in DOMAIN list[c]
    /\ list' = [list EXCEPT ![c][selected[c]].acked = TRUE]
    /\ ack_frame(selected_rowid(c))
    /\ UNCHANGED <<selected, erased>>

ack_fails(c) ==
    /\ client_pc[c] = "keys" /\ selected[c] \in DOMAIN list[c]
    /\ TRUE \in Errs("ack") /\ Leave(c)

\* Seeded bugs: the selection stays where it was; the row below the selected one goes.
delete_key_unclamped(c) ==
    /\ Key(c) /\ selected[c] \in DOMAIN list[c]
    /\ delete_frame(selected_rowid(c))
    /\ erased' = [erased EXCEPT ![c] = @ \cup {selected_rowid(c)}]
    /\ list' = [list EXCEPT ![c] = RemoveAt(@, selected[c])]
    /\ UNCHANGED selected

delete_key_next(c) ==
    /\ Key(c) /\ selected[c] \in DOMAIN list[c]
    /\ delete_frame(selected_rowid(c))
    /\ erased' = [erased EXCEPT ![c] = @ \cup {selected_rowid(c)}]
    /\ list' = [list EXCEPT ![c] = RemoveAt(@, Smaller(selected[c] + 1, Len(@)))]
    /\ selected' = [selected EXCEPT ![c] = Smaller(@, Len(list[c]) - 1)]

\* The row goes from the table first, then from the list; the selection is clamped.
delete_key(c) ==
    /\ Key(c) /\ selected[c] \in DOMAIN list[c]
    /\ delete_frame(selected_rowid(c))
    /\ erased' = [erased EXCEPT ![c] = @ \cup {selected_rowid(c)}]
    /\ list' = [list EXCEPT ![c] = RemoveAt(@, selected[c])]
    /\ selected' = [selected EXCEPT ![c] = Smaller(@, Len(list[c]) - 1)]

delete_fails(c) ==
    /\ client_pc[c] = "keys" /\ selected[c] \in DOMAIN list[c]
    /\ TRUE \in Errs("delete") /\ Leave(c)

----------------------------------------------------------------------------
(* Polling, and opening a client.                                          *)

\* ORDER BY rowid: frames one after the other by ascending id.
Ordered(frames) ==
    {s \in BoundedSeq(frames, MaxInserts) :
       /\ frames = {s[i] : i \in DOMAIN s}
       /\ \A i, j \in DOMAIN s : i < j => s[i].id < s[j].id}

\* The rows that do not decrypt: a wrong PSK or a damaged frame may make it any of them.
decrypt_ler(frames) == SUBSET frames

push_event(r) == [rowid |-> r.id, acked |-> FALSE]

\* Every new row moves the cursor; decrypt_ler() sorts it into the list or the errors.
poll(c) ==
    /\ client_pc[c] = "poll"
    /\ client_pc' = [client_pc EXCEPT ![c] = "keys"]
    /\ LET frames == poll_new_frames(cursor[c])
       IN  \E new \in Ordered(frames), corrupt \in decrypt_ler(frames) :
           \E shown \in Ordered(frames \ corrupt) :
             LET entries == [i \in DOMAIN shown |-> push_event(shown[i])]
             IN  /\ cursor' = [cursor EXCEPT ![c] = IF frames = {} THEN @ ELSE Last(new).id]
                 /\ list' = [list EXCEPT ![c] = @ \o entries]
                 /\ errors' = [errors EXCEPT ![c] = @ \cup {r.id : r \in corrupt}]
                 /\ selected' = [selected EXCEPT ![c] = IF @ = 0 /\ entries # <<>> THEN 1 ELSE @]
                 /\ seen' = [seen EXCEPT ![c] = @ \cup {r.n : r \in frames}]
    /\ UNCHANGED <<opens, inserted, began, erased, store>>

poll_fails(c) == client_pc[c] = "poll" /\ TRUE \in Errs("poll") /\ Leave(c)

\* From the start of the table, or under LIMA_LIVE from its end.
open(c) ==
    /\ client_pc[c] = "closed" /\ opens < MaxOpens
    /\ opens' = opens + 1
    /\ client_pc' = [client_pc EXCEPT ![c] = "keys"]
    /\ \E from \in {0, last_rowid} :
         /\ cursor' = [cursor EXCEPT ![c] = from]
         /\ began' = [began EXCEPT ![c] = from]
    /\ list' = [list EXCEPT ![c] = <<>>]
    /\ selected' = [selected EXCEPT ![c] = 0]
    /\ errors' = [errors EXCEPT ![c] = {}]
    /\ seen' = [seen EXCEPT ![c] = {}]
    /\ erased' = [erased EXCEPT ![c] = {}]
    /\ UNCHANGED <<inserted, store>>

\* The gateway at work; reception n is the n-th it inserts.
gateway_inserts ==
    /\ inserted < MaxInserts
    /\ inserted' = inserted + 1
    /\ \E verified \in BOOLEAN : db_insert(inserted + 1, verified)
    /\ UNCHANGED <<client_pc, cursor, list, selected, errors, opens, began, seen, erased>>

----------------------------------------------------------------------------

ClientInit ==
    /\ client_pc = [c \in Clients |-> "closed"]
    /\ cursor = [c \in Clients |-> 0] /\ began = cursor
    /\ list = [c \in Clients |-> <<>>] /\ selected = [c \in Clients |-> 0]
    /\ errors = [c \in Clients |-> {}] /\ seen = errors /\ erased = errors
    /\ opens = 0 /\ inserted = 0
    /\ StoreInit

keys(c) == no_key(c) \/ quit(c) \/ next(c) \/ prev(c)
             \/ ack_key(c) \/ ack_fails(c) \/ delete_key(c) \/ delete_fails(c)

ClientStep(c) == open(c) \/ keys(c) \/ poll(c) \/ poll_fails(c)

ClientNext == gateway_inserts \/ \E c \in Clients : ClientStep(c)

ClientSpec == ClientInit /\ [][ClientNext]_clientvars

----------------------------------------------------------------------------
(* Properties.                                                             *)

Open(c) == client_pc[c] # "closed"
Row == [id : Nat, n : 1 .. MaxInserts, verified : BOOLEAN, acked : BOOLEAN]

\* Every variable keeps to its values.
ClientTypeOK ==
    /\ client_pc \in [Clients -> {"closed", "keys", "poll"}]
    /\ cursor \in [Clients -> 0 .. sqlite_sequence] /\ began \in [Clients -> 0 .. sqlite_sequence]
    /\ list \in [Clients -> Seq([rowid : 1 .. sqlite_sequence, acked : BOOLEAN])]
    /\ selected \in [Clients -> Nat] /\ \A c \in Clients : selected[c] <= Len(list[c])
    /\ errors \in [Clients -> SUBSET (1 .. sqlite_sequence)]
    /\ opens \in 0 .. MaxOpens /\ inserted \in 0 .. MaxInserts
    /\ seen \in [Clients -> SUBSET (1 .. MaxInserts)]
    /\ erased \in [Clients -> SUBSET (1 .. sqlite_sequence)]
    /\ rows \subseteq Row /\ sqlite_sequence \in 0 .. MaxInserts

\* The cursor passes no verified row unseen: whatever this or another client deleted in
\* between, a row behind the cursor is one the operator was shown, or was told of.
NoRowMissed ==
    \A c \in Clients : Open(c) =>
      \A r \in rows : (r.verified /\ r.id > began[c] /\ r.id <= cursor[c]) => r.n \in seen[c]

\* The list is exactly what was polled and not deleted here, each row once and in the
\* order of the table: a key press deletes the same row in both.
ListFollowsTable ==
    \A c \in Clients : Open(c) =>
      /\ RowIds(list[c]) \cap (erased[c] \cup errors[c]) = {}
      /\ \A r \in rows : (r.n \in seen[c] /\ r.id \notin errors[c]) => r.id \in RowIds(list[c])
      /\ \A i, j \in DOMAIN list[c] : i < j => list[c][i].rowid < list[c][j].rowid

\* Something is selected whenever there is something to select, and it is in the list:
\* otherwise the keys would be dead, or Vec::remove() panic.
SelectionOnScreen ==
    \A c \in Clients : Open(c) =>
      IF list[c] = <<>> THEN selected[c] = 0 ELSE selected[c] \in DOMAIN list[c]

\* What a client shows as acknowledged is so in the table, unless the row was deleted.
AcknowledgedIsStored ==
    \A c \in Clients : Open(c) =>
      \A i \in DOMAIN list[c] :
        list[c][i].acked => \A r \in rows : r.id = list[c][i].rowid => r.acked

=============================================================================
