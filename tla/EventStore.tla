----------------------------- MODULE EventStore -----------------------------
(***************************************************************************)
(* The SQLite table `events`: the audit trail the gateway writes and the   *)
(* operator's client reads, acknowledges and deletes from.  Every          *)
(* statement is a transaction of its own (autocommit, WAL), so each        *)
(* operator below is one atomic step of whoever calls it.                  *)
(***************************************************************************)
EXTENDS Integers, FiniteSets

VARIABLES
    rows,             \* the rows: [id, n, verified, acked], n the reception stored
    sqlite_sequence   \* the largest id ever given out (AUTOINCREMENT)

store == <<rows, sqlite_sequence>>

StoreInit == rows = {} /\ sqlite_sequence = 0

Ids == {r.id : r \in rows}

\* last_rowid(): the highest id in the table, 0 if it is empty.
last_rowid == IF rows = {} THEN 0 ELSE CHOOSE i \in Ids : \A j \in Ids : j <= i

\* Seeded bug: ids without AUTOINCREMENT, the highest one in the table plus one.
insert_id_reused == last_rowid + 1

insert_id == sqlite_sequence + 1

db_insert(n, verified) ==
    /\ rows' = rows \cup {[id |-> insert_id, n |-> n, verified |-> verified, acked |-> FALSE]}
    /\ sqlite_sequence' = IF insert_id > sqlite_sequence THEN insert_id ELSE sqlite_sequence

\* poll_new_frames(): what it selects; the caller goes through it by ascending id.  A row
\* whose columns are no hex would be skipped; the gateway writes only what it has encoded.
poll_new_frames(since) == {r \in rows : r.id > since /\ r.verified}

\* ORDER BY rowid ASC: in place k is the row that k ids do not exceed, its own included.
ById(S) == [k \in 1 .. Cardinality(S) |-> CHOOSE r \in S : Cardinality({s \in S : s.id <= r.id}) = k]

\* UPDATE and DELETE succeed when no row has the id.
ack_frame(id) ==
    /\ rows' = {IF r.id = id THEN [r EXCEPT !.acked = TRUE] ELSE r : r \in rows}
    /\ UNCHANGED sqlite_sequence

delete_frame(id) ==
    /\ rows' = {r \in rows : r.id # id}
    /\ UNCHANGED sqlite_sequence

=============================================================================
