----------------------------- MODULE FramePath ------------------------------
(***************************************************************************)
(* One frame's way from the node's sensors to the operator's screen: the   *)
(* node's keys over its boots and power losses (firmware crypto.c), the    *)
(* frames it builds, the packet a frame arrives in, the gateway's parser,  *)
(* check and insert (main.rs), and the client that reads the row back and  *)
(* decrypts it (client main.rs, crypto.rs).  The byte layouts are Wire's,  *)
(* the parser HciParse's, the table EventStore's.                          *)
(*                                                                         *)
(* Radio and controller are external: a frame may be missed, reported more *)
(* than once, late and behind newer ones, cut off or damaged; whoever sent *)
(* it, the gateway sees its bytes and the address it names.  A packet is a *)
(* copy nobody else touches, so that the rest of the system does nothing   *)
(* while it is parsed.                                                     *)
(***************************************************************************)
EXTENDS HciParse, Wire, EventStore, SequencesExt

CONSTANTS
    Events,        \* what the sensors bring: [type, timestamp_ms, accel_g, delta_pa]
    CryptoFaults,  \* the calls that may fail: "key", "export", "sign"
    Shapes,        \* what packets may look like: sequences of [node, ads]
    Fragile,       \* those that may be cut off or damaged
    CutAt,         \* lengths a packet may be cut off at
    DamageAt,      \* the bytes that may be damaged
    Noise,         \* what a byte that is not plain may read as
    MaxBoots, MaxEvents, MaxReceptions, MaxOpens,  \* bounds on what their names say
    MaxDamage      \* bound on the packets cut off or damaged

\* Structures of AD data: the frame, flags, manufacturer data too short for a company id,
\* another company's, and the zero that ends them.
AdKinds == {"frame", "flags", "short", "foreign", "end"}

ASSUME EventAssumption ==
    \A evt \in Events :
      /\ evt.type \in 0 .. 255
      /\ evt.timestamp_ms \in Nat /\ evt.timestamp_ms \div 16777216 < 256    \* 32 bits
      /\ evt.accel_g \in [1 .. 4 -> 0 .. 255] /\ evt.delta_pa \in [1 .. 4 -> 0 .. 255]
ASSUME FragileAssumption == Fragile \subseteq Shapes
ASSUME NoiseAssumption == Noise \subseteq 0 .. 255 /\ Noise # {}
ASSUME CutAssumption == CutAt \subseteq Nat
ASSUME BoundAssumption ==
    /\ {MaxBoots, MaxEvents, MaxReceptions, MaxOpens, MaxDamage} \subseteq Nat
    /\ MaxEvents \div 16777216 < 256
ASSUME CryptoFaultAssumption == CryptoFaults \subseteq {"key", "export", "sign"}

VARIABLES
    flash,     \* the keys in persistent storage: subset of {"ecdsa", "aes"}
    node_pc,   \* where lima_crypto_init() is: "ecdsa", "pubkey", "aes", "export"; "run", "off"
    key_ids,   \* signing_key_id and aes_key_id, where they are set: subset of flash
    sequence_counter,
    events,    \* events signing was asked for so far
    boots,
    logged,    \* what the operator could read off the serial log: {"pubkey", "psk"}
    built,     \* the records of the frames built, in order
    boot_of,   \* history: the boot each was built in
    vk,        \* the key in the gateway's TEST_NODE_PUBKEY_HEX: "node"'s or "other"
    packet,    \* history: what pkt was made of: [frame, reports, whole]
    damages,
    stored,    \* the columns rows leaves out, by reception: [frame_type, raw_blob]
    origin,    \* history: the frame whose very bytes a reception stored, 0 if there is none
    client     \* [open, key, cursor, shown, errors]; rows that failed in errors

node == <<flash, node_pc, key_ids, sequence_counter, events, boots, logged, built, boot_of>>
radio == <<packet, damages>>
pathvars == <<node, vk, radio, parsevars, stored, origin, store, client>>

Can(call) == call \in CryptoFaults
Quiet == parse_pc = "idle"    \* no packet is being parsed

----------------------------------------------------------------------------
(* The node's keys.                                                        *)

Goto(pc) == node_pc' = pc /\ UNCHANGED <<sequence_counter, events, boots, built, boot_of, vk, radio,
                                         parsevars, stored, origin, store, client>>

\* lima_crypto_init() returns with an error; main() logs it and goes on.
init_fails ==
    /\ Quiet
    /\ node_pc \in {"ecdsa", "aes"} /\ Can("key")
    /\ Goto("run") /\ UNCHANGED <<flash, key_ids, logged>>

\* The signing key is found, or generated and kept; its public half is logged at any boot.
provision_ecdsa_key ==
    /\ Quiet /\ node_pc = "ecdsa"
    /\ flash' = flash \cup {"ecdsa"} /\ key_ids' = key_ids \cup {"ecdsa"}
    /\ Goto("pubkey") /\ UNCHANGED logged

log_public_key ==
    /\ Quiet /\ node_pc = "pubkey"
    /\ logged' \in {logged \cup {"pubkey"}} \cup (IF Can("export") THEN {logged} ELSE {})
    /\ Goto("aes") /\ UNCHANGED <<flash, key_ids>>

\* Seeded bug: the key is generated without a persistent lifetime.
provision_aes_key_volatile ==
    /\ Quiet /\ node_pc = "aes"
    /\ key_ids' = key_ids \cup {"aes"}
    /\ Goto(IF "aes" \in flash THEN "run" ELSE "export") /\ UNCHANGED <<flash, logged>>

provision_aes_key ==
    /\ Quiet /\ node_pc = "aes"
    /\ flash' = flash \cup {"aes"} /\ key_ids' = key_ids \cup {"aes"}
    /\ Goto(IF "aes" \in flash THEN "run" ELSE "export") /\ UNCHANGED logged

\* Only the boot that generates the PSK logs it.
log_psk ==
    /\ Quiet /\ node_pc = "export"
    /\ logged' \in {logged \cup {"psk"}} \cup (IF Can("export") THEN {logged} ELSE {})
    /\ Goto("run") /\ UNCHANGED <<flash, key_ids>>

power_on ==
    /\ Quiet /\ node_pc = "off" /\ boots < MaxBoots
    /\ node_pc' = "ecdsa" /\ boots' = boots + 1
    /\ UNCHANGED <<flash, key_ids, sequence_counter, events, logged, built, boot_of, vk, radio,
                   parsevars, stored, origin, store, client>>

\* Bounded as well: the last boot of a behaviour does not lose power.
power_loss ==
    /\ Quiet /\ node_pc # "off" /\ boots < MaxBoots
    /\ node_pc' = "off" /\ key_ids' = {} /\ sequence_counter' = 0
    /\ UNCHANGED <<flash, events, boots, logged, built, boot_of, vk, radio, parsevars, stored,
                   origin, store, client>>

----------------------------------------------------------------------------
(* An event: its record, both signatures, the frame.                       *)

PRESSURE_BREACH == 1
MOTION_DETECTED == 2
DUAL_BREACH == 3
NoReading == <<0, 0, 0, 0>>

lima_crypto_build_ler(evt) ==
    [node_id |-> NodeMac, event_type |-> evt.type, sequence |-> sequence_counter + 1,
     timestamp_ms |-> evt.timestamp_ms,
     accel_g |-> IF evt.type \in {MOTION_DETECTED, DUAL_BREACH} THEN evt.accel_g ELSE NoReading,
     delta_pa |-> IF evt.type = PRESSURE_BREACH THEN evt.delta_pa ELSE NoReading]

\* The number is used up even if no frame comes of it: without a key, or when a call fails.
sign_event ==
    /\ Quiet /\ node_pc = "run" /\ events < MaxEvents
    /\ events' = events + 1 /\ sequence_counter' = sequence_counter + 1
    /\ \/ /\ key_ids = {"ecdsa", "aes"}
          /\ \E evt \in Events : built' = Append(built, lima_crypto_build_ler(evt))
          /\ boot_of' = Append(boot_of, boots)
       \/ /\ key_ids # {"ecdsa", "aes"} \/ Can("sign")
          /\ UNCHANGED <<built, boot_of>>
    /\ UNCHANGED <<flash, node_pc, key_ids, boots, logged, vk, radio, parsevars, stored, origin, store, client>>

----------------------------------------------------------------------------
(* Radio and controller.                                                   *)

OtherMac == [NodeMac EXCEPT ![1] = (@ + 1) % 256]
Zeros(n) == [k \in 1 .. n |-> 0]

\* adv_data of ble.c holds the frame alone; the other structures are other firmware's.
Ad(kind, lf) ==
    CASE kind = "frame" -> <<Len(lf) + 1, 255>> \o lf
      [] kind = "flags" -> <<2, 1, 6>>
      [] kind = "short" -> <<2, 255, 2>>
      [] kind = "foreign" -> <<4, 255, 76, 0, 7>>
      [] kind = "end" -> <<0>>

AdData(ads, lf) == FlattenSeq([k \in DOMAIN ads |-> Ad(ads[k], lf)])

\* The number of reports and the length of a report's data are a byte each.
ASSUME ShapeAssumption ==
    /\ Shapes \subseteq Seq([node : BOOLEAN, ads : Seq(AdKinds)])
    /\ \A reports \in Shapes :
         /\ Len(reports) <= 255
         /\ \A k \in DOMAIN reports : Len(AdData(reports[k].ads, Zeros(LF_LEN))) <= 255

\* As controllers report: the address is at 3 (Core 5.4 Vol 4 Part E 7.7.65.13), where the
\* parser reads it.  The comment at main.rs:671 and the packets of its tests have it at 17.
Report(r, lf) ==
    LET ad_bytes == AdData(r.ads, lf)
    IN  Zeros(3) \o (IF r.node THEN NodeMac ELSE OtherMac) \o Zeros(14) \o <<Len(ad_bytes)>> \o ad_bytes

Packet(reports, lf) ==
    LET body == FlattenSeq([k \in DOMAIN reports |-> Report(reports[k], lf)])
    IN  <<4, 62, (2 + Len(body)) % 256, 13, Len(reports)>> \o body

NoPacket == [frame |-> 0, reports |-> <<>>, whole |-> FALSE]

Received(f, reports, whole) == packet' = [frame |-> f, reports |-> reports, whole |-> whole]

\* What the bytes of an intact frame read as, should the parser take one for a length.
Worst == 255

\* A report of any frame built so far, for the first time or once more, in any order.
receive ==
    /\ Quiet /\ Cardinality(rows) < MaxReceptions
    /\ \E f \in 1 .. Len(built), reports \in Shapes :
         /\ parse(Packet(reports, lima_lf_t(f, built[f])), Worst)
         /\ Received(f, reports, TRUE)
    /\ UNCHANGED <<node, vk, damages, stored, origin, store, client>>

\* The same, cut off or with a damaged byte.
receive_spoilt ==
    /\ Quiet /\ Cardinality(rows) < MaxReceptions /\ damages < MaxDamage
    /\ \E f \in 1 .. Len(built), reports \in Fragile :
         /\ LET p == Packet(reports, lima_lf_t(f, built[f]))
            IN  \/ \E cut \in CutAt : cut < Len(p) /\ parse(SubSeq(p, 1, cut), Worst)
                \/ \E at \in DamageAt \cap DOMAIN p, v \in Noise : parse([p EXCEPT ![at] = -1], v)
         /\ Received(f, reports, FALSE)
    /\ damages' = damages + 1
    /\ UNCHANGED <<node, vk, stored, origin, store, client>>

----------------------------------------------------------------------------
(* The gateway.                                                            *)

\* It is built with the node's public key, once that was logged, and with another before.
load_test_verifying_key ==
    /\ Quiet /\ vk = "other" /\ "pubkey" \in logged
    /\ vk' = "node"
    /\ UNCHANGED <<node, radio, parsevars, stored, origin, store, client>>

parsing == parse_step /\ UNCHANGED <<node, vk, radio, stored, origin, store, client>>

Origin(frame) ==
    LET from == {f \in DOMAIN built : lima_lf_t(f, built[f]) = frame.mfr_id \o frame.payload}
    IN  IF from = {} THEN 0 ELSE CHOOSE f \in from : TRUE

\* Seeded bug: the record is marked verified before the check.
record_unverified ==
    /\ taken /\ found # NoFrame
    /\ LET n == Len(stored) + 1
       IN  /\ db_insert(n, TRUE)
           /\ stored' = Append(stored, [frame_type |-> found.mfr_id[2], raw_blob |-> found.payload])
           /\ origin' = Append(origin, Origin(found))
    /\ packet' = NoPacket
    /\ UNCHANGED <<node, vk, damages, client>>

record ==
    /\ taken /\ found # NoFrame
    /\ LET n == Len(stored) + 1
       IN  /\ db_insert(n, verify_outer_sig(built, found.mfr_id, found.payload, vk))
           /\ stored' = Append(stored, [frame_type |-> found.mfr_id[2], raw_blob |-> found.payload])
           /\ origin' = Append(origin, Origin(found))
    /\ packet' = NoPacket
    /\ UNCHANGED <<node, vk, damages, client>>

ignore ==
    /\ taken /\ found = NoFrame
    /\ packet' = NoPacket
    /\ UNCHANGED <<node, vk, damages, stored, origin, store, client>>

----------------------------------------------------------------------------
(* The operator.                                                           *)

Closed == [open |-> FALSE, key |-> "other", cursor |-> 0, shown |-> <<>>, errors |-> {}, opens |-> 0]

ClientSteps == Quiet /\ UNCHANGED <<node, vk, radio, parsevars, stored, origin, store>>

\* The client is started, perhaps for another time: the PSK is typed in, and LIMA_LIVE
\* decides where to begin.
open ==
    /\ ClientSteps /\ client.opens < MaxOpens
    /\ \E typed \in {"other", "malformed"} \cup (IF "psk" \in logged THEN {"captured"} ELSE {}),
          start \in {0, last_rowid} :
         \E key \in parse_psk(typed) :
           client' = [Closed EXCEPT !.open = TRUE, !.key = key, !.cursor = start,
                                    !.opens = client.opens + 1]

\* Every new verified row is decrypted, in the order of their ids.
poll ==
    /\ ClientSteps /\ client.open /\ poll_new_frames(client.cursor) # {}
    /\ LET new == poll_new_frames(client.cursor)
           lers(r) == decrypt_ler(built, stored[r.n].raw_blob, stored[r.n].frame_type, client.key)
           good == ById({r \in new : lers(r) # {}})
       IN  client' = [client EXCEPT
                        !.cursor = Last(ById(new)).id,
                        !.shown = @ \o [k \in DOMAIN good |-> CHOOSE ler \in lers(good[k]) : TRUE],
                        !.errors = @ \cup {r.id : r \in {s \in new : lers(s) = {}}}]

----------------------------------------------------------------------------

PathInit ==
    /\ flash = {} /\ node_pc = "off" /\ key_ids = {} /\ sequence_counter = 0 /\ events = 0
    /\ boots = 0 /\ logged = {} /\ built = <<>> /\ boot_of = <<>> /\ vk = "other"
    /\ packet = NoPacket /\ damages = 0
    /\ stored = <<>> /\ origin = <<>> /\ client = Closed
    /\ ParseInit /\ StoreInit

node_step ==
    \/ power_on \/ power_loss \/ init_fails
    \/ provision_ecdsa_key \/ log_public_key \/ provision_aes_key \/ log_psk \/ sign_event

PathNext ==
    \/ node_step \/ receive \/ receive_spoilt \/ load_test_verifying_key
    \/ parsing \/ record \/ ignore \/ open \/ poll

PathSpec == PathInit /\ [][PathNext]_pathvars

----------------------------------------------------------------------------
(* Properties.                                                             *)

Numbers == -1 .. Secret(MaxEvents + 1, 0)
Lers == [node_id : {NodeMac}, event_type : 0 .. 255, sequence : 0 .. MaxEvents, timestamp_ms : Nat,
         accel_g : [1 .. 4 -> 0 .. 255], delta_pa : [1 .. 4 -> 0 .. 255]]

\* Every variable keeps to its values, and the node uses no key it did not store.
PathTypeOK ==
    /\ flash \subseteq {"ecdsa", "aes"} /\ key_ids \subseteq flash
    /\ node_pc \in {"off", "ecdsa", "pubkey", "aes", "export", "run"}
    /\ sequence_counter \in 0 .. MaxEvents /\ events \in 0 .. MaxEvents /\ boots \in 0 .. MaxBoots
    /\ logged \subseteq {"pubkey", "psk"} /\ vk \in {"node", "other"}
    /\ built \in Seq(Lers) /\ boot_of \in Seq(1 .. MaxBoots) /\ Len(boot_of) = Len(built)
    /\ damages \in 0 .. MaxDamage
    /\ pkt \in Seq(Numbers) /\ parse_pc \in {"idle", "report", "ad", "done"}
    /\ rows \subseteq [id : Nat, n : DOMAIN stored, verified : BOOLEAN, acked : BOOLEAN]
    /\ \A n \in DOMAIN stored : stored[n].frame_type \in Numbers /\ stored[n].raw_blob \in Seq(Numbers)
    /\ origin \in Seq(0 .. Len(built)) /\ Len(origin) = Len(stored)
    /\ client.shown \in Seq(Lers) /\ client.cursor \in Nat /\ client.opens \in 0 .. MaxOpens

\* What the parser looks for in a report, told from what the report was made of and not
\* from its bytes: the node's address, and LIMA's company id in the first manufacturer data
\* that has room for one (main.rs:649).
Matches(report) ==
    /\ report.node
    /\ \E k \in DOMAIN report.ads :
         report.ads[k] = "frame" /\ \A j \in 1 .. k - 1 : report.ads[j] \in {"flags", "short"}

Parsed == parse_pc = "done" /\ packet.whole
Sent == lima_lf_t(packet.frame, built[packet.frame])
OfNodeIn(reports) == {n \in DOMAIN reports : reports[n].node}

\* Of a whole packet the parser gives back nothing but a frame that is in it, byte by byte
\* and in a report of the node that matches; and if the node's reports are there and all
\* match, it does give one back, whatever else comes before.  If some of the node's reports
\* match and others do not, the code and the comment above it differ on what is to be
\* found, and this says only the former.
ParserFindsFrame ==
    Parsed =>
      LET ours == OfNodeIn(packet.reports)
          matching == {n \in ours : Matches(packet.reports[n])}
      IN  /\ found # NoFrame => matching # {} /\ found.mfr_id \o found.payload = Sent
          /\ ours # {} /\ matching = ours => found # NoFrame

\* A frame that was found in a whole packet counts: with the node's public key it verifies,
\* the client's key opens what is stored of it and gives back the record that was signed,
\* and the fingerprint on the gateway's screen is that of its signature.  Firmware, gateway
\* and client each have an idea of the layout of their own.
IntactFrameCounts ==
    (Parsed /\ found # NoFrame) =>
      /\ verify_outer_sig(built, found.mfr_id, found.payload, "node")
      /\ decrypt_ler(built, found.payload, found.mfr_id[2], "node") = {built[packet.frame]}
      /\ ui_row(found.payload).sig_fp = Slice(Sent, 120, 124)

\* "This crate is the single source of truth for the Rust side", and mirrors the firmware's
\* structs (lima-types lib.rs:3-5): both types read what the node wrote and write it back,
\* with the signed part where the node has it, and crypto-test passes for the record.
MirroredBy(f, ler) ==
      LET lf == lima_lf_t(f, ler)
          record_of == LimaEventRecord_from_bytes(lima_ler_t(ler))
      IN  /\ \A field \in DOMAIN ler : record_of[field] = ler[field]
          /\ record_of.reserved = 0
          /\ LimaEventRecord_to_bytes(record_of) = lima_ler_t(ler)
          /\ LimaFrame_from_bytes(lf).event_type = ler.event_type
          /\ LimaFrame_to_bytes(LimaFrame_from_bytes(lf)) = lf
          /\ signed_bytes(LimaFrame_from_bytes(lf)) = Slice(lf, 0, LIMA_LF_SIGNED_LEN)
          /\ crypto_test(record_of)

TypesMirrorFirmware == [][\A f \in DOMAIN built' \ DOMAIN built : MirroredBy(f, built'[f])]_built

\* With the PSK the node logged, a client shows every verified row it went through, across
\* boots of the node and whatever became of other packets: none ends as an error.
TrailReadable == client.key = "node" => client.errors = {}

Verified == {r \in rows : r.verified}

Audit == INSTANCE AuditTrail WITH
    signed <- [f \in DOMAIN built |-> [boot |-> boot_of[f], ler |-> built[f]]],
    trail <- [k \in 1 .. Cardinality(Verified) |-> origin[ById(Verified)[k].n]],
    shown <- client.shown,
    upto <- Cardinality({r \in Verified : r.id <= client.cursor})

\* The path of frames implements the audit trail: whatever arrives, again, late or damaged,
\* a row is marked as verified only if it holds, unaltered, what the node signed, and the
\* operator sees the trail as it is or nothing of it.  That a frame is trailed but once, or
\* in the order of its sequence number, is not part of it: CRYPTO.md:106 has the gateway
\* reject numbers received before, and the gateway keeps none to compare with.
ImplementsAudit == Audit!AuditSpec

=============================================================================
