-------------------------------- MODULE Wire --------------------------------
(***************************************************************************)
(* The byte layout of records and frames, as each program has it: the      *)
(* firmware's packed structs (crypto.h, crypto.c), the shared Rust types   *)
(* (lima-types), the gateway's check of the outer signature (main.rs) and  *)
(* the client's decryption (client crypto.rs).  No two of them share code, *)
(* and a frame gets through only if they agree on every offset.            *)
(*                                                                         *)
(* Bytes are numbers.  One below 256 is that byte; what the node draws at  *)
(* random, encrypts or signs cannot be told or made by anyone else, and    *)
(* byte k of frame f has the number Secret(f, k) of its own.  The ciphers  *)
(* are ideal: a decryption or a verification succeeds for exactly what was *)
(* encrypted or signed, under the same key, with every byte in place.      *)
(***************************************************************************)
EXTENDS Integers, Sequences

\* Offsets count from 0 and a range leaves its end out, as in the sources.
Slice(s, from, to) == SubSeq(s, from + 1, to)
Byte(s, at) == s[at + 1]

\* A zeroed buffer with pieces copied to their places.
Buffer(len, pieces) ==
    [k \in 1 .. len |->
       LET here == {p \in pieces : k - 1 \in p.at .. p.at + Len(p.bytes) - 1}
           piece == CHOOSE p \in here : TRUE
       IN  IF here = {} THEN 0 ELSE Byte(piece.bytes, k - 1 - piece.at)]

At(offset, bytes) == [at |-> offset, bytes |-> bytes]

to_le_bytes(v) == <<v % 256, (v \div 256) % 256, (v \div 65536) % 256, (v \div 16777216) % 256>>
from_le_bytes(b) == b[1] + 256 * b[2] + 65536 * b[3] + 16777216 * b[4]

Secret(f, k) == 256 * f + k
Secrets(f, from, to) == [k \in 1 .. to - from |-> Secret(f, from + k - 1)]

----------------------------------------------------------------------------
(* The firmware: lima_ler_t and lima_lf_t, and what is made of them.       *)

LIMA_LF_HEADER_LEN == 4
LIMA_LF_NONCE_LEN == 12
LIMA_LF_CIPHERTEXT_LEN == 88
LIMA_LF_TAG_LEN == 16
LIMA_LF_OUTER_SIG_LEN == 64
LIMA_LF_SIGNED_LEN == 120

lima_ler_t(ler) ==
    ler.node_id \o <<ler.event_type, 0>> \o to_le_bytes(ler.sequence)
      \o to_le_bytes(ler.timestamp_ms) \o ler.accel_g \o ler.delta_pa

\* LER and inner signature, which is not part of a frame and numbered behind its end.
plaintext(f, ler) == lima_ler_t(ler) \o Secrets(f, 184, 184 + LIMA_LF_OUTER_SIG_LEN)

\* Frame f, for a LER: header, nonce, ciphertext and tag, outer signature.
lima_lf_t(f, ler) ==
    LET n == LIMA_LF_HEADER_LEN + LIMA_LF_NONCE_LEN
        c == n + LIMA_LF_CIPHERTEXT_LEN
        t == c + LIMA_LF_TAG_LEN
    IN  <<2, ler.event_type, 0, 0>> \o Secrets(f, LIMA_LF_HEADER_LEN, n)
          \o Secrets(f, n, c) \o Secrets(f, c, t) \o Secrets(f, t, t + LIMA_LF_OUTER_SIG_LEN)

----------------------------------------------------------------------------
(* The ciphers.  built is the sequence of what the node built: frame f has *)
(* the LER built[f].                                                       *)

\* psa_aead_encrypt(): the header is the additional data.  Frame f opens with the node's
\* key, its nonce and header, and every byte of its ciphertext and tag.
Opened(built, key, nonce, aad, ct_with_tag) ==
    {f \in DOMAIN built :
       LET lf == lima_lf_t(f, built[f])
       IN  /\ key = "node"
           /\ aad = Slice(lf, 0, LIMA_LF_HEADER_LEN)
           /\ nonce = Slice(lf, 4, 4 + LIMA_LF_NONCE_LEN)
           /\ ct_with_tag = Slice(lf, 16, 16 + LIMA_LF_CIPHERTEXT_LEN + LIMA_LF_TAG_LEN)}

\* psa_sign_message() over the first LIMA_LF_SIGNED_LEN bytes of a frame.
Verifies(built, key, message, signature) ==
    \E f \in DOMAIN built :
      LET lf == lima_lf_t(f, built[f])
      IN  /\ key = "node"
          /\ message = Slice(lf, 0, LIMA_LF_SIGNED_LEN)
          /\ signature = Slice(lf, 120, 120 + LIMA_LF_OUTER_SIG_LEN)

----------------------------------------------------------------------------
(* lima-types.                                                             *)

LER_LEN == 24
INNER_SIG_LEN == 64
PLAINTEXT_LEN == LER_LEN + INNER_SIG_LEN
HEADER_LEN == 4
NONCE_LEN == 12
CIPHERTEXT_LEN == 88
TAG_LEN == 16
OUTER_SIG_LEN == 64
LF_LEN == HEADER_LEN + NONCE_LEN + CIPHERTEXT_LEN + TAG_LEN + OUTER_SIG_LEN

LF_OFFSET_PROTO == 0
LF_OFFSET_EVENT_TYPE == 1
LF_OFFSET_NONCE == 4
LF_OFFSET_CIPHERTEXT == 16
LF_OFFSET_GCM_TAG == 104
LF_OFFSET_OUTER_SIG == 120
LF_SIGNED_BYTES == 120

LimaEventRecord_to_bytes(r) ==
    Buffer(LER_LEN, {At(0, r.node_id), At(6, <<r.event_type>>), At(7, <<r.reserved>>),
                     At(8, to_le_bytes(r.sequence)), At(12, to_le_bytes(r.timestamp_ms)),
                     At(16, r.accel_g), At(20, r.delta_pa)})

\* Seeded bug: the two numbers have changed places.
LimaEventRecord_from_bytes_swapped(data) ==
    [node_id |-> Slice(data, 0, 6), event_type |-> Byte(data, 6), reserved |-> Byte(data, 7),
     sequence |-> from_le_bytes(Slice(data, 12, 16)),
     timestamp_ms |-> from_le_bytes(Slice(data, 8, 12)),
     accel_g |-> Slice(data, 16, 20), delta_pa |-> Slice(data, 20, 24)]

LimaEventRecord_from_bytes(data) ==
    [node_id |-> Slice(data, 0, 6), event_type |-> Byte(data, 6), reserved |-> Byte(data, 7),
     sequence |-> from_le_bytes(Slice(data, 8, 12)),
     timestamp_ms |-> from_le_bytes(Slice(data, 12, 16)),
     accel_g |-> Slice(data, 16, 20), delta_pa |-> Slice(data, 20, 24)]

LimaFrame_from_bytes(data) ==
    [proto_version |-> Byte(data, LF_OFFSET_PROTO),
     event_type |-> Byte(data, LF_OFFSET_EVENT_TYPE),
     reserved |-> Slice(data, 2, 4),
     nonce |-> Slice(data, LF_OFFSET_NONCE, LF_OFFSET_NONCE + NONCE_LEN),
     ciphertext |-> Slice(data, LF_OFFSET_CIPHERTEXT, LF_OFFSET_CIPHERTEXT + CIPHERTEXT_LEN),
     gcm_tag |-> Slice(data, LF_OFFSET_GCM_TAG, LF_OFFSET_GCM_TAG + TAG_LEN),
     outer_sig |-> Slice(data, LF_OFFSET_OUTER_SIG, LF_OFFSET_OUTER_SIG + OUTER_SIG_LEN)]

LimaFrame_to_bytes(lf) ==
    Buffer(LF_LEN, {At(LF_OFFSET_PROTO, <<lf.proto_version>>),
                    At(LF_OFFSET_EVENT_TYPE, <<lf.event_type>>), At(2, lf.reserved),
                    At(LF_OFFSET_NONCE, lf.nonce), At(LF_OFFSET_CIPHERTEXT, lf.ciphertext),
                    At(LF_OFFSET_GCM_TAG, lf.gcm_tag), At(LF_OFFSET_OUTER_SIG, lf.outer_sig)})

signed_bytes(lf) == Slice(LimaFrame_to_bytes(lf), 0, LF_SIGNED_BYTES)

----------------------------------------------------------------------------
(* crypto-test: the round trip of one record through both signatures and   *)
(* the cipher, with a frame layout of its own (nonce, ciphertext and tag,  *)
(* signature: no header).  What it draws is numbered as of frame 1.        *)

test_inner_sig == Secrets(1, 184, 184 + INNER_SIG_LEN)
test_plaintext(payload) == Buffer(LER_LEN + INNER_SIG_LEN,
                                  {At(0, LimaEventRecord_to_bytes(payload)), At(LER_LEN, test_inner_sig)})

test_nonce == Secrets(1, 4, 4 + NONCE_LEN)
test_sealed(text) == Secrets(1, 16, 16 + Len(text) + TAG_LEN)
to_sign_outer(payload) == test_nonce \o test_sealed(test_plaintext(payload))

\* Whether every check of the tool passes for a payload: what it decrypts it cuts at
\* LER_LEN, and the inner signature stands only for the signed bytes.
crypto_test(payload) ==
    LET decrypted == test_plaintext(payload)
        dec_payload == Slice(decrypted, 0, LER_LEN)
        dec_sig == Slice(decrypted, LER_LEN, LER_LEN + INNER_SIG_LEN)
        recovered == LimaEventRecord_from_bytes(dec_payload)
    IN  /\ Len(to_sign_outer(payload)) = NONCE_LEN + CIPHERTEXT_LEN + TAG_LEN
        /\ dec_sig = test_inner_sig /\ dec_payload = LimaEventRecord_to_bytes(payload)
        /\ recovered.sequence = payload.sequence /\ recovered.timestamp_ms = payload.timestamp_ms
        /\ recovered.event_type = payload.event_type /\ recovered.node_id = payload.node_id

----------------------------------------------------------------------------
(* The gateway.                                                            *)

\* The company id is LF[0] and LF[1]; the payload is the rest.
verify_outer_sig(built, mfr_id, payload, vk) ==
    LET full_lf == mfr_id \o payload
    IN  /\ Len(payload) = LF_LEN - 2
        /\ Verifies(built, vk, Slice(full_lf, 0, LF_SIGNED_BYTES),
                    Slice(full_lf, LF_OFFSET_OUTER_SIG, LF_OFFSET_OUTER_SIG + OUTER_SIG_LEN))

\* Seeded bug: the outer signature's offset is counted in the stripped payload.
ui_row_unstripped(raw) ==
    [evt |-> IF Len(raw) >= 2 THEN raw[2] ELSE -1,
     sig_fp |-> IF Len(raw) >= 122 THEN Slice(raw, 120, 124) ELSE <<>>]

\* What a row of the screen shows of a stored payload.
ui_row(raw) ==
    [evt |-> IF Len(raw) >= 2 THEN raw[2] ELSE -1,
     sig_fp |-> IF Len(raw) >= 122 THEN Slice(raw, 118, 122) ELSE <<>>]

----------------------------------------------------------------------------
(* The client.  Each operator below gives the set of its results, which is *)
(* empty when it returns an error.                                         *)

LF_STRIPPED_LEN == 182
LF_NONCE_OFFSET == 4
LF_CIPHER_OFFSET == 16
LF_TAG_OFFSET == 104

\* Seeded bug: the event type is taken from the payload, as a comment in it has it.
reconstruct_lf_stripped(stripped, event_type) ==
    IF Len(stripped) = LF_STRIPPED_LEN THEN {<<2, stripped[1]>> \o stripped} ELSE {}

reconstruct_lf(stripped, event_type) ==
    IF Len(stripped) = LF_STRIPPED_LEN THEN {<<2, event_type>> \o stripped} ELSE {}

parse_ler(bytes) ==
    [node_id |-> Slice(bytes, 0, 6), event_type |-> Byte(bytes, 6),
     sequence |-> from_le_bytes(Slice(bytes, 8, 12)),
     timestamp_ms |-> from_le_bytes(Slice(bytes, 12, 16)),
     accel_g |-> Slice(bytes, 16, 20), delta_pa |-> Slice(bytes, 20, 24)]

decrypt_ler(built, raw_blob, event_type, key) ==
    UNION {LET ct_with_tag == Slice(lf, LF_CIPHER_OFFSET, LF_CIPHER_OFFSET + 88)
                                \o Slice(lf, LF_TAG_OFFSET, LF_TAG_OFFSET + 16)
               opened == Opened(built, key, Slice(lf, LF_NONCE_OFFSET, LF_NONCE_OFFSET + 12),
                                Slice(lf, 0, 4), ct_with_tag)
           IN  {parse_ler(Slice(plaintext(f, built[f]), 0, 24)) : f \in opened} :
           lf \in reconstruct_lf(raw_blob, event_type)}

\* Typed is what the operator enters: the PSK captured from the node, another one, or no PSK.
parse_psk(typed) ==
    CASE typed = "captured" -> {"node"} [] typed = "other" -> {"other"} [] OTHER -> {}
=============================================================================
