-------------------------------- MODULE Frames --------------------------------
(***************************************************************************)
(* Bytes that carry bytes: base 64 (stdlib_session.c), which the cookie of *)
(* a session is written in, and the frames of a WebSocket                  *)
(* (stdlib_websocket.c).                                                   *)
(***************************************************************************)
EXTENDS Integers, Sequences, Text

(* Base 64 *)

Padding == 61
b64_table(n) == IF n < 26 THEN 65 + n ELSE IF n < 52 THEN 71 + n ELSE IF n < 62 THEN n - 4
                ELSE IF n = 62 THEN 43 ELSE 47
b64_decode_char(c) ==
    IF c \in 65 .. 90 THEN c - 65 ELSE IF c \in 97 .. 122 THEN c - 71 ELSE IF c \in 48 .. 57 THEN c + 4
    ELSE IF c = 43 THEN 62 ELSE IF c = 47 THEN 63 ELSE -1
Sextet(triple, k) == (triple \div <<262144, 4096, 64, 1>>[k]) % 64
Octet(triple, k) == (triple \div <<65536, 256, 1>>[k]) % 256

\* Three bytes after `at', and where the text has ended, zeros.
Byte(s, i) == IF i <= Len(s) THEN s[i] ELSE 0
Triple(s, at) == 65536 * Byte(s, at + 1) + 256 * Byte(s, at + 2) + Byte(s, at + 3)
base64_encode(s) ==
    LET olen == 4 * ((Len(s) + 2) \div 3)
        padded == (3 - (Len(s) % 3)) % 3
    IN  [i \in 1 .. olen |->
            IF i > olen - padded THEN Padding
            ELSE b64_table(Sextet(Triple(s, 3 * ((i - 1) \div 4)), ((i - 1) % 4) + 1))]

Value_at(s, i) == IF s[i] = Padding THEN 0 ELSE b64_decode_char(s[i])
Quadruple(s, at) ==
    262144 * Value_at(s, at + 1) + 4096 * Value_at(s, at + 2) + 64 * Value_at(s, at + 3) + Value_at(s, at + 4)
base64_decode(s) ==
    LET last == IF Len(s) > 0 /\ s[Len(s)] = Padding THEN 1 ELSE 0
        last_but_one == IF Len(s) > 1 /\ s[Len(s) - 1] = Padding THEN 1 ELSE 0
    IN  IF Len(s) % 4 # 0 \/ \E i \in DOMAIN s : Value_at(s, i) < 0 THEN [ok |-> FALSE]
        ELSE [ok |-> TRUE,
              bytes |-> [i \in 1 .. 3 * (Len(s) \div 4) - last - last_but_one |->
                            Octet(Quadruple(s, 4 * ((i - 1) \div 3)), ((i - 1) % 3) + 1)]]

(* Frames of a WebSocket *)

\* The exclusive or of two bytes.
Xor(a, b) ==
    LET Bit(p) == p * ((a \div p + b \div p) % 2)
    IN  Bit(1) + Bit(2) + Bit(4) + Bit(8) + Bit(16) + Bit(32) + Bit(64) + Bit(128)

Place == <<1, 256, 65536, 16777216>>
BigEndian(n, width) == [i \in 1 .. width |-> (n \div Place[width + 1 - i]) % 256]
Shift(n, byte) == 256 * n + byte
FromBigEndian(b) ==
    IF Len(b) = 2 THEN Shift(b[1], b[2])
    ELSE Shift(Shift(Shift(Shift(Shift(Shift(Shift(b[1], b[2]), b[3]), b[4]), b[5]), b[6]), b[7]), b[8])

\* Lengths have 32 bits (object.h).
frame_head(len, opcode) ==
    <<128 + (opcode % 16)>>
    \o (IF len < 126 THEN <<len>>
        ELSE IF len <= 65535 THEN <<126>> \o BigEndian(len, 2)
        ELSE <<127, 0, 0, 0, 0>> \o BigEndian(len, 4))
encode_frame(payload, opcode) == frame_head(Len(payload), opcode) \o payload
\* What a browser sends: the same frame, its payload masked with a key.
Masked(payload, key) == [i \in DOMAIN payload |-> Xor(payload[i], key[((i - 1) % 4) + 1])]
masked_frame(payload, opcode, key) ==
    [frame_head(Len(payload), opcode) EXCEPT ![2] = @ + 128] \o key \o Masked(payload, key)

Incomplete == [ok |-> FALSE]
Width(short) == IF short = 126 THEN 2 ELSE IF short = 127 THEN 8 ELSE 0
payload_len(buf, width) == IF width = 0 THEN buf[2] % 128 ELSE FromBigEndian(Cut(buf, 3, 3 + width))
payload_pos(buf, width) == 2 + width + (IF buf[2] >= 128 THEN 4 ELSE 0)
payload_of(buf, pos, len) ==
    LET payload == Cut(buf, pos + 1, pos + len + 1)
    IN  IF buf[2] >= 128 THEN Masked(payload, Cut(buf, pos - 3, pos + 1)) ELSE payload
decode_frame(buf) ==
    LET width == Width(buf[2] % 128)
        len == payload_len(buf, width)
        pos == payload_pos(buf, width)
    IN  IF Len(buf) < 2 THEN Incomplete
        ELSE IF Len(buf) < pos THEN Incomplete
        ELSE IF Len(buf) < pos + len THEN Incomplete
        ELSE [ok |-> TRUE, fin |-> buf[1] >= 128, opcode |-> buf[1] % 16, payload |-> payload_of(buf, pos, len)]

(* Laws *)

\* Bytes come back, and nothing else is in the text than what may be in a cookie.
Letters == (65 .. 90) \cup (97 .. 122) \cup (48 .. 57) \cup {43, 47, Padding}
Base64Law(s) ==
    /\ base64_decode(base64_encode(s)) = [ok |-> TRUE, bytes |-> s]
    /\ \A i \in DOMAIN base64_encode(s) : base64_encode(s)[i] \in Letters

\* A frame is read as it was written, with or without a mask, only once it
\* is complete, and what follows it is left alone.
FrameRead(frame, payload, opcode, rest) ==
    decode_frame(frame \o rest) = [ok |-> TRUE, fin |-> TRUE, opcode |-> opcode % 16, payload |-> payload]
CutShort(frame, lengths) == \A n \in lengths : n < Len(frame) => ~decode_frame(Upto(frame, n)).ok
FrameLaw(payload, opcode, key, rest, lengths) ==
    \A frame \in {encode_frame(payload, opcode), masked_frame(payload, opcode, key)} :
        FrameRead(frame, payload, opcode, rest) /\ CutShort(frame, lengths \cup {Len(frame) - 1})
=============================================================================
