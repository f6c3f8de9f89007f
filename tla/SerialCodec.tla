----------------------------- MODULE SerialCodec -----------------------------
(***************************************************************************)
(* The messages of the serial2002 protocol as bytes                        *)
(* (plugins/serial2002/serial2002_lib.c).                                  *)
(*                                                                         *)
(* A digital message is one byte: a bit of value and five of index.  A     *)
(* channel message is up to five continuation bytes, marked by their top   *)
(* bit and most significant first, and a last byte with the two low bits   *)
(* of the value and the index.                                             *)
(***************************************************************************)
EXTENDS Integers, Sequences

Index == 0..31
Byte == 0..255

Message(kind, index, value) == [kind |-> kind, index |-> index, value |-> value]

-----------------------------------------------------------------------------
(* Writing *)

\* Seeded fault: a value of exactly 2^shift loses its top bit.
Leading_above(value, shift, width) ==
    IF value > 2 ^ shift THEN <<128 + ((value \div 2 ^ shift) % width)>> ELSE << >>

\* A continuation byte that is sent only when the value reaches it.
Leading(value, shift, width) ==
    IF value >= 2 ^ shift THEN <<128 + ((value \div 2 ^ shift) % width)>> ELSE << >>

serial2002_write(data) ==
    IF data.kind = "digital"
    THEN <<32 * (data.value % 2) + data.index>>
    ELSE Leading(data.value, 30, 4) \o Leading(data.value, 23, 128)
         \o Leading(data.value, 16, 128) \o Leading(data.value, 9, 128)
         \o <<128 + ((data.value \div 4) % 128),
              32 * (data.value % 4) + data.index>>

-----------------------------------------------------------------------------
(* Reading: what serial2002_read knows of the message it is in.  A status   *)
(* other than "more" ends the call.                                         *)

Start == [status |-> "more", kind |-> "invalid", index |-> 0, value |-> 0,
          length |-> 0]

Continues(b) == b >= 128

\* The character FTDI adapters insert, ignored where a message may start.
EventCharacter == 94

Failed(r, status) == [Start EXCEPT !.status = status]

continuation(r, b) ==
    IF r.length < 5
    THEN [r EXCEPT !.length = @ + 1, !.value = 128 * @ + (b % 128)]
    ELSE Failed(r, "EFBIG")

first_byte(b) ==
    CASE b < 64             -> [Start EXCEPT !.status = "OK", !.kind = "digital",
                                             !.index = b % 32, !.value = b \div 32]
      [] b = EventCharacter -> Start
      [] OTHER              -> Failed(Start, "EINVAL")

last_byte(r, b) ==
    [r EXCEPT !.status = "OK", !.kind = "channel", !.index = b % 32,
              !.value = 4 * @ + b \div 32]

\* Seeded fault: the event character is forgotten where it is a last byte.
read_byte_ignores_events(r, b) ==
    IF b = EventCharacter THEN Start
    ELSE IF Continues(b) THEN continuation(r, b)
    ELSE IF r.length = 0 THEN first_byte(b)
    ELSE last_byte(r, b)

\* The body of serial2002_read's loop.
read_byte(r, b) ==
    IF Continues(b) THEN continuation(r, b)
    ELSE IF r.length = 0 THEN first_byte(b)
    ELSE last_byte(r, b)
=============================================================================
