---------------------------- MODULE PowerDevice ----------------------------
(***************************************************************************)
(* The cipher of the power strip (PowerDevice): the response to a token, the *)
(* decoding of a status and the encoding of a switch command.  Buffers are   *)
(* indexed as in Java.  Casts to byte and masks with 0xFF are % 256.         *)
(***************************************************************************)
EXTENDS Integers, Sequences

Byte == 0 .. 255

Plugs == 0 .. 3

Buffer == [0 .. 3 -> Byte]

NewBuffer == [i \in 0 .. 3 |-> 0]

POWER_ON == 65

POWER_OFF == 130

SWITCH_ON == 1

SWITCH_OFF == 2

SWITCH_NONE == 4

\* Java's ^, on values of up to 16 bits: the sum of the weights where they differ.
Bit(x, weight) == (x \div weight) % 2

Differ(x, y, weight) == weight * ((Bit(x, weight) + Bit(y, weight)) % 2)

Xor(x, y) ==
      Differ(x, y, 1) + Differ(x, y, 2) + Differ(x, y, 4) + Differ(x, y, 8)
    + Differ(x, y, 16) + Differ(x, y, 32) + Differ(x, y, 64) + Differ(x, y, 128)
    + Differ(x, y, 256) + Differ(x, y, 512) + Differ(x, y, 1024)
    + Differ(x, y, 2048) + Differ(x, y, 4096) + Differ(x, y, 8192)
    + Differ(x, y, 16384) + Differ(x, y, 32768)

\* String.format("%-8s", password): padded with spaces to eight bytes.
Key(password) ==
    [i \in 0 .. 7 |-> IF i < Len(password) THEN password[i + 1] ELSE 32]

\* addToken: two 16-bit words, low byte first.
TokenResponse(key, token) ==
    LET word(j) ==
            Xor(Xor(Xor(token[j], key[j + 2]) * key[j], key[j + 6] + 256 * key[j + 4]),
                token[j + 2])
    IN  [i \in 0 .. 3 |-> (word(i \div 2) \div 256 ^ (i % 2)) % 256]

Decipher(key, token, x) ==
    Xor((Xor((x - key[1]) % 256, key[0]) - token[3]) % 256, token[2])

Encipher(key, token, x) ==
    (Xor(Xor(x, token[2]) + token[3], key[0]) + key[1]) % 256

\* Mutant: the bytes of a status are taken in the order of the plugs.
AddStatusUnreversed(key, token, buffer) ==
    [plug \in Plugs |-> Decipher(key, token, buffer[plug]) = POWER_ON]

\* addStatus: the last byte is the state of the first plug.
AddStatus(key, token, buffer) ==
    [plug \in Plugs |-> Decipher(key, token, buffer[3 - plug]) = POWER_ON]

\* Mutant: the other plugs are sent SWITCH_OFF.
SetStatusOthersOff(key, token, plug, value) ==
    [i \in 0 .. 3 |->
        Encipher(key, token, IF 3 - i = plug /\ value THEN SWITCH_ON ELSE SWITCH_OFF)]

\* setStatus: a command for one plug, and SWITCH_NONE for the others.
SetStatus(key, token, plug, value) ==
    [i \in 0 .. 3 |->
        Encipher(key, token,
                 IF 3 - i # plug THEN SWITCH_NONE
                 ELSE IF value THEN SWITCH_ON
                 ELSE SWITCH_OFF)]

----------------------------------------------------------------------------
(* The strip's own side, as the application takes it to be. *)

StripStatus(key, token, plugs) ==
    [i \in 0 .. 3 |->
        Encipher(key, token, IF plugs[3 - i] THEN POWER_ON ELSE POWER_OFF)]

Switched(key, token, buffer, plugs) ==
    [plug \in Plugs |->
        LET command == Decipher(key, token, buffer[3 - plug])
        IN  command = SWITCH_ON \/ (command # SWITCH_OFF /\ plugs[plug])]
=============================================================================
