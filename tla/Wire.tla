-------------------------------- MODULE Wire --------------------------------
(***************************************************************************)
(* Bytes and their Base64 (packages/protocol/src/base64.ts).                *)
(* A Base64 character is its index in ALPHABET, the URL-safe aliases        *)
(* included; Pad is "=", Blank is white space.                              *)
(***************************************************************************)
EXTENDS Integers, SequencesExt

Byte  == 0 .. 255
Pad   == 64
Blank == 65

\* Big-endian, as many as there is room for.
Bytes(n, width) ==
  LET high[k \in Nat] == IF k = 0 THEN n ELSE high[k - 1] \div 256
  IN  [i \in 1 .. width |-> high[width - i] % 256]
Zeros(n) == [i \in 1 .. n |-> 0]

\* slice(from, to): what there is of it.
Slice(bytes, from, to) ==
  SubSeq(bytes, from + 1, IF to < Len(bytes) THEN to ELSE Len(bytes))

-----------------------------------------------------------------------------
(* base64.ts.                                                               *)

\* Three bytes to four characters; a short last group is padded.
Base64FromBytes(bytes) ==
  LET At(i) == IF i <= Len(bytes) THEN bytes[i] ELSE 0
      Group(i) == LET n == At(3*i - 2) * 65536 + At(3*i - 1) * 256 + At(3*i)
                  IN  [k \in 1 .. 4 |-> IF 3*i - 4 + k > Len(bytes) THEN Pad
                                        ELSE (n \div 64 ^ (4 - k)) % 64]
  IN  FlattenSeq([i \in 1 .. (Len(bytes) + 2) \div 3 |-> Group(i)])

\* Bits come out in eights, the rest is dropped; padding ends the data.
BytesFromBase64(chars) ==
  LET end   == SelectInSeq(chars, LAMBDA c : c = Pad)
      clean == SelectSeq(IF end = 0 THEN chars ELSE SubSeq(chars, 1, end - 1),
                         LAMBDA c : c # Blank)
      Two(k) == 64 * clean[k \div 6 + 1] + clean[k \div 6 + 2]   \* from bit k on
      ByteAt(k) == (Two(k) \div 2 ^ (4 - (k % 6))) % 256
  IN  [i \in 1 .. (Len(clean) * 6) \div 8 |-> ByteAt(8 * (i - 1))]
=============================================================================
