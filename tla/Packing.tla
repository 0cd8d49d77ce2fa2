------------------------------- MODULE Packing -------------------------------
(***************************************************************************)
(* Bit packing of base codes (quantizer.py): signed codes of 2, 3 or 4     *)
(* bits, put side by side into int8 bytes, lowest code first.  A group is  *)
(* the least number of codes that fill whole bytes: 4 codes of 2 bits, 8   *)
(* of 3 (in 3 bytes), 2 of 4.  The 1-D and the 2-D packers do the same to  *)
(* each group.                                                             *)
(***************************************************************************)
EXTENDS Integers

BaseBits == {2, 3, 4}

Radix(bits)         == CASE bits = 2 -> 4 [] bits = 3 -> 8 [] bits = 4 -> 16
CodesPerGroup(bits) == CASE bits = 2 -> 4 [] bits = 3 -> 8 [] bits = 4 -> 2
BytesPerGroup(bits) == IF bits = 3 THEN 3 ELSE 1

(* The codes quantize() produces. *)
Codes(bits) == -(Radix(bits) \div 2) .. Radix(bits) \div 2 - 1

packed_row_bytes(D, bits) == (D \div CodesPerGroup(bits)) * BytesPerGroup(bits)

(* tensor.to(torch.int8) and .to(torch.uint8): the same eight bits. *)
Int8(x)  == IF x > 127 THEN x - 256 ELSE x
UInt8(x) == x % 256

(* Mutant: the mask is one bit short. *)
Field_short(code, bits) == code % (Radix(bits) \div 2)

(* code & mask: the lowest bits of the two's complement. *)
Field(code, bits) == code % Radix(bits)

(* The codes of a group, each shifted to its place. *)
Word(bits, u) ==
  CASE bits = 2 -> u[1] + 4 * u[2] + 16 * u[3] + 64 * u[4]
    [] bits = 3 -> u[1] + 8 * u[2] + 64 * u[3] + 512 * u[4] + 4096 * u[5]
                     + 32768 * u[6] + 262144 * u[7] + 2097152 * u[8]
    [] bits = 4 -> u[1] + 16 * u[2]

(* The place of code i in the word. *)
Place(bits, i) ==
  CASE bits = 2 -> <<1, 4, 16, 64>>[i]
    [] bits = 3 -> <<1, 8, 64, 512, 4096, 32768, 262144, 2097152>>[i]
    [] bits = 4 -> <<1, 16>>[i]

BytePlace == <<1, 256, 65536>>

PackGroup(bits, codes) ==
  LET w == Word(bits, [i \in 1 .. CodesPerGroup(bits) |-> Field(codes[i], bits)])
  IN [j \in 1 .. BytesPerGroup(bits) |-> Int8((w \div BytePlace[j]) % 256)]

(* Mutant: the upper half of the fields is not made negative again. *)
Signed_never(x, bits) == x

Signed(x, bits) == IF x >= Radix(bits) \div 2 THEN x - Radix(bits) ELSE x

WordOf(bits, bytes) ==
  IF bits = 3 THEN UInt8(bytes[1]) + 256 * UInt8(bytes[2]) + 65536 * UInt8(bytes[3])
              ELSE UInt8(bytes[1])

UnpackGroup(bits, bytes) ==
  [i \in 1 .. CodesPerGroup(bits) |->
     Signed((WordOf(bits, bytes) \div Place(bits, i)) % Radix(bits), bits)]

(* A row of D codes and its bytes, group by group. *)
pack_codes_2d(row, D, bits) ==
  LET n == CodesPerGroup(bits)  m == BytesPerGroup(bits)
      Group(g) == PackGroup(bits, [i \in 1 .. n |-> row[g * n + i]])
  IN [j \in 1 .. packed_row_bytes(D, bits) |-> Group((j - 1) \div m)[((j - 1) % m) + 1]]

unpack_codes_2d(bytes, D, bits) ==
  LET n == CodesPerGroup(bits)  m == BytesPerGroup(bits)
      Group(g) == UnpackGroup(bits, [j \in 1 .. m |-> bytes[g * m + j]])
  IN [i \in 1 .. D |-> Group((i - 1) \div n)[((i - 1) % n) + 1]]
=============================================================================
