------------------------- MODULE BaseStorageProofs -------------------------
(***************************************************************************)
(* What the cache stores of a token is read back: proofs about the codes   *)
(* and scales of BasePage and about the residual slots of ResidualSlots,   *)
(* for every page, row and block size, every width and every row.          *)
(*                                                                         *)
(* BaseInv, of BasePage: the pages before the last are full, the pages     *)
(* hold as many rows as were written, and what stands at the place of      *)
(* token i is the packed code vector and the stored scale of row i.  It    *)
(* rests on the packing, which loses nothing, and on the rounding of an    *)
(* int8 scale.  PageInv, of ResidualSlots: each channel of each row has    *)
(* its element of one K block and of one V block, and an element is read   *)
(* to within half a step of its block.                                     *)
(***************************************************************************)
EXTENDS BasePage, ResidualSlots, CommonLemmas

-------------------------------------------------------------------------------
(* Packing codes *)

LEMMA BitsFacts ==
  /\ \A b \in BaseBits : b = 2 \/ b = 3 \/ b = 4
  /\ Radix(2) = 4 /\ Radix(3) = 8 /\ Radix(4) = 16
  /\ CodesPerGroup(2) = 4 /\ CodesPerGroup(3) = 8 /\ CodesPerGroup(4) = 2
  /\ BytesPerGroup(2) = 1 /\ BytesPerGroup(3) = 3 /\ BytesPerGroup(4) = 1
  BY DEF BaseBits, Radix, CodesPerGroup, BytesPerGroup

(* A code is restored from its lowest bits. *)
LEMMA FieldSigned ==
  ASSUME NEW bits \in BaseBits, NEW x \in Codes(bits)
  PROVE  /\ Field(x, bits) \in 0 .. Radix(bits) - 1
         /\ Signed(Field(x, bits), bits) = x
<1>1. CASE bits = 2
  <2>1. x \in -2 .. 1
    BY <1>1, BitsFacts DEF Codes
  <2> QED
    BY <1>1, <2>1, BitsFacts DEF Field, Signed
<1>2. CASE bits = 3
  <2>1. x \in -4 .. 3
    BY <1>2, BitsFacts DEF Codes
  <2> QED
    BY <1>2, <2>1, BitsFacts DEF Field, Signed
<1>3. CASE bits = 4
  <2>1. x \in -8 .. 7
    BY <1>3, BitsFacts DEF Codes
  <2> QED
    BY <1>3, <2>1, BitsFacts DEF Field, Signed
<1> QED
  BY <1>1, <1>2, <1>3, BitsFacts

(* A byte survives the signed type it is stored in. *)
LEMMA ByteKept == \A b \in 0 .. 255 : UInt8(Int8(b)) = b
  BY DEF UInt8, Int8
(* The words of a group. *)
WordSpace(bits) == IF bits = 3 THEN 16777216 ELSE 256

(* The places of the codes in a word. *)
LEMMA PlacesOf3 ==
  /\ Place(3, 1) = 1 /\ Place(3, 2) = 8 /\ Place(3, 3) = 64 /\ Place(3, 4) = 512
  /\ Place(3, 5) = 4096 /\ Place(3, 6) = 32768 /\ Place(3, 7) = 262144
  /\ Place(3, 8) = 2097152
<1> QED
  BY SMT DEF Place

(* Eight fields of three bits, side by side. *)
IsWord3(w, u) == w = u[1] + 8 * u[2] + 64 * u[3] + 512 * u[4] + 4096 * u[5]
                       + 32768 * u[6] + 262144 * u[7] + 2097152 * u[8]

FieldsOf3(w, u) ==
  /\ w \in Nat /\ w < WordSpace(3)
  /\ (w \div Place(3, 1)) % 8 = u[1] /\ (w \div Place(3, 2)) % 8 = u[2]
  /\ (w \div Place(3, 3)) % 8 = u[3] /\ (w \div Place(3, 4)) % 8 = u[4]
  /\ (w \div Place(3, 5)) % 8 = u[5] /\ (w \div Place(3, 6)) % 8 = u[6]
  /\ (w \div Place(3, 7)) % 8 = u[7] /\ (w \div Place(3, 8)) % 8 = u[8]

LEMMA EightFields ==
  ASSUME NEW a \in 0 .. 7, NEW b \in 0 .. 7, NEW c \in 0 .. 7, NEW d \in 0 .. 7,
         NEW e \in 0 .. 7, NEW f \in 0 .. 7, NEW g \in 0 .. 7, NEW h \in 0 .. 7,
         NEW u, u[1] = a, u[2] = b, u[3] = c, u[4] = d, u[5] = e, u[6] = f, u[7] = g, u[8] = h,
         NEW w, IsWord3(w, u)
  PROVE  FieldsOf3(w, u)
<1>0. w = a + 8 * b + 64 * c + 512 * d + 4096 * e + 32768 * f + 262144 * g + 2097152 * h
  BY SMT DEF IsWord3
<1>1. w \in Nat /\ w < 16777216
  BY <1>0, SMT
<1>2. (w \div Place(3, 1)) % 8 = u[1]
  <2>1. PICK high \in Nat : high = b + 8 * c + 64 * d + 512 * e + 4096 * f + 32768 * g + 262144 * h
    BY SMT
  <2>2. PICK low \in Nat : low < 1 /\ low = 0
    BY SMT
  <2>3. w = low + 1 * a + 8 * high
    BY <1>0, <2>1, <2>2, SMT
  <2>4. w \div 1 = a + 8 * high
    BY ONLY <2>2, <2>3, high \in Nat, a \in 0 .. 7, SMT
  <2>5. (a + 8 * high) % 8 = a
    BY ONLY high \in Nat, a \in 0 .. 7, SMT
  <2> QED
    BY <2>4, <2>5, PlacesOf3, SMT
<1>3. (w \div Place(3, 2)) % 8 = u[2]
  <2>1. PICK high \in Nat : high = c + 8 * d + 64 * e + 512 * f + 4096 * g + 32768 * h
    BY SMT
  <2>2. PICK low \in Nat : low < 8 /\ low = a
    BY SMT
  <2>3. w = low + 8 * b + 64 * high
    BY <1>0, <2>1, <2>2, SMT
  <2>4. w \div 8 = b + 8 * high
    BY ONLY <2>2, <2>3, high \in Nat, b \in 0 .. 7, SMT
  <2>5. (b + 8 * high) % 8 = b
    BY ONLY high \in Nat, b \in 0 .. 7, SMT
  <2> QED
    BY <2>4, <2>5, PlacesOf3, SMT
<1>4. (w \div Place(3, 3)) % 8 = u[3]
  <2>1. PICK high \in Nat : high = d + 8 * e + 64 * f + 512 * g + 4096 * h
    BY SMT
  <2>2. PICK low \in Nat : low < 64 /\ low = a + 8 * b
    BY SMT
  <2>3. w = low + 64 * c + 512 * high
    BY <1>0, <2>1, <2>2, SMT
  <2>4. w \div 64 = c + 8 * high
    BY ONLY <2>2, <2>3, high \in Nat, c \in 0 .. 7, SMT
  <2>5. (c + 8 * high) % 8 = c
    BY ONLY high \in Nat, c \in 0 .. 7, SMT
  <2> QED
    BY <2>4, <2>5, PlacesOf3, SMT
<1>5. (w \div Place(3, 4)) % 8 = u[4]
  <2>1. PICK high \in Nat : high = e + 8 * f + 64 * g + 512 * h
    BY SMT
  <2>2. PICK low \in Nat : low < 512 /\ low = a + 8 * b + 64 * c
    BY SMT
  <2>3. w = low + 512 * d + 4096 * high
    BY <1>0, <2>1, <2>2, SMT
  <2>4. w \div 512 = d + 8 * high
    BY ONLY <2>2, <2>3, high \in Nat, d \in 0 .. 7, SMT
  <2>5. (d + 8 * high) % 8 = d
    BY ONLY high \in Nat, d \in 0 .. 7, SMT
  <2> QED
    BY <2>4, <2>5, PlacesOf3, SMT
<1>6. (w \div Place(3, 5)) % 8 = u[5]
  <2>1. PICK high \in Nat : high = f + 8 * g + 64 * h
    BY SMT
  <2>2. PICK low \in Nat : low < 4096 /\ low = a + 8 * b + 64 * c + 512 * d
    BY SMT
  <2>3. w = low + 4096 * e + 32768 * high
    BY <1>0, <2>1, <2>2, SMT
  <2>4. w \div 4096 = e + 8 * high
    BY ONLY <2>2, <2>3, high \in Nat, e \in 0 .. 7, SMT
  <2>5. (e + 8 * high) % 8 = e
    BY ONLY high \in Nat, e \in 0 .. 7, SMT
  <2> QED
    BY <2>4, <2>5, PlacesOf3, SMT
<1>7. (w \div Place(3, 6)) % 8 = u[6]
  <2>1. PICK high \in Nat : high = g + 8 * h
    BY SMT
  <2>2. PICK low \in Nat : low < 32768 /\ low = a + 8 * b + 64 * c + 512 * d + 4096 * e
    BY SMT
  <2>3. w = low + 32768 * f + 262144 * high
    BY <1>0, <2>1, <2>2, SMT
  <2>4. w \div 32768 = f + 8 * high
    BY ONLY <2>2, <2>3, high \in Nat, f \in 0 .. 7, SMT
  <2>5. (f + 8 * high) % 8 = f
    BY ONLY high \in Nat, f \in 0 .. 7, SMT
  <2> QED
    BY <2>4, <2>5, PlacesOf3, SMT
<1>8. (w \div Place(3, 7)) % 8 = u[7]
  <2>1. PICK high \in Nat : high = h
    BY SMT
  <2>2. PICK low \in Nat : low < 262144 /\ low = a + 8 * b + 64 * c + 512 * d + 4096 * e + 32768 * f
    BY SMT
  <2>3. w = low + 262144 * g + 2097152 * high
    BY <1>0, <2>1, <2>2, SMT
  <2>4. w \div 262144 = g + 8 * high
    BY ONLY <2>2, <2>3, high \in Nat, g \in 0 .. 7, SMT
  <2>5. (g + 8 * high) % 8 = g
    BY ONLY high \in Nat, g \in 0 .. 7, SMT
  <2> QED
    BY <2>4, <2>5, PlacesOf3, SMT
<1>9. (w \div Place(3, 8)) % 8 = u[8]
  <2>1. PICK high \in Nat : high = 0
    BY SMT
  <2>2. PICK low \in Nat :
          /\ low < 2097152
          /\ low = a + 8 * b + 64 * c + 512 * d + 4096 * e + 32768 * f + 262144 * g
    BY SMT
  <2>3. w = low + 2097152 * h + 16777216 * high
    BY <1>0, <2>1, <2>2, SMT
  <2>4. w \div 2097152 = h + 8 * high
    BY ONLY <2>2, <2>3, high \in Nat, h \in 0 .. 7, SMT
  <2>5. (h + 8 * high) % 8 = h
    BY ONLY high \in Nat, h \in 0 .. 7, SMT
  <2> QED
    BY <2>4, <2>5, PlacesOf3, SMT
<1>10. WordSpace(3) = 16777216
  BY SMT DEF WordSpace
<1> QED
  BY <1>1, <1>2, <1>3, <1>4, <1>5, <1>6, <1>7, <1>8, <1>9, <1>10, SMT DEF FieldsOf3

(* The fields of a word are where they were put. *)
LEMMA WordFields ==
  ASSUME NEW bits \in BaseBits, NEW u \in [1 .. CodesPerGroup(bits) -> 0 .. Radix(bits) - 1]
  PROVE  /\ Word(bits, u) \in Nat /\ Word(bits, u) < WordSpace(bits)
         /\ \A i \in 1 .. CodesPerGroup(bits) :
              (Word(bits, u) \div Place(bits, i)) % Radix(bits) = u[i]
<1>1. CASE bits = 2
  <2>1. /\ u[1] \in 0 .. 3 /\ u[2] \in 0 .. 3 /\ u[3] \in 0 .. 3 /\ u[4] \in 0 .. 3
    BY <1>1, BitsFacts
  <2>2. PICK a \in 0 .. 3, b \in 0 .. 3, c \in 0 .. 3, d \in 0 .. 3 :
          a = u[1] /\ b = u[2] /\ c = u[3] /\ d = u[4]
    BY <2>1
  <2>3. Word(bits, u) = a + 4 * b + 16 * c + 64 * d
    BY <1>1, <2>2 DEF Word
  <2>4. PICK w \in 0 .. 255 : w = a + 4 * b + 16 * c + 64 * d
    OBVIOUS
  <2>5. /\ (w \div 1) % 4 = a /\ (w \div 4) % 4 = b
        /\ (w \div 16) % 4 = c /\ (w \div 64) % 4 = d
    BY <2>4
  <2>6. /\ Place(2, 1) = 1 /\ Place(2, 2) = 4 /\ Place(2, 3) = 16 /\ Place(2, 4) = 64
    BY DEF Place
  <2>7. WordSpace(bits) = 256 /\ \A i \in 1 .. 4 : i = 1 \/ i = 2 \/ i = 3 \/ i = 4
    BY <1>1 DEF WordSpace
  <2>8. /\ Radix(bits) = 4 /\ CodesPerGroup(bits) = 4
        /\ \A i \in 1 .. 4 : Place(bits, i) = Place(2, i)
    BY <1>1, BitsFacts
  <2>9. /\ (w \div Place(2, 1)) % 4 = u[1] /\ (w \div Place(2, 2)) % 4 = u[2]
         /\ (w \div Place(2, 3)) % 4 = u[3] /\ (w \div Place(2, 4)) % 4 = u[4]
    BY <2>2, <2>5, <2>6
  <2>10. \A i \in 1 .. 4 : (w \div Place(2, i)) % 4 = u[i]
    BY <2>7, <2>9
  <2> QED
    BY <2>3, <2>4, <2>7, <2>8, <2>10
<1>2. CASE bits = 4
  <2>1. u[1] \in 0 .. 15 /\ u[2] \in 0 .. 15
    <3>1. CodesPerGroup(bits) = 2 /\ Radix(bits) - 1 = 15
      BY <1>2, BitsFacts
    <3>2. u \in [1 .. 2 -> 0 .. 15]
      BY <3>1, Zenon
    <3>3. 1 \in 1 .. 2 /\ 2 \in 1 .. 2
      OBVIOUS
    <3> QED
      BY <3>2, <3>3, Zenon
  <2>2. PICK a \in 0 .. 15, b \in 0 .. 15 : a = u[1] /\ b = u[2]
    BY <2>1
  <2>3. Word(bits, u) = a + 16 * b
    BY <1>2, <2>2 DEF Word
  <2>4. PICK w \in 0 .. 255 : w = a + 16 * b
    OBVIOUS
  <2>5. (w \div 1) % 16 = a /\ (w \div 16) % 16 = b
    BY <2>4
  <2>6. Place(4, 1) = 1 /\ Place(4, 2) = 16
    BY DEF Place
  <2>7. WordSpace(bits) = 256 /\ \A i \in 1 .. 2 : i = 1 \/ i = 2
    BY <1>2 DEF WordSpace
  <2>8. /\ Radix(bits) = 16 /\ CodesPerGroup(bits) = 2
        /\ \A i \in 1 .. 2 : Place(bits, i) = Place(4, i)
    BY <1>2, BitsFacts
  <2>9. (w \div Place(4, 1)) % 16 = u[1] /\ (w \div Place(4, 2)) % 16 = u[2]
    BY <2>2, <2>5, <2>6
  <2>10. \A i \in 1 .. 2 : (w \div Place(4, i)) % 16 = u[i]
    BY <2>7, <2>9
  <2> QED
    BY <2>3, <2>4, <2>7, <2>8, <2>10
<1>3. CASE bits = 3
  <2>1. /\ u[1] \in 0 .. 7 /\ u[2] \in 0 .. 7 /\ u[3] \in 0 .. 7 /\ u[4] \in 0 .. 7
        /\ u[5] \in 0 .. 7 /\ u[6] \in 0 .. 7 /\ u[7] \in 0 .. 7 /\ u[8] \in 0 .. 7
    <3>1. CodesPerGroup(bits) = 8 /\ Radix(bits) - 1 = 7
      BY <1>3, BitsFacts
    <3>2. u \in [1 .. 8 -> 0 .. 7]
      BY <3>1, Zenon
    <3>3. /\ 1 \in 1 .. 8 /\ 2 \in 1 .. 8 /\ 3 \in 1 .. 8 /\ 4 \in 1 .. 8
          /\ 5 \in 1 .. 8 /\ 6 \in 1 .. 8 /\ 7 \in 1 .. 8 /\ 8 \in 1 .. 8
      OBVIOUS
    <3> QED
      BY <3>2, <3>3, Zenon
  <2> DEFINE w == Word(bits, u)
  <2>2. IsWord3(w, u)
    BY <1>3, SMT DEF Word, IsWord3
  <2> HIDE DEF w
  <2>3. FieldsOf3(w, u)
    BY <2>1, <2>2, EightFields
  <2>4. /\ w \in Nat /\ w < WordSpace(3)
        /\ (w \div Place(3, 1)) % 8 = u[1] /\ (w \div Place(3, 2)) % 8 = u[2]
        /\ (w \div Place(3, 3)) % 8 = u[3] /\ (w \div Place(3, 4)) % 8 = u[4]
        /\ (w \div Place(3, 5)) % 8 = u[5] /\ (w \div Place(3, 6)) % 8 = u[6]
        /\ (w \div Place(3, 7)) % 8 = u[7] /\ (w \div Place(3, 8)) % 8 = u[8]
    BY <2>3 DEF FieldsOf3
  <2>5. \A i \in 1 .. 8 : i = 1 \/ i = 2 \/ i = 3 \/ i = 4 \/ i = 5 \/ i = 6 \/ i = 7 \/ i = 8
    OBVIOUS
  <2>6. \A i \in 1 .. 8 : (w \div Place(3, i)) % 8 = u[i]
    BY <2>4, <2>5
  <2>7. CodesPerGroup(bits) = 8 /\ Radix(bits) = 8
    BY <1>3, BitsFacts
  <2>8. /\ w \in Nat /\ w < WordSpace(bits)
        /\ \A i \in 1 .. CodesPerGroup(bits) : (w \div Place(bits, i)) % Radix(bits) = u[i]
    BY <1>3, <2>4, <2>6, <2>7
  <2> QED
    BY <2>8 DEF w
<1> QED
  BY <1>1, <1>2, <1>3, BitsFacts

(* The bytes of a word make up the word. *)
LEMMA WordBytes ==
  ASSUME NEW bits \in BaseBits, NEW w \in Nat, w < WordSpace(bits), NEW bytes,
         bytes = [j \in 1 .. BytesPerGroup(bits) |-> Int8((w \div BytePlace[j]) % 256)]
  PROVE  WordOf(bits, bytes) = w
<1>1. BytePlace[1] = 1 /\ BytePlace[2] = 256 /\ BytePlace[3] = 65536
  BY SMT DEF BytePlace
<1>2. /\ (w \div 1) % 256 \in 0 .. 255 /\ (w \div 256) % 256 \in 0 .. 255
      /\ (w \div 65536) % 256 \in 0 .. 255
  BY SMT
<1>3. CASE bits = 3
  <2>1. bytes[1] = Int8((w \div 1) % 256) /\ bytes[2] = Int8((w \div 256) % 256)
        /\ bytes[3] = Int8((w \div 65536) % 256)
    <3>1. BytesPerGroup(bits) = 3
      BY <1>3, BitsFacts
    <3>2. 1 \in 1 .. 3 /\ 2 \in 1 .. 3 /\ 3 \in 1 .. 3
      BY SMT
    <3> QED
      BY <1>1, <3>1, <3>2, SMT
  <2>2. UInt8(bytes[1]) = (w \div 1) % 256 /\ UInt8(bytes[2]) = (w \div 256) % 256
        /\ UInt8(bytes[3]) = (w \div 65536) % 256
    <3>1. PICK x \in 0 .. 255 : x = (w \div 1) % 256
      BY <1>2, SMT
    <3>2. PICK y \in 0 .. 255 : y = (w \div 256) % 256
      BY <1>2, SMT
    <3>3. PICK z \in 0 .. 255 : z = (w \div 65536) % 256
      BY <1>2, SMT
    <3>4. UInt8(Int8(x)) = x /\ UInt8(Int8(y)) = y /\ UInt8(Int8(z)) = z
      BY ByteKept
    <3> QED
      BY <2>1, <3>1, <3>2, <3>3, <3>4, SMT
  <2>3. w < 16777216
    BY <1>3, SMT DEF WordSpace
  <2>4. w = ((w \div 1) % 256) + 256 * ((w \div 256) % 256) + 65536 * ((w \div 65536) % 256)
    BY ONLY <2>3, w \in Nat, SMT
  <2> QED
    BY <1>3, <2>2, <2>4, SMT DEF WordOf
<1>4. CASE bits # 3
  <2>1. bytes[1] = Int8((w \div 1) % 256)
    <3>1. BytesPerGroup(bits) = 1
      BY <1>4, BitsFacts
    <3> QED
      BY <1>1, <3>1, SMT
  <2>2. UInt8(bytes[1]) = (w \div 1) % 256
    <3>1. PICK x \in 0 .. 255 : x = (w \div 1) % 256
      BY <1>2, SMT
    <3>2. UInt8(Int8(x)) = x
      BY ByteKept
    <3> QED
      BY <2>1, <3>1, <3>2, SMT
  <2>3. w < 256
    BY <1>4 DEF WordSpace
  <2>4. w = (w \div 1) % 256
    BY ONLY <2>3, w \in Nat, SMT
  <2> QED
    BY <1>4, <2>2, <2>4, SMT DEF WordOf
<1> QED
  BY <1>3, <1>4

(* A group of codes is unpacked as it was packed. *)
LEMMA UnpackPackGroup ==
  ASSUME NEW bits \in BaseBits, NEW group \in [1 .. CodesPerGroup(bits) -> Codes(bits)]
  PROVE  UnpackGroup(bits, PackGroup(bits, group)) = group
<1> DEFINE n == CodesPerGroup(bits)
           u == [i \in 1 .. n |-> Field(group[i], bits)]
           w == Word(bits, u)
           bytes == PackGroup(bits, group)
<1>1. u \in [1 .. n -> 0 .. Radix(bits) - 1]
  BY FieldSigned
<1>2. bytes = [j \in 1 .. BytesPerGroup(bits) |-> Int8((w \div BytePlace[j]) % 256)]
  BY DEF PackGroup
<1>3. \A i \in 1 .. n : u[i] = Field(group[i], bits)
  OBVIOUS
<1> HIDE DEF u, bytes
<1>4. /\ w \in Nat /\ w < WordSpace(bits)
      /\ \A i \in 1 .. n : (w \div Place(bits, i)) % Radix(bits) = u[i]
  BY <1>1, WordFields
<1> HIDE DEF w
<1>5. WordOf(bits, bytes) = w
  BY <1>2, <1>4, WordBytes
<1>6. UnpackGroup(bits, bytes) = [i \in 1 .. n |-> Signed(u[i], bits)]
  BY <1>4, <1>5 DEF UnpackGroup
<1>7. \A i \in 1 .. n : Signed(u[i], bits) = group[i]
  BY <1>3, FieldSigned
<1> HIDE DEF n
<1>8. UnpackGroup(bits, bytes) = group
  BY <1>6, <1>7 DEF n
<1> QED
  BY <1>8 DEF bytes

(* Member k of group g, and the group of each element. *)
LEMMA PlaceInGroups ==
  ASSUME NEW n \in Nat \ {0}, NEW g \in Nat, NEW k \in 1 .. n
  PROVE  ((g * n + k) - 1) \div n = g /\ (((g * n + k) - 1) % n) + 1 = k
<1>1. (g * n + k) - 1 = g * n + (k - 1) /\ k - 1 \in 0 .. n - 1
  <2>1. g * n \in Int
    OBVIOUS
  <2> QED
    BY <2>1
<1>2. (g * n + (k - 1)) \div n = g /\ (g * n + (k - 1)) % n = k - 1
  BY <1>1, DivUnique
<1> QED
  BY <1>1, <1>2

LEMMA GroupOfPlace ==
  ASSUME NEW n \in Nat \ {0}, NEW groups \in Nat, NEW i \in 1 .. groups * n
  PROVE  \E g \in 0 .. groups - 1 : \E k \in 1 .. n :
           g = (i - 1) \div n /\ k = ((i - 1) % n) + 1 /\ g * n + k = i
<1>0. i - 1 \in Nat /\ i \in Nat
  OBVIOUS
<1>1. PICK g \in Nat : g = (i - 1) \div n
  BY <1>0, DivBounds
<1>2. PICK r \in 0 .. n - 1 : r = (i - 1) % n
  BY <1>0, DivBounds
<1>3. i - 1 = n * g + r
  BY <1>0, <1>1, <1>2, DivBounds
<1>4. n * g = g * n /\ g * n \in Nat
  OBVIOUS
<1>5. g < groups
  <2> SUFFICES ASSUME g >= groups PROVE FALSE
    OBVIOUS
  <2>1. PICK d \in Nat : g = groups + d
    OBVIOUS
  <2>2. g * n = groups * n + d * n /\ d * n \in Nat /\ groups * n \in Nat
    BY <2>1
  <2> QED
    BY <1>0, <1>2, <1>3, <1>4, <2>2
<1>6. r + 1 \in 1 .. n /\ g * n + (r + 1) = i
  BY <1>0, <1>2, <1>3, <1>4
<1> QED
  BY <1>1, <1>2, <1>5, <1>6

LEMMA PlaceBelow ==
  ASSUME NEW n \in Nat \ {0}, NEW groups \in Nat, NEW g \in 0 .. groups - 1, NEW k \in 1 .. n
  PROVE  g * n + k \in 1 .. groups * n
<1>1. PICK d \in Nat : groups = g + 1 + d
  OBVIOUS
<1>2. groups * n = g * n + n + d * n /\ d * n \in Nat /\ g * n \in Nat
  BY <1>1
<1> QED
  BY <1>2

(* A row of codes is unpacked as it was packed. *)
LEMMA UnpackPackRow ==
  ASSUME NEW bits \in BaseBits, NEW D \in Nat, D % CodesPerGroup(bits) = 0,
         NEW row \in [1 .. D -> Codes(bits)]
  PROVE  unpack_codes_2d(pack_codes_2d(row, D, bits), D, bits) = row
<1> DEFINE n == CodesPerGroup(bits)
           m == BytesPerGroup(bits)
           groups == D \div n
           part(g) == [i \in 1 .. n |-> row[g * n + i]]
           bytes == pack_codes_2d(row, D, bits)
           back(g) == UnpackGroup(bits, [j \in 1 .. m |-> bytes[g * m + j]])
<1>1. n \in Nat \ {0} /\ m \in Nat \ {0}
  BY BitsFacts
<1>2. bytes = [j \in 1 .. groups * m |-> PackGroup(bits, part((j - 1) \div m))[((j - 1) % m) + 1]]
  BY DEF pack_codes_2d, packed_row_bytes
<1>3. unpack_codes_2d(bytes, D, bits)
        = [i \in 1 .. D |-> back((i - 1) \div n)[((i - 1) % n) + 1]]
  BY DEF unpack_codes_2d
<1>4. groups \in Nat /\ D = groups * n
  <2>1. D = n * groups + (D % n) /\ groups \in Nat
    BY <1>1, DivBounds
  <2>2. D % n = 0
    OBVIOUS
  <2> HIDE DEF groups, n
  <2>3. n * groups + 0 = groups * n
    BY <1>1, <2>1
  <2> QED
    BY <2>1, <2>2, <2>3
<1> HIDE DEF bytes, groups
<1>5. ASSUME NEW g \in 0 .. groups - 1
      PROVE  part(g) \in [1 .. n -> Codes(bits)]
  <2>1. \A i \in 1 .. n : g * n + i \in 1 .. D
    <3> HIDE DEF n
    <3> QED
      BY <1>1, <1>4, PlaceBelow
  <2> QED
    BY <2>1
<1>6. ASSUME NEW g \in 0 .. groups - 1
      PROVE  [j \in 1 .. m |-> bytes[g * m + j]] = PackGroup(bits, part(g))
  <2> DEFINE packed == PackGroup(bits, part(g))
  <2>1. packed = [j \in 1 .. m |-> packed[j]]
    BY DEF PackGroup
  <2> HIDE DEF m, part
  <2> SUFFICES ASSUME NEW j \in 1 .. m PROVE bytes[g * m + j] = packed[j]
    BY <2>1
  <2>2. g * m + j \in 1 .. groups * m
    BY <1>1, <1>4, PlaceBelow
  <2>3. ((g * m + j) - 1) \div m = g /\ (((g * m + j) - 1) % m) + 1 = j
    <3>1. g \in Nat /\ j \in 1 .. m
      BY <1>4
    <3> QED
      BY ONLY <1>1, <3>1, PlaceInGroups
  <2> HIDE DEF packed
  <2>4. bytes[g * m + j]
          = PackGroup(bits, part(((g * m + j) - 1) \div m))[(((g * m + j) - 1) % m) + 1]
    BY <1>2, <2>2
  <2> QED
    BY <2>3, <2>4 DEF packed
<1>7. ASSUME NEW i \in 1 .. D
      PROVE  back((i - 1) \div n)[((i - 1) % n) + 1] = row[i]
  <2>1. PICK g \in 0 .. groups - 1 : \E k \in 1 .. n :
          g = (i - 1) \div n /\ k = ((i - 1) % n) + 1 /\ g * n + k = i
    <3> HIDE DEF n
    <3>1. i \in 1 .. groups * n
      BY <1>4
    <3>2. PICK a \in Nat \ {0}, b \in Nat : a = n /\ b = groups
      BY <1>1, <1>4
    <3>3. i \in 1 .. b * a
      BY <3>1, <3>2
    <3>4. \E g \in 0 .. b - 1 : \E k \in 1 .. a :
            g = (i - 1) \div a /\ k = ((i - 1) % a) + 1 /\ g * a + k = i
      BY ONLY a \in Nat \ {0}, b \in Nat, <3>3, GroupOfPlace
    <3> QED
      BY <3>2, <3>4
  <2>2. PICK k \in 1 .. n : g = (i - 1) \div n /\ k = ((i - 1) % n) + 1 /\ g * n + k = i
    BY <2>1
  <2>3. back(g) = part(g)
    <3>1. UnpackGroup(bits, PackGroup(bits, part(g))) = part(g)
      <4>1. part(g) \in [1 .. n -> Codes(bits)]
        BY <1>5
      <4> HIDE DEF part
      <4> QED
        BY <4>1, UnpackPackGroup
    <3> QED
      BY <1>6, <3>1
  <2> HIDE DEF back
  <2>4. part(g)[k] = row[i]
    BY <2>2
  <2> HIDE DEF part, n
  <2> QED
    BY <2>2, <2>3, <2>4
<1>8. unpack_codes_2d(bytes, D, bits) = row
  <2>1. row = [i \in 1 .. D |-> row[i]]
    OBVIOUS
  <2> HIDE DEF back, n
  <2> QED
    BY <1>3, <1>7, <2>1
<1> QED
  BY <1>8 DEF bytes

-------------------------------------------------------------------------------
(* Pages and rows *)

(* The page and the slot of token i. *)
PageOf(i) == (i - 1) \div PageSize
SlotOf(i) == (i - 1) % PageSize

Held == IF next_page = 0 THEN 0 ELSE (next_page - 1) * PageSize + valid_tokens[next_page - 1]

LEMMA Sizes ==
  /\ PageSize \in Nat \ {0} /\ MaxPages \in Nat \ {0} /\ QMax \in Nat \ {0}
  BY BasePageAssumption

LEMMA PlaceOfToken ==
  ASSUME NEW i \in Nat \ {0}
  PROVE  PageOf(i) \in Nat /\ SlotOf(i) \in Slots /\ i = PageOf(i) * PageSize + SlotOf(i) + 1
<1>1. i - 1 \in Nat /\ PageSize \in Nat \ {0}
  BY Sizes
<1>2. /\ PageOf(i) \in Nat /\ SlotOf(i) \in 0 .. PageSize - 1
      /\ i - 1 = PageSize * PageOf(i) + SlotOf(i)
  BY <1>1, DivBounds DEF PageOf, SlotOf
<1>3. PICK p \in Nat, t \in 0 .. PageSize - 1 : p = PageOf(i) /\ t = SlotOf(i)
  BY <1>2
<1>4. i - 1 = PageSize * p + t /\ PageSize * p = p * PageSize /\ p * PageSize \in Nat
  BY <1>1, <1>2, <1>3
<1>5. i = p * PageSize + t + 1
  BY <1>1, <1>3, <1>4
<1> QED
  BY <1>2, <1>3, <1>5 DEF Slots

LEMMA TokenOfPlace ==
  ASSUME NEW p \in Nat, NEW t \in Slots
  PROVE  PageOf(p * PageSize + t + 1) = p /\ SlotOf(p * PageSize + t + 1) = t
<1>1. PageSize \in Nat \ {0} /\ t \in 0 .. PageSize - 1
  BY Sizes DEF Slots
<1>2. (p * PageSize + t + 1) - 1 = p * PageSize + t
  <2>1. p * PageSize \in Int
    BY <1>1
  <2> QED
    BY <1>1, <2>1
<1>3. (p * PageSize + t) \div PageSize = p /\ (p * PageSize + t) % PageSize = t
  BY <1>1, DivUnique
<1>4. /\ PageOf(p * PageSize + t + 1) = (p * PageSize + t) \div PageSize
      /\ SlotOf(p * PageSize + t + 1) = (p * PageSize + t) % PageSize
  BY <1>2 DEF PageOf, SlotOf
<1> QED
  BY <1>3, <1>4

(* A page ends before a later one begins. *)
LEMMA PlaceMonotone ==
  ASSUME NEW p \in Nat, NEW q \in Nat, p < q
  PROVE  p * PageSize + PageSize <= q * PageSize
<1>1. PICK d \in Nat : q = p + 1 + d
  OBVIOUS
<1>2. q * PageSize = p * PageSize + PageSize + d * PageSize /\ d * PageSize \in Nat
      /\ p * PageSize \in Nat
  BY <1>1, Sizes
<1> QED
  BY <1>2, Sizes

-------------------------------------------------------------------------------
(* Scales *)

(* d is at most half of m. *)
Near(d, m) == 2 * d <= m /\ 2 * d >= -m

ScaleStored(stored, s, m) ==
  IF Int8Scales THEN Near(stored * m - Least(s, m) * QMax, m) ELSE stored = s

(* An int8 code under a master reads to within half a step; a scale above  *)
(* the master reads as the master.                                         *)
LEMMA Int8ScaleNear ==
  ASSUME NEW s \in Nat, NEW m \in Nat \ {0}
  PROVE  LET c == Least(Round(s * QMax, m), QMax)
         IN c \in Nat /\ Near(c * m - Least(s, m) * QMax, m)
<1>0. QMax \in Nat \ {0}
  BY Sizes
<1>1. PICK a \in Nat : a = s * QMax
  BY <1>0
<1>2. PICK b \in Nat : b = QMax * m
  BY <1>0
<1>3. PICK r \in Nat : r = Round(a, m)
  BY RoundNear
<1>4. 2 * a - m <= 2 * (m * r) /\ 2 * (m * r) <= 2 * a + m
  BY <1>3, RoundNear
<1>5. CASE s <= m
  <2>1. a <= b
    <3>1. PICK d \in Nat : m = s + d
      BY <1>5
    <3>2. QMax * m = s * QMax + QMax * d /\ QMax * d \in Nat
      BY <1>0, <3>1
    <3> QED
      BY <1>1, <1>2, <3>2
  <2>2. r <= QMax
    BY <1>0, <1>2, <1>3, <2>1, RoundBounds
  <2>3. Least(r, QMax) = r
    BY <1>0, <2>2 DEF Least
  <2>4. Least(s, m) = s
    BY <1>5 DEF Least
  <2>5. PICK k \in Nat : k = r * m /\ k = m * r
    OBVIOUS
  <2>6. Near(k - a, m)
    BY <1>4, <2>5 DEF Near
  <2> QED
    BY <1>1, <1>3, <2>3, <2>4, <2>5, <2>6
<1>6. CASE s > m
  <2>1. b <= a
    <3>1. PICK d \in Nat : s = m + d
      BY <1>6
    <3>2. s * QMax = QMax * m + d * QMax /\ d * QMax \in Nat
      BY <1>0, <3>1
    <3> QED
      BY <1>1, <1>2, <3>2
  <2>2. QMax <= r
    <3>1. Round(b, m) <= r
      BY <1>3, <2>1, RoundMonotone
    <3>2. Round(b, m) = QMax
      <4>1. (QMax * m + 0) \div m = QMax /\ (QMax * m + 0) % m = 0
        BY <1>0, DivUnique
      <4>2. QMax * m + 0 = b
        BY <1>2
      <4> QED
        BY <4>1, <4>2 DEF Round
    <3> QED
      BY <3>1, <3>2
  <2>3. Least(r, QMax) = QMax
    BY <1>0, <2>2 DEF Least
  <2>4. Least(s, m) = m
    BY <1>6 DEF Least
  <2>5. QMax * m - m * QMax = 0
    <3>1. QMax * m = m * QMax /\ QMax * m \in Int
      BY <1>0
    <3> QED
      BY <3>1
  <2>6. Near(0, m)
    BY DEF Near
  <2> QED
    BY <1>0, <1>1, <1>3, <2>3, <2>4, <2>5, <2>6
<1> QED
  BY <1>5, <1>6

LEMMA RowScaleStored ==
  ASSUME NEW s \in Nat, NEW m \in Nat
  PROVE  RowScale(s, m) \in Nat /\ ScaleStored(RowScale(s, m), s, m)
<1>1. CASE ~ Int8Scales
  BY <1>1 DEF RowScale, ScaleStored
<1>2. CASE Int8Scales /\ m = 0
  <2>1. RowScale(s, m) = QMax /\ QMax \in Nat
    BY <1>2, Sizes DEF RowScale
  <2>2. Least(s, m) = 0
    BY <1>2 DEF Least
  <2>3. QMax * 0 - 0 * QMax = 0
    BY <2>1
  <2> QED
    BY <1>2, <2>1, <2>2, <2>3 DEF ScaleStored, Near
<1>3. CASE Int8Scales /\ m # 0
  <2>1. RowScale(s, m) = Least(Round(s * QMax, m), QMax)
    BY <1>3 DEF RowScale
  <2>2. m \in Nat \ {0}
    BY <1>3
  <2> QED
    BY <1>3, <2>1, <2>2, Int8ScaleNear DEF ScaleStored
<1> QED
  BY <1>1, <1>2, <1>3

(* The largest scale of a page. *)
LEMMA MaxScaleBounds ==
  ASSUME NEW rows_, \A t \in Slots : rows_[t].scale \in Nat, DOMAIN rows_ = Slots
  PROVE  MaxScale(rows_) \in Nat /\ \A t \in Slots : rows_[t].scale <= MaxScale(rows_)
<1> DEFINE S == {rows_[t].scale : t \in DOMAIN rows_}
           key == [t \in Slots |-> rows_[t].scale]
<1>1. IsFiniteSet(Slots) /\ Slots # {}
  <2>1. PageSize - 1 \in Int /\ 0 \in Int /\ 0 \in 0 .. PageSize - 1
    BY Sizes
  <2>2. IsFiniteSet(0 .. PageSize - 1)
    BY <2>1, FS_Interval
  <2> QED
    BY <2>1, <2>2 DEF Slots
<1>2. PICK u \in Slots : \A t \in Slots : key[u] >= key[t]
  <2>1. \A t \in Slots : key[t] \in Int
    OBVIOUS
  <2> HIDE DEF key
  <2> QED
    BY <1>1, <2>1, LargestMember
<1>3. \E m \in S : \A s \in S : s <= m
  <2>1. rows_[u].scale \in S
    OBVIOUS
  <2>2. \A s \in S : s <= rows_[u].scale
    BY <1>2
  <2> QED
    BY <2>1, <2>2
<1>4. MaxScale(rows_) \in S /\ \A s \in S : s <= MaxScale(rows_)
  BY <1>3 DEF MaxScale
<1> QED
  BY <1>4

-------------------------------------------------------------------------------
(* The inductive invariant *)

CodeRows   == [1 .. HeadDim -> Codes(cfg.base_bits)]
StoredRows == {StoredCodes(r) : r \in CodeRows}
HatRows    == [codes : CodeRows, scale : Nat]

BaseTyped ==
  /\ cfg \in Settings
  /\ next_page \in 0 .. MaxPages
  /\ valid_tokens \in [Pages -> 0 .. PageSize]
  /\ codes \in [Pages -> [Slots -> StoredRows]]
  /\ scale \in [Pages -> [Slots -> Nat]]
  /\ master \in [Pages -> Nat]
  /\ hat \in [Pages -> [Slots -> HatRows]]
  /\ written \in Seq(DataRows)

(* Every page before the last is full, none after it has a token. *)
PagesInOrder ==
  /\ \A p \in Pages : p + 1 < next_page => valid_tokens[p] = PageSize
  /\ \A p \in Pages : p >= next_page => valid_tokens[p] = 0
  /\ Len(written) = Held

(* What page p and slot t hold of a committed row. *)
RowStored(p, t, row) ==
  IF WritesSide THEN hat[p][t] = row
  ELSE /\ codes[p][t] = StoredCodes(row.codes)
       /\ ScaleStored(scale[p][t], row.scale, master[p])

RowsStored == \A i \in 1 .. Len(written) : RowStored(PageOf(i), SlotOf(i), written[i])

BaseInv == BaseTyped /\ PagesInOrder /\ RowsStored

(* A committed row is one of the rows the side buffer can hold. *)
LEMMA DataRowsFit ==
  ASSUME cfg \in Settings
  PROVE  DataRows \subseteq HatRows /\ ZeroRow \in HatRows
<1>1. cfg.base_bits \in BaseBits
  BY BasePageAssumption DEF SettingShape
<1>2. RowCodes(cfg.base_bits) \subseteq CodeRows /\ Scales \subseteq Nat
  BY <1>1, BasePageAssumption DEF CodeRows
<1>3. 0 \in Codes(cfg.base_bits)
  BY <1>1, BitsFacts DEF Codes
<1>4. ZeroRow \in HatRows
  BY <1>3 DEF ZeroRow, HatRows, CodeRows
<1>5. ASSUME NEW row \in DataRows PROVE row \in HatRows
  BY <1>2 DEF DataRows, HatRows
<1> QED
  BY <1>4, <1>5

LEMMA HeldBound ==
  ASSUME BaseTyped, PagesInOrder
  PROVE  /\ Held \in Nat
         /\ \A i \in 1 .. Held : /\ PageOf(i) \in Pages /\ SlotOf(i) \in Slots
                                 /\ PageOf(i) < next_page
                                 /\ SlotOf(i) < valid_tokens[PageOf(i)]
<1>0. PageSize \in Nat \ {0} /\ MaxPages \in Nat \ {0}
  BY Sizes
<1>1. CASE next_page = 0
  <2>1. Held = 0
    BY <1>1 DEF Held
  <2> QED
    BY <2>1
<1>2. CASE next_page # 0
  <2>1. PICK q \in Nat : q = next_page - 1 /\ q \in Pages
    BY <1>0, <1>2 DEF BaseTyped, Pages
  <2>2. PICK v \in 0 .. PageSize : v = valid_tokens[q]
    BY <2>1 DEF BaseTyped
  <2>3. Held = q * PageSize + v /\ q * PageSize \in Nat
    BY <1>0, <1>2, <2>1, <2>2 DEF Held
  <2>4. Held \in Nat
    BY <1>0, <2>2, <2>3
  <2>5. ASSUME NEW i \in 1 .. Held
        PROVE  /\ PageOf(i) \in Pages /\ SlotOf(i) \in Slots
               /\ PageOf(i) < next_page
               /\ SlotOf(i) < valid_tokens[PageOf(i)]
    <3>1. i \in Nat \ {0} /\ i <= q * PageSize + v
      BY <2>3, <2>4
    <3>2. PICK p \in Nat, t \in Slots : p = PageOf(i) /\ t = SlotOf(i) /\ i = p * PageSize + t + 1
      BY <3>1, PlaceOfToken
    <3>3. t \in 0 .. PageSize - 1 /\ p * PageSize \in Nat
      BY <1>0, <3>2 DEF Slots
    <3>4. p <= q
      <4> SUFFICES ASSUME q < p PROVE FALSE
        BY <2>1, <3>2
      <4>1. q * PageSize + PageSize <= p * PageSize
        BY <2>1, <3>2, PlaceMonotone
      <4> QED
        BY <1>0, <2>2, <2>3, <3>1, <3>2, <3>3, <4>1
    <3>5. p \in Pages /\ p < next_page
      BY <1>0, <2>1, <3>4 DEF Pages, BaseTyped
    <3>6. t < valid_tokens[p]
      <4>1. CASE p = q
        BY <1>0, <2>2, <2>3, <3>1, <3>2, <3>3, <4>1
      <4>2. CASE p # q
        <5>1. p + 1 < next_page
          BY <1>0, <2>1, <3>2, <3>4, <4>2 DEF BaseTyped
        <5>2. valid_tokens[p] = PageSize
          BY <3>5, <5>1 DEF PagesInOrder
        <5> QED
          BY <1>0, <3>3, <5>2
      <4> QED
        BY <4>1, <4>2
    <3> QED
      BY <3>2, <3>5, <3>6
  <2> QED
    BY <2>4, <2>5
<1> QED
  BY <1>1, <1>2

LEMMA BaseInvInit == Init => BaseInv
<1> SUFFICES ASSUME Init PROVE BaseInv
  OBVIOUS
<1>0. PageSize \in Nat \ {0} /\ MaxPages \in Nat \ {0}
  BY Sizes
<1>1. cfg \in Settings /\ next_page = 0 /\ written = <<>>
  BY DEF Init
<1>2. ZeroRow \in HatRows /\ ZeroRow.codes \in CodeRows
  BY <1>1, DataRowsFit DEF HatRows
<1>3. StoredCodes(ZeroRow.codes) \in StoredRows
  BY <1>2 DEF StoredRows
<1>4. BaseTyped
  <2>1. codes \in [Pages -> [Slots -> StoredRows]] /\ hat \in [Pages -> [Slots -> HatRows]]
    BY <1>2, <1>3 DEF Init, EmptyPage
  <2>2. scale \in [Pages -> [Slots -> Nat]] /\ master \in [Pages -> Nat]
    BY DEF Init, EmptyPage
  <2>3. valid_tokens \in [Pages -> 0 .. PageSize] /\ next_page \in 0 .. MaxPages
    BY <1>0 DEF Init
  <2> QED
    BY <1>1, <2>1, <2>2, <2>3 DEF BaseTyped
<1>5. Held = 0 /\ Len(written) = 0
  BY <1>1 DEF Held
<1>6. PagesInOrder
  BY <1>0, <1>1, <1>5 DEF PagesInOrder, Init, Pages
<1>7. RowsStored
  BY <1>5 DEF RowsStored
<1> QED
  BY <1>4, <1>6, <1>7 DEF BaseInv

(* The row of a decode step goes right behind the tokens held. *)
LEMMA TargetPlace ==
  ASSUME BaseTyped, PagesInOrder, TargetPage < MaxPages
  PROVE  /\ TargetPage \in Pages /\ next_page <= TargetPage + 1
         /\ valid_tokens[TargetPage] \in Slots
         /\ Held = TargetPage * PageSize + valid_tokens[TargetPage]
         /\ \A q \in Pages : q < TargetPage => valid_tokens[q] = PageSize
         /\ \A q \in Pages : q > TargetPage => valid_tokens[q] = 0
<1>0. PageSize \in Nat \ {0} /\ MaxPages \in Nat \ {0} /\ next_page \in 0 .. MaxPages
  BY Sizes DEF BaseTyped
<1>1. CASE next_page > 0 /\ valid_tokens[next_page - 1] < PageSize
  <2>1. PICK p \in Pages : p = next_page - 1
    BY <1>0, <1>1 DEF Pages
  <2>2. TargetPage = p /\ p \in Nat /\ next_page = p + 1
    BY <1>0, <1>1, <2>1 DEF TargetPage
  <2>3. valid_tokens[p] \in Slots
    BY <1>0, <1>1, <2>1 DEF BaseTyped, Slots
  <2>4. Held = p * PageSize + valid_tokens[p]
    BY <1>0, <1>1, <2>1 DEF Held
  <2>5. /\ \A q \in Pages : q < p => valid_tokens[q] = PageSize
        /\ \A q \in Pages : q > p => valid_tokens[q] = 0
    BY <1>0, <2>2 DEF PagesInOrder, Pages
  <2> QED
    BY <2>1, <2>2, <2>3, <2>4, <2>5
<1>2. CASE ~ (next_page > 0 /\ valid_tokens[next_page - 1] < PageSize)
  <2>1. PICK p \in Nat : p = next_page /\ p = TargetPage
    BY <1>0, <1>2 DEF TargetPage
  <2>2. p \in Pages
    BY <1>0, <2>1 DEF Pages
  <2>3. valid_tokens[p] = 0 /\ 0 \in Slots
    BY <1>0, <2>1, <2>2 DEF PagesInOrder, Slots
  <2>4. ASSUME NEW q \in Pages, q < p PROVE valid_tokens[q] = PageSize
    <3>1. CASE q + 1 < next_page
      BY <3>1 DEF PagesInOrder
    <3>2. CASE ~ (q + 1 < next_page)
      <4>1. q = next_page - 1
        BY <1>0, <2>1, <2>4, <3>2 DEF Pages
      <4>2. valid_tokens[q] \in 0 .. PageSize
        BY DEF BaseTyped
      <4>3. next_page > 0 /\ ~ (valid_tokens[q] < PageSize)
        <5>1. next_page > 0
          BY <1>0, <2>1, <2>4 DEF Pages
        <5>2. ~ (valid_tokens[next_page - 1] < PageSize)
          BY <1>2, <5>1
        <5> QED
          BY <4>1, <5>1, <5>2, Zenon
      <4> QED
        BY <1>0, <4>2, <4>3
    <3> QED
      BY <3>1, <3>2
  <2>5. Held = p * PageSize + 0
    <3>1. CASE p = 0
      BY <1>0, <2>1, <3>1 DEF Held
    <3>2. CASE p # 0
      <4>1. PICK q \in Pages : q = p - 1
        BY <1>0, <2>1, <2>2, <3>2 DEF Pages
      <4>2. valid_tokens[q] = PageSize
        BY <2>4, <4>1 DEF Pages
      <4>3. Held = q * PageSize + PageSize
        BY <2>1, <3>2, <4>1, <4>2 DEF Held
      <4>4. q \in Nat /\ p = q + 1
        BY <2>1, <4>1 DEF Pages
      <4>5. p * PageSize = q * PageSize + PageSize /\ q * PageSize \in Nat
        BY <1>0, <4>4
      <4> QED
        BY <1>0, <4>3, <4>5
    <3> QED
      BY <3>1, <3>2
  <2>6. \A q \in Pages : q > p => valid_tokens[q] = 0
    BY <1>0, <2>1 DEF PagesInOrder, Pages
  <2> QED
    BY <2>1, <2>2, <2>3, <2>4, <2>5, <2>6
<1> QED
  BY <1>1, <1>2

(* With t more tokens on its page the cache holds t more. *)
LEMMA HeldAfter ==
  ASSUME NEW p \in Pages, next_page' = p + 1
  PROVE  Held' = p * PageSize + valid_tokens'[p]
<1>1. p \in Nat /\ p + 1 # 0 /\ (p + 1) - 1 = p
  BY DEF Pages
<1> QED
  BY <1>1 DEF Held

(* One entry of a table of rows is set. *)
LEMMA EntrySet ==
  ASSUME NEW A, NEW B, NEW C, NEW f \in [A -> [B -> C]], NEW a \in A, NEW b \in B, NEW c \in C,
         NEW g, g = [f EXCEPT ![a][b] = c]
  PROVE  /\ g \in [A -> [B -> C]] /\ g[a][b] = c
         /\ \A x \in A : \A y \in B : ~ (x = a /\ y = b) => g[x][y] = f[x][y]
<1>1. g = [f EXCEPT ![a] = [f[a] EXCEPT ![b] = c]]
  OBVIOUS
<1>2. [f[a] EXCEPT ![b] = c] \in [B -> C]
  OBVIOUS
<1>3. g \in [A -> [B -> C]]
  BY <1>1, <1>2
<1>4. g[a] = [f[a] EXCEPT ![b] = c] /\ \A x \in A : x # a => g[x] = f[x]
  BY <1>1
<1>5. g[a][b] = c /\ \A y \in B : y # b => g[a][y] = f[a][y]
  BY <1>4
<1>6. ASSUME NEW x \in A, NEW y \in B, ~ (x = a /\ y = b) PROVE g[x][y] = f[x][y]
  <2>1. CASE x = a
    BY <1>5, <1>6, <2>1
  <2>2. CASE x # a
    BY <1>4, <2>2
  <2> QED
    BY <2>1, <2>2
<1> QED
  BY <1>3, <1>5, <1>6

LEMMA AppendInv ==
  ASSUME BaseInv, TargetPage < MaxPages, next_page' = TargetPage + 1, cfg' = cfg,
         NEW row \in DataRows, Append1(TargetPage, row), written' = Append(written, row)
  PROVE  BaseInv'
<1>0. PageSize \in Nat \ {0} /\ MaxPages \in Nat \ {0}
  BY Sizes
<1>1. BaseTyped /\ PagesInOrder /\ RowsStored
  BY DEF BaseInv
<1>2. PICK p \in Pages : p = TargetPage
  BY <1>1, TargetPlace
<1>3. PICK t \in Slots : t = valid_tokens[p]
  BY <1>1, <1>2, TargetPlace
<1>4. /\ next_page <= p + 1 /\ Held = p * PageSize + t
      /\ \A q \in Pages : q < p => valid_tokens[q] = PageSize
      /\ \A q \in Pages : q > p => valid_tokens[q] = 0
  BY <1>1, <1>2, <1>3, TargetPlace
<1>5. next_page' = p + 1
  BY <1>2
<1>6. Append1(p, row)
  BY <1>2
<1>7. /\ valid_tokens' = [valid_tokens EXCEPT ![p] = t + 1]
      /\ IF WritesSide
         THEN append_to_page_kivi(p, t, row)
         ELSE /\ codes' = [codes EXCEPT ![p][t] = StoredCodes(row.codes)]
              /\ scale' = [scale EXCEPT ![p][t] = RowScale(row.scale, master[p])]
              /\ master' = [master EXCEPT ![p] = AppendMaster(p, row.scale)]
              /\ UNCHANGED hat
  BY <1>6, <1>3 DEF Append1
<1>8. row \in HatRows /\ row.codes \in CodeRows /\ row.scale \in Nat
  BY <1>1, DataRowsFit DEF BaseTyped, HatRows
<1>9. StoredCodes(row.codes) \in StoredRows
  BY <1>8 DEF StoredRows
<1>10. master' = master
  <2>1. CASE WritesSide
    BY <1>7, <2>1 DEF append_to_page_kivi
  <2>2. CASE ~ WritesSide
    BY <1>1, <1>4, <1>7, <2>2 DEF AppendMaster, BaseTyped
  <2> QED
    BY <2>1, <2>2
<1>11. RowScale(row.scale, master[p]) \in Nat
      /\ ScaleStored(RowScale(row.scale, master[p]), row.scale, master[p])
  BY <1>1, <1>4, <1>8, RowScaleStored DEF BaseTyped
<1>12. /\ DataRows' = DataRows /\ StoredRows' = StoredRows /\ HatRows' = HatRows
       /\ WritesSide' = WritesSide /\ Int8Scales' = Int8Scales
  BY DEF DataRows, StoredRows, HatRows, CodeRows, WritesSide, Int8Scales, StoredCodes
<1>13. /\ codes' \in [Pages -> [Slots -> StoredRows]] /\ scale' \in [Pages -> [Slots -> Nat]]
       /\ hat' \in [Pages -> [Slots -> HatRows]]
       /\ \A x \in Pages : \A y \in Slots : ~ (x = p /\ y = t) =>
            /\ hat'[x][y] = hat[x][y] /\ codes'[x][y] = codes[x][y] /\ scale'[x][y] = scale[x][y]
       /\ IF WritesSide THEN hat'[p][t] = row
          ELSE /\ codes'[p][t] = StoredCodes(row.codes)
               /\ scale'[p][t] = RowScale(row.scale, master[p])
  <2>1. /\ codes \in [Pages -> [Slots -> StoredRows]] /\ scale \in [Pages -> [Slots -> Nat]]
        /\ hat \in [Pages -> [Slots -> HatRows]]
    BY <1>1 DEF BaseTyped
  <2>2. CASE WritesSide
    <3>1. hat' = [hat EXCEPT ![p][t] = row] /\ codes' = codes /\ scale' = scale
      BY <1>7, <2>2 DEF append_to_page_kivi
    <3>2. /\ hat' \in [Pages -> [Slots -> HatRows]] /\ hat'[p][t] = row
          /\ \A x \in Pages : \A y \in Slots : ~ (x = p /\ y = t) => hat'[x][y] = hat[x][y]
      BY <1>8, <2>1, <3>1, EntrySet
    <3> QED
      BY <2>1, <2>2, <3>1, <3>2
  <2>3. CASE ~ WritesSide
    <3>1. /\ codes' = [codes EXCEPT ![p][t] = StoredCodes(row.codes)]
          /\ scale' = [scale EXCEPT ![p][t] = RowScale(row.scale, master[p])]
          /\ hat' = hat
      BY <1>7, <2>3
    <3>2. /\ codes' \in [Pages -> [Slots -> StoredRows]] /\ codes'[p][t] = StoredCodes(row.codes)
          /\ \A x \in Pages : \A y \in Slots : ~ (x = p /\ y = t) => codes'[x][y] = codes[x][y]
      BY <1>9, <2>1, <3>1, EntrySet
    <3>3. /\ scale' \in [Pages -> [Slots -> Nat]]
          /\ scale'[p][t] = RowScale(row.scale, master[p])
          /\ \A x \in Pages : \A y \in Slots : ~ (x = p /\ y = t) => scale'[x][y] = scale[x][y]
      BY <1>11, <2>1, <3>1, EntrySet
    <3> QED
      BY <2>1, <2>3, <3>1, <3>2, <3>3
  <2> QED
    BY <2>2, <2>3
<1>14. BaseTyped'
  <2>1. valid_tokens' \in [Pages -> 0 .. PageSize]
    <3>1. t + 1 \in 0 .. PageSize
      BY <1>0, <1>4 DEF Slots
    <3> QED
      BY <1>1, <1>7, <3>1 DEF BaseTyped
  <2>2. p + 1 \in 0 .. MaxPages
    BY <1>0, <1>4 DEF Pages
  <2>4. written' \in Seq(DataRows)
    BY <1>1 DEF BaseTyped
  <2> QED
    BY <1>1, <1>5, <1>10, <1>13, <1>12, <2>1, <2>2, <2>4 DEF BaseTyped
<1>15. PICK h \in Nat : h = Held
  BY <1>1, HeldBound
<1>16. Len(written) = h /\ written \in Seq(DataRows)
  BY <1>1, <1>15 DEF PagesInOrder, BaseTyped
<1>17. /\ Len(written') = h + 1 /\ written'[h + 1] = row
       /\ \A i \in 1 .. h : written'[i] = written[i]
  BY <1>16
<1>18. PagesInOrder'
  <2>1. valid_tokens'[p] = t + 1
    BY <1>1, <1>4, <1>7 DEF BaseTyped
  <2>2. Held' = h + 1
    <3>1. Held' = p * PageSize + (t + 1)
      BY <1>5, <2>1, HeldAfter
    <3>2. p * PageSize \in Nat /\ t \in Nat
      BY <1>0 DEF Pages, Slots
    <3> QED
      BY <1>4, <1>15, <3>1, <3>2
  <2>3. \A q \in Pages : q # p => valid_tokens'[q] = valid_tokens[q]
    BY <1>1, <1>7 DEF BaseTyped
  <2>4. ASSUME NEW q \in Pages, q + 1 < p + 1 PROVE valid_tokens'[q] = PageSize
    <3>1. q < p /\ q # p
      BY <1>4, <2>4 DEF Pages
    <3> QED
      BY <1>4, <2>3, <3>1
  <2>5. ASSUME NEW q \in Pages, q >= p + 1 PROVE valid_tokens'[q] = 0
    <3>1. q > p /\ q # p
      BY <1>4, <2>5 DEF Pages
    <3> QED
      BY <1>4, <2>3, <3>1
  <2> QED
    BY <1>5, <1>17, <2>2, <2>4, <2>5 DEF PagesInOrder
<1>19. RowsStored'
  <2>1. ASSUME NEW i \in 1 .. h PROVE RowStored(PageOf(i), SlotOf(i), written[i])'
    <3>1. /\ PageOf(i) \in Pages /\ SlotOf(i) \in Slots
          /\ RowStored(PageOf(i), SlotOf(i), written[i])
      BY <1>1, <1>15, <1>16, HeldBound DEF RowsStored
    <3>2. PICK pi \in Pages, ti \in Slots : pi = PageOf(i) /\ ti = SlotOf(i)
      BY <3>1
    <3>3. ~ (pi = p /\ ti = t)
      <4>1. i \in Nat \ {0}
        BY <1>16
      <4>2. i = pi * PageSize + ti + 1
        BY <3>2, <4>1, PlaceOfToken
      <4>3. p * PageSize \in Nat /\ t \in Nat /\ i <= p * PageSize + t
        BY <1>0, <1>4, <1>15 DEF Pages, Slots
      <4> QED
        BY <4>2, <4>3
    <3>4. /\ hat'[pi][ti] = hat[pi][ti] /\ codes'[pi][ti] = codes[pi][ti]
          /\ scale'[pi][ti] = scale[pi][ti]
      BY <1>13, <3>3
    <3>5. PageOf(i)' = pi /\ SlotOf(i)' = ti /\ written'[i] = written[i]
      BY <1>17, <3>2 DEF PageOf, SlotOf
    <3> QED
      BY <1>10, <1>12, <3>1, <3>2, <3>4, <3>5 DEF RowStored, ScaleStored, StoredCodes
  <2>2. RowStored(PageOf(h + 1), SlotOf(h + 1), row)'
    <3>1. PageOf(h + 1) = p /\ SlotOf(h + 1) = t
      <4>1. p \in Nat
        BY <1>4 DEF Pages
      <4> QED
        BY <1>4, <1>15, <4>1, TokenOfPlace
    <3>2. RowStored(p, t, row)'
      <4>1. CASE WritesSide
        <5>1. hat'[p][t] = row
          BY <1>13, <4>1
        <5> QED
          BY <1>12, <4>1, <5>1 DEF RowStored
      <4>2. CASE ~ WritesSide
        <5>1. /\ codes'[p][t] = StoredCodes(row.codes)
              /\ scale'[p][t] = RowScale(row.scale, master[p])
          BY <1>13, <4>2
        <5>2. StoredCodes(row.codes)' = StoredCodes(row.codes)
          BY DEF StoredCodes
        <5>3. ScaleStored(scale'[p][t], row.scale, master'[p])
          BY <1>10, <1>11, <5>1
        <5>4. ScaleStored(scale[p][t], row.scale, master[p])'
          BY <1>12, <5>3 DEF ScaleStored
        <5> QED
          BY <1>12, <4>2, <5>1, <5>2, <5>4 DEF RowStored
      <4> QED
        BY <4>1, <4>2
    <3> QED
      BY <3>1, <3>2
  <2>3. ASSUME NEW i \in 1 .. h + 1 PROVE RowStored(PageOf(i), SlotOf(i), written[i])'
    <3>1. CASE i = h + 1
      BY <1>17, <2>2, <3>1
    <3>2. CASE i # h + 1
      <4>1. i \in 1 .. h
        BY <1>16, <3>2
      <4> QED
        BY <2>1, <4>1
    <3> QED
      BY <3>1, <3>2
  <2> QED
    BY <1>17, <2>3 DEF RowsStored
<1> QED
  BY <1>14, <1>18, <1>19 DEF BaseInv

(* The scales of a page are stored under their largest. *)
LEMMA PageScaleStored ==
  ASSUME NEW r, NEW m \in Nat, NEW t \in Slots, r[t].scale \in Nat, r[t].scale <= m,
         m \in Nat \ {0}
  PROVE  PageScales(r, m)[t] \in Nat /\ ScaleStored(PageScales(r, m)[t], r[t].scale, m)
<1>1. PageScales(r, m)[t] = IF Int8Scales THEN Least(Round(r[t].scale * QMax, m), QMax)
                            ELSE r[t].scale
  BY DEF PageScales
<1>2. PICK s \in Nat : s = r[t].scale
  OBVIOUS
<1>3. CASE Int8Scales
  BY <1>1, <1>2, <1>3, Int8ScaleNear DEF ScaleStored
<1>4. CASE ~ Int8Scales
  BY <1>1, <1>2, <1>4 DEF ScaleStored
<1> QED
  BY <1>3, <1>4

(* The pages of a prompt. *)
LEMMA PromptPages ==
  ASSUME cfg \in Settings, NEW n \in 1 .. MaxPages * PageSize, NEW prompt \in [1 .. n -> DataRows],
         NEW last, last = (n - 1) \div PageSize
  PROVE  /\ last \in Pages
         /\ Least(PageSize, n - last * PageSize) \in 0 .. PageSize
         /\ n = last * PageSize + Least(PageSize, n - last * PageSize)
         /\ \A p \in Pages : p < last => Least(PageSize, n - p * PageSize) = PageSize
         /\ \A p \in Pages : \A t \in Slots : PageRows(prompt, p)[t] \in HatRows
         /\ \A p \in Pages : p <= last => PageRows(prompt, p)[0].scale > 0
         /\ \A i \in 1 .. n : /\ PageOf(i) \in Pages /\ SlotOf(i) \in Slots /\ PageOf(i) <= last
                              /\ PageRows(prompt, PageOf(i))[SlotOf(i)] = prompt[i]
<1>0. /\ PageSize \in Nat \ {0} /\ MaxPages \in Nat \ {0} /\ n \in Nat \ {0}
      /\ MaxPages * PageSize \in Nat
  BY Sizes
<1>1. PICK l \in Nat, r \in Slots : l = last /\ n = l * PageSize + r + 1
  <2>1. last = PageOf(n)
    BY DEF PageOf
  <2> QED
    BY <1>0, <2>1, PlaceOfToken
<1>2. r \in 0 .. PageSize - 1 /\ l * PageSize \in Nat
  BY <1>0, <1>1 DEF Slots
<1>3. l \in Pages
  <2> SUFFICES ASSUME MaxPages <= l PROVE FALSE
    BY <1>0, <1>1 DEF Pages
  <2>1. PICK d \in Nat : l = MaxPages + d
    BY <1>0
  <2>2. l * PageSize = MaxPages * PageSize + d * PageSize /\ d * PageSize \in Nat
    BY <1>0, <2>1
  <2> QED
    BY <1>0, <1>1, <1>2, <2>2
<1>4. n - l * PageSize = r + 1 /\ Least(PageSize, r + 1) = r + 1
  BY <1>0, <1>1, <1>2 DEF Least
<1>5. ASSUME NEW p \in Pages, p < l PROVE Least(PageSize, n - p * PageSize) = PageSize
  <2>1. p \in Nat
    BY DEF Pages
  <2>2. p * PageSize + PageSize <= l * PageSize /\ p * PageSize \in Nat
    BY <1>0, <1>5, <2>1, PlaceMonotone
  <2>3. n - p * PageSize >= PageSize /\ n - p * PageSize \in Int
    BY <1>0, <1>1, <1>2, <2>2
  <2> QED
    BY <1>0, <2>3 DEF Least
<1>6. DataRows \subseteq HatRows /\ ZeroRow \in HatRows
  BY DataRowsFit
<1>7. ASSUME NEW p \in Pages, NEW t \in Slots
      PROVE  /\ PageRows(prompt, p)[t] \in HatRows
             /\ p * PageSize + t < n => PageRows(prompt, p)[t] = prompt[p * PageSize + t + 1]
  <2>1. PageRows(prompt, p)[t] = IF p * PageSize + t < Len(prompt)
                                 THEN prompt[p * PageSize + t + 1] ELSE ZeroRow
    BY DEF PageRows
  <2>2. Len(prompt) = n
    BY <1>0
  <2>3. p * PageSize \in Nat /\ t \in Nat
    BY <1>0 DEF Pages, Slots
  <2>4. p * PageSize + t < n => p * PageSize + t + 1 \in 1 .. n
    BY <1>0, <2>3
  <2> QED
    BY <1>6, <2>1, <2>2, <2>4
<1>8. ASSUME NEW i \in 1 .. n
      PROVE  /\ PageOf(i) \in Pages /\ SlotOf(i) \in Slots /\ PageOf(i) <= l
             /\ PageRows(prompt, PageOf(i))[SlotOf(i)] = prompt[i]
  <2>1. PICK p \in Nat, t \in Slots : p = PageOf(i) /\ t = SlotOf(i) /\ i = p * PageSize + t + 1
    <3>1. i \in Nat \ {0}
      OBVIOUS
    <3> QED
      BY <3>1, PlaceOfToken
  <2>2. t \in 0 .. PageSize - 1 /\ p * PageSize \in Nat
    BY <1>0, <2>1 DEF Slots
  <2>3. p <= l
    <3> SUFFICES ASSUME l < p PROVE FALSE
      BY <2>1
    <3>1. l * PageSize + PageSize <= p * PageSize
      BY <2>1, PlaceMonotone
    <3>2. i <= n /\ i \in Nat
      BY <1>0
    <3>3. PICK a \in Nat, b \in Nat : a = l * PageSize /\ b = p * PageSize
      BY <1>2, <2>2
    <3>4. n = a + r + 1 /\ i = b + t + 1 /\ a + PageSize <= b
      BY <1>1, <2>1, <3>1, <3>3
    <3> QED
      BY <1>0, <1>2, <2>2, <3>2, <3>4
  <2>4. p \in Pages
    BY <1>0, <1>3, <2>1, <2>3 DEF Pages
  <2>5. p * PageSize + t < n
    <3>1. PICK b \in Nat : b = p * PageSize
      BY <2>2
    <3>2. i = b + t + 1 /\ i <= n /\ t \in Nat /\ n \in Nat
      <4>1. i <= n /\ n \in Nat
        BY <1>0
      <4>2. i = p * PageSize + t + 1
        BY <2>1
      <4>3. t \in Nat
        BY <2>2
      <4> QED
        BY ONLY <3>1, <4>1, <4>2, <4>3
    <3>3. b + t < n
      BY ONLY <3>2, b \in Nat
    <3> QED
      BY <3>1, <3>3
  <2> QED
    BY <1>7, <2>1, <2>3, <2>4, <2>5
<1>9. ASSUME NEW p \in Pages, p <= l PROVE PageRows(prompt, p)[0].scale > 0
  <2>1. p * PageSize <= l * PageSize /\ p * PageSize \in Nat
    <3>1. p \in Nat
      BY DEF Pages
    <3>2. CASE p = l
      BY <1>0, <3>2
    <3>3. CASE p < l
      BY <1>0, <3>1, <3>3, PlaceMonotone
    <3> QED
      BY <1>9, <3>1, <3>2, <3>3
  <2>2. 0 \in Slots /\ p * PageSize + 0 < n /\ p * PageSize + 0 + 1 \in 1 .. n
    BY <1>0, <1>1, <1>2, <2>1 DEF Slots
  <2>3. PageRows(prompt, p)[0] \in DataRows
    BY <1>7, <2>2
  <2>4. PICK row \in DataRows : row = PageRows(prompt, p)[0]
    BY <2>3
  <2>5. row.scale \in Scales
    BY DEF DataRows
  <2>6. row.scale \in Nat \ {0}
    BY <2>5, BasePageAssumption
  <2> QED
    BY <2>4, <2>6
<1>10. n = l * PageSize + (r + 1) /\ r + 1 \in 0 .. PageSize
  BY <1>0, <1>1, <1>2
<1> QED
  BY <1>1, <1>3, <1>4, <1>5, <1>7, <1>8, <1>9, <1>10

LEMMA PrefillInv ==
  ASSUME BaseInv, Prefill
  PROVE  BaseInv'
<1>0. PageSize \in Nat \ {0} /\ MaxPages \in Nat \ {0} /\ BaseTyped
  BY Sizes DEF BaseInv
<1>1. PICK n \in 1 .. MaxPages * PageSize : \E prompt \in [1 .. n -> DataRows] :
        LET last  == (n - 1) \div PageSize
            Of(p) == PageRows(prompt, p)
        IN /\ next_page' = last + 1
           /\ valid_tokens' = [p \in Pages |-> IF p > last THEN 0
                                               ELSE Least(PageSize, n - p * PageSize)]
           /\ written' = prompt
           /\ IF WritesSide
              THEN write_base_kivi(prompt)
              ELSE /\ codes' = [p \in Pages |-> [t \in Slots |-> StoredCodes(Of(p)[t].codes)]]
                   /\ master' = [p \in Pages |-> IF Int8Scales /\ p <= last
                                                 THEN MaxScale(Of(p)) ELSE 0]
                   /\ scale' = [p \in Pages |-> IF p <= last
                                                THEN PageScales(Of(p), MaxScale(Of(p)))
                                                ELSE scale[p]]
                   /\ UNCHANGED hat
  BY DEF Prefill
<1>2. PICK prompt \in [1 .. n -> DataRows] :
        LET last  == (n - 1) \div PageSize
            Of(p) == PageRows(prompt, p)
        IN /\ next_page' = last + 1
           /\ valid_tokens' = [p \in Pages |-> IF p > last THEN 0
                                               ELSE Least(PageSize, n - p * PageSize)]
           /\ written' = prompt
           /\ IF WritesSide
              THEN write_base_kivi(prompt)
              ELSE /\ codes' = [p \in Pages |-> [t \in Slots |-> StoredCodes(Of(p)[t].codes)]]
                   /\ master' = [p \in Pages |-> IF Int8Scales /\ p <= last
                                                 THEN MaxScale(Of(p)) ELSE 0]
                   /\ scale' = [p \in Pages |-> IF p <= last
                                                THEN PageScales(Of(p), MaxScale(Of(p)))
                                                ELSE scale[p]]
                   /\ UNCHANGED hat
  BY <1>1
<1>3. PICK last : last = (n - 1) \div PageSize
  OBVIOUS
<1>4. cfg' = cfg
  BY DEF Prefill
<1>5. /\ DataRows' = DataRows /\ StoredRows' = StoredRows /\ HatRows' = HatRows
      /\ WritesSide' = WritesSide /\ Int8Scales' = Int8Scales
  BY <1>4 DEF DataRows, StoredRows, HatRows, CodeRows, WritesSide, Int8Scales, StoredCodes
<1>6. /\ last \in Pages
      /\ Least(PageSize, n - last * PageSize) \in 0 .. PageSize
      /\ n = last * PageSize + Least(PageSize, n - last * PageSize)
      /\ \A p \in Pages : p < last => Least(PageSize, n - p * PageSize) = PageSize
      /\ \A p \in Pages : \A t \in Slots : PageRows(prompt, p)[t] \in HatRows
      /\ \A p \in Pages : p <= last => PageRows(prompt, p)[0].scale > 0
      /\ \A i \in 1 .. n : /\ PageOf(i) \in Pages /\ SlotOf(i) \in Slots /\ PageOf(i) <= last
                           /\ PageRows(prompt, PageOf(i))[SlotOf(i)] = prompt[i]
  <2>1. cfg \in Settings
    BY <1>0 DEF BaseTyped
  <2>2. n \in 1 .. MaxPages * PageSize /\ prompt \in [1 .. n -> DataRows]
    BY <1>1, <1>2
  <2> QED
    BY ONLY <1>3, <2>1, <2>2, PromptPages
<1>7. last \in Nat /\ 0 \in Slots /\ n \in Nat
  BY <1>0, <1>6 DEF Pages, Slots
<1>8. /\ next_page' = last + 1 /\ written' = prompt
      /\ valid_tokens' = [p \in Pages |-> IF p > last THEN 0 ELSE Least(PageSize, n - p * PageSize)]
  BY <1>2, <1>3
<1>9. /\ scale' \in [Pages -> [Slots -> Nat]] /\ master' \in [Pages -> Nat]
      /\ codes' \in [Pages -> [Slots -> StoredRows]] /\ hat' \in [Pages -> [Slots -> HatRows]]
      /\ \A i \in 1 .. n : RowStored(PageOf(i), SlotOf(i), prompt[i])'
  <2>1. CASE WritesSide
    <3>1. /\ hat' = [p \in Pages |-> PageRows(prompt, p)]
          /\ codes' = codes /\ scale' = scale /\ master' = master
      BY <1>2, <2>1 DEF write_base_kivi
    <3>2. hat' \in [Pages -> [Slots -> HatRows]]
      <4>1. \A p \in Pages : PageRows(prompt, p) \in [Slots -> HatRows]
        BY <1>6 DEF PageRows
      <4> QED
        BY <3>1, <4>1
    <3>3. \A i \in 1 .. n : RowStored(PageOf(i), SlotOf(i), prompt[i])'
      <4> SUFFICES ASSUME NEW i \in 1 .. n
                   PROVE  RowStored(PageOf(i), SlotOf(i), prompt[i])'
        OBVIOUS
      <4>1. hat'[PageOf(i)][SlotOf(i)] = prompt[i]
        BY <1>6, <3>1
      <4> QED
        BY <1>5, <2>1, <4>1 DEF RowStored, PageOf, SlotOf
    <3> QED
      BY <1>0, <3>1, <3>2, <3>3 DEF BaseTyped
  <2>2. CASE ~ WritesSide
    <3>1. /\ codes' = [p \in Pages |-> [t \in Slots |-> StoredCodes(PageRows(prompt, p)[t].codes)]]
          /\ master' = [p \in Pages |-> IF Int8Scales /\ p <= last
                                        THEN MaxScale(PageRows(prompt, p)) ELSE 0]
          /\ scale' = [p \in Pages |-> IF p <= last
                         THEN PageScales(PageRows(prompt, p), MaxScale(PageRows(prompt, p)))
                         ELSE scale[p]]
          /\ hat' = hat
      BY <1>2, <1>3, <2>2
    <3>2. ASSUME NEW p \in Pages
          PROVE  /\ \A t \in Slots : PageRows(prompt, p)[t].scale \in Nat
                 /\ DOMAIN PageRows(prompt, p) = Slots
                 /\ MaxScale(PageRows(prompt, p)) \in Nat
                 /\ \A t \in Slots : PageRows(prompt, p)[t].scale <= MaxScale(PageRows(prompt, p))
      <4>1. \A t \in Slots : PageRows(prompt, p)[t].scale \in Nat
        BY <1>6 DEF HatRows
      <4>2. DOMAIN PageRows(prompt, p) = Slots
        BY DEF PageRows
      <4> QED
        BY <4>1, <4>2, MaxScaleBounds
    <3>3. ASSUME NEW p \in Pages, p <= last, NEW t \in Slots
          PROVE  LET r == PageRows(prompt, p) IN
                 /\ PageScales(r, MaxScale(r))[t] \in Nat
                 /\ ScaleStored(PageScales(r, MaxScale(r))[t], r[t].scale, MaxScale(r))
      <4>1. PICK r : r = PageRows(prompt, p)
        OBVIOUS
      <4>2. PICK m \in Nat : m = MaxScale(r)
        BY <3>2, <4>1
      <4>3. r[t].scale \in Nat /\ r[t].scale <= m /\ r[0].scale \in Nat /\ r[0].scale <= m
        BY <1>7, <3>2, <4>1, <4>2
      <4>4. r[0].scale > 0
        BY <1>6, <3>3, <4>1
      <4>5. m \in Nat \ {0}
        BY <4>3, <4>4
      <4> QED
        BY <4>1, <4>2, <4>3, <4>5, PageScaleStored
    <3>4. scale' \in [Pages -> [Slots -> Nat]]
      <4>1. ASSUME NEW p \in Pages, p <= last
            PROVE  PageScales(PageRows(prompt, p), MaxScale(PageRows(prompt, p))) \in [Slots -> Nat]
        <5>1. \A t \in Slots :
                PageScales(PageRows(prompt, p), MaxScale(PageRows(prompt, p)))[t] \in Nat
          BY <3>3, <4>1
        <5>2. PageScales(PageRows(prompt, p), MaxScale(PageRows(prompt, p)))
                = [t \in Slots |->
                     PageScales(PageRows(prompt, p), MaxScale(PageRows(prompt, p)))[t]]
          BY DEF PageScales
        <5> QED
          BY <5>1, <5>2
      <4>2. \A p \in Pages : scale[p] \in [Slots -> Nat]
        BY <1>0 DEF BaseTyped
      <4> QED
        BY <3>1, <4>1, <4>2
    <3>5. master' \in [Pages -> Nat]
      BY <3>1, <3>2
    <3>6. codes' \in [Pages -> [Slots -> StoredRows]]
      <4>1. \A p \in Pages : \A t \in Slots :
              StoredCodes(PageRows(prompt, p)[t].codes) \in StoredRows
        BY <1>6 DEF HatRows, StoredRows
      <4> QED
        BY <3>1, <4>1
    <3>7. ASSUME NEW i \in 1 .. n
          PROVE  RowStored(PageOf(i), SlotOf(i), prompt[i])'
      <4>1. PICK p \in Pages, t \in Slots : p = PageOf(i) /\ t = SlotOf(i)
        BY <1>6
      <4>2. p <= last /\ PageRows(prompt, p)[t] = prompt[i]
        BY <1>6, <4>1
      <4>3. codes'[p][t] = StoredCodes(prompt[i].codes)
        BY <3>1, <4>2
      <4>4. ScaleStored(scale'[p][t], prompt[i].scale, MaxScale(PageRows(prompt, p)))
        BY <3>1, <3>3, <4>2
      <4>5. ScaleStored(scale'[p][t], prompt[i].scale, master'[p])
        <5>1. CASE Int8Scales
          BY <3>1, <4>2, <4>4, <5>1
        <5>2. CASE ~ Int8Scales
          BY <4>4, <5>2 DEF ScaleStored
        <5> QED
          BY <5>1, <5>2
      <4>6. PageOf(i)' = p /\ SlotOf(i)' = t
        BY <4>1 DEF PageOf, SlotOf
      <4> QED
        BY <1>4, <1>5, <2>2, <4>3, <4>5, <4>6 DEF RowStored, ScaleStored, StoredCodes
    <3> QED
      BY <1>0, <3>1, <3>4, <3>5, <3>6, <3>7 DEF BaseTyped
  <2> QED
    BY <2>1, <2>2
<1>10. BaseTyped'
  <2>1. valid_tokens' \in [Pages -> 0 .. PageSize]
    <3>1. ASSUME NEW p \in Pages, ~ (p > last)
          PROVE  Least(PageSize, n - p * PageSize) \in 0 .. PageSize
      <4>1. p = last \/ p < last
        BY <1>7, <3>1 DEF Pages
      <4> QED
        BY <1>0, <1>6, <4>1
    <3>2. 0 \in 0 .. PageSize
      BY <1>0
    <3> QED
      BY <1>8, <3>1, <3>2
  <2>2. last + 1 \in 0 .. MaxPages
    BY <1>0, <1>6 DEF Pages
  <2>3. prompt \in Seq(DataRows)
    BY <1>7
  <2> QED
    BY <1>0, <1>4, <1>5, <1>8, <1>9, <2>1, <2>2, <2>3 DEF BaseTyped
<1>11. PagesInOrder'
  <2>1. Held' = n
    <3>1. ~ (last > last)
      BY <1>7
    <3>2. valid_tokens'[last] = Least(PageSize, n - last * PageSize)
      BY <1>6, <1>8, <3>1
    <3>3. Held' = last * PageSize + valid_tokens'[last]
      BY <1>6, <1>8, HeldAfter
    <3> QED
      BY <1>6, <3>2, <3>3
  <2>2. Len(prompt) = n
    BY <1>7
  <2>3. ASSUME NEW p \in Pages, p + 1 < last + 1 PROVE valid_tokens'[p] = PageSize
    <3>1. p < last /\ ~ (p > last)
      BY <1>7, <2>3 DEF Pages
    <3> QED
      BY <1>6, <1>8, <3>1
  <2>4. ASSUME NEW p \in Pages, p >= last + 1 PROVE valid_tokens'[p] = 0
    <3>1. p > last
      BY <1>7, <2>4 DEF Pages
    <3> QED
      BY <1>8, <3>1
  <2> QED
    BY <1>8, <2>1, <2>2, <2>3, <2>4 DEF PagesInOrder
<1>12. RowsStored'
  <2>1. Len(prompt) = n
    BY <1>7
  <2> QED
    BY <1>8, <1>9, <2>1 DEF RowsStored
<1> QED
  BY <1>10, <1>11, <1>12 DEF BaseInv

LEMMA DecodeStepInv ==
  ASSUME BaseInv, DecodeStep
  PROVE  BaseInv'
<1>0. BaseTyped /\ PagesInOrder /\ RowsStored
  BY DEF BaseInv
<1>1. /\ TargetPage < MaxPages /\ next_page' = TargetPage + 1 /\ cfg' = cfg
      /\ IF cfg.quantizer = "blockgtq_style"
         THEN UNCHANGED <<valid_tokens, codes, scale, master, hat, written>>
         ELSE \E row \in DataRows : Append1(TargetPage, row) /\ written' = Append(written, row)
  BY DEF DecodeStep
<1>2. CASE cfg.quantizer = "blockgtq_style"
  <2>1. /\ valid_tokens' = valid_tokens /\ codes' = codes /\ scale' = scale
        /\ master' = master /\ hat' = hat /\ written' = written
    BY <1>1, <1>2
  <2>2. PICK p \in Pages : p = TargetPage
    BY <1>0, <1>1, TargetPlace
  <2>3. /\ next_page <= p + 1 /\ Held = p * PageSize + valid_tokens[p]
        /\ \A q \in Pages : q < p => valid_tokens[q] = PageSize
        /\ \A q \in Pages : q > p => valid_tokens[q] = 0
    BY <1>0, <1>1, <2>2, TargetPlace
  <2>4. next_page' = p + 1 /\ p \in Nat
    BY <1>1, <2>2 DEF Pages
  <2>5. Held' = Held
    BY <2>1, <2>3, <2>4, HeldAfter
  <2>6. BaseTyped'
    <3>1. p + 1 \in 0 .. MaxPages
      BY Sizes DEF Pages
    <3> QED
      BY <1>0, <1>1, <2>1, <2>4, <3>1
         DEF BaseTyped, StoredRows, HatRows, CodeRows, DataRows, StoredCodes
  <2>7. PagesInOrder'
    <3>1. ASSUME NEW q \in Pages, q + 1 < p + 1 PROVE valid_tokens[q] = PageSize
      BY <2>3, <2>4, <3>1 DEF Pages
    <3>2. ASSUME NEW q \in Pages, q >= p + 1 PROVE valid_tokens[q] = 0
      BY <2>3, <2>4, <3>2 DEF Pages
    <3> QED
      BY <1>0, <2>1, <2>4, <2>5, <3>1, <3>2 DEF PagesInOrder
  <2>8. RowsStored'
    BY <1>0, <1>1, <2>1
       DEF RowsStored, RowStored, ScaleStored, StoredCodes, WritesSide, Int8Scales, PageOf, SlotOf
  <2> QED
    BY <2>6, <2>7, <2>8 DEF BaseInv
<1>3. CASE cfg.quantizer # "blockgtq_style"
  <2>1. PICK row \in DataRows : Append1(TargetPage, row) /\ written' = Append(written, row)
    BY <1>1, <1>3
  <2> QED
    BY <1>1, <2>1, AppendInv
<1> QED
  BY <1>2, <1>3

LEMMA BaseInvStep == BaseInv /\ [Next]_vars => BaseInv'
<1> SUFFICES ASSUME BaseInv, [Next]_vars PROVE BaseInv'
  OBVIOUS
<1>1. CASE Prefill
  BY <1>1, PrefillInv
<1>2. CASE DecodeStep
  BY <1>2, DecodeStepInv
<1>3. CASE UNCHANGED vars
  <2>1. /\ cfg' = cfg /\ next_page' = next_page /\ valid_tokens' = valid_tokens
        /\ codes' = codes /\ scale' = scale /\ master' = master /\ hat' = hat
        /\ written' = written
    BY <1>3 DEF vars
  <2>2. BaseTyped'
    BY <2>1 DEF BaseInv, BaseTyped, StoredRows, HatRows, CodeRows, DataRows, StoredCodes
  <2>3. PagesInOrder'
    BY <2>1 DEF BaseInv, PagesInOrder, Held
  <2>4. RowsStored'
    BY <2>1 DEF BaseInv, RowsStored, RowStored, ScaleStored, StoredCodes, WritesSide, Int8Scales,
                PageOf, SlotOf
  <2> QED
    BY <2>2, <2>3, <2>4 DEF BaseInv
<1> QED
  BY <1>1, <1>2, <1>3 DEF Next

(* The pages in order, the rows on them and their scales: what every state *)
(* of a cache keeps (cache.py).                                            *)
LEMMA BaseCorrect == Spec => []BaseInv
  BY BaseInvInit, BaseInvStep, PTL DEF Spec

-------------------------------------------------------------------------------
(* What is read back *)

(* The row that is read of page p and slot t. *)
ReadRow(p, t) ==
  IF cfg.quantizer \in ReadFromSide
  THEN [codes |-> hat[p][t].codes, scale |-> hat[p][t].scale * QMax]
  ELSE [codes |-> ReadCodes(codes[p][t]), scale |-> ReadScale(scale[p][t], master[p])]

ReadsInPlace ==
  /\ Len(decode_reads) = Held
  /\ \A i \in 1 .. Held : decode_reads[i] = ReadRow(PageOf(i), SlotOf(i))

LEMMA ReadsPlaced == BaseInv => ReadsInPlace
<1> SUFFICES ASSUME BaseInv PROVE ReadsInPlace
  OBVIOUS
<1> DEFINE laid(i) == [t \in 1 .. valid_tokens[i - 1] |-> ReadRow(i - 1, t - 1)]
           seqs == [i \in 1 .. next_page |-> laid(i)]
           S == {ReadRow(p, t) : p \in Pages, t \in Slots}
<1>0. /\ PageSize \in Nat \ {0} /\ MaxPages \in Nat \ {0} /\ BaseTyped /\ PagesInOrder
      /\ next_page \in Nat
  BY Sizes DEF BaseInv, BaseTyped
<1>1. decode_reads = FlattenSeq(seqs)
  <2>1. CASE cfg.quantizer \in ReadFromSide
    BY <2>1 DEF decode_reads, read_base_hat_concat, Concat, ReadRow
  <2>2. CASE cfg.quantizer \notin ReadFromSide
    BY <2>2 DEF decode_reads, read_base_concat, Concat, ReadRow
  <2> QED
    BY <2>1, <2>2
<1>2. Held \in Nat
  BY <1>0, HeldBound
<1>3. CASE next_page = 0
  <2>1. seqs = <<>>
    BY <1>3
  <2> HIDE DEF seqs
  <2>2. Len(seqs) = 0
    BY <2>1
  <2>3. FlattenSeq(seqs) = <<>>
    BY <2>1, <2>2 DEF FlattenSeq
  <2>4. Held = 0
    BY <1>3 DEF Held
  <2> QED
    BY <1>1, <2>3, <2>4 DEF ReadsInPlace
<1>4. CASE next_page # 0
  <2>1. ASSUME NEW i \in 1 .. next_page
        PROVE  /\ i - 1 \in Pages /\ seqs[i] = laid(i) /\ laid(i) \in Seq(S)
               /\ Len(laid(i)) = valid_tokens[i - 1] /\ valid_tokens[i - 1] \in 0 .. PageSize
    <3>1. i - 1 \in Pages
      BY <1>0 DEF Pages, BaseTyped
    <3>2. PICK v \in 0 .. PageSize : v = valid_tokens[i - 1]
      BY <1>0, <3>1 DEF BaseTyped
    <3>3. \A t \in 1 .. v : t - 1 \in Slots
      BY <1>0 DEF Slots
    <3>4. laid(i) \in [1 .. v -> S]
      BY <3>1, <3>2, <3>3
    <3>5. v \in Nat
      BY <1>0
    <3> HIDE DEF laid, S
    <3>6. laid(i) \in Seq(S) /\ Len(laid(i)) = v
      BY <3>4, <3>5
    <3> QED
      BY <3>1, <3>2, <3>6
  <2>2. Len(seqs) = next_page
    BY <1>0
  <2>3. ASSUME NEW i \in 1 .. next_page - 1 PROVE Len(laid(i)) = PageSize
    <3>1. i \in 1 .. next_page /\ (i - 1) + 1 < next_page
      BY <1>0
    <3>2. i - 1 \in Pages /\ Len(laid(i)) = valid_tokens[i - 1]
      <4> HIDE DEF seqs, laid, S
      <4> QED
        BY <2>1, <3>1
    <3>3. valid_tokens[i - 1] = PageSize
      BY <1>0, <3>1, <3>2 DEF PagesInOrder
    <3> QED
      BY <3>2, <3>3
  <2> DEFINE all == FlattenSeq(seqs)
  <2>4. all \in Seq(S) /\ Laid(all, seqs, PageSize, Len(seqs))
    <3> HIDE DEF seqs, laid, S
    <3>1. Len(seqs) \in Nat \ {0}
      BY <1>0, <1>4, <2>2
    <3>2. \A i \in 1 .. Len(seqs) : seqs[i] \in Seq(S)
      BY <2>1, <2>2
    <3>3. \A i \in 1 .. Len(seqs) - 1 : Len(seqs[i]) = PageSize
      <4> SUFFICES ASSUME NEW i \in 1 .. Len(seqs) - 1 PROVE Len(seqs[i]) = PageSize
        OBVIOUS
      <4>1. i \in 1 .. next_page - 1 /\ i \in 1 .. next_page
        BY <1>0, <2>2
      <4> QED
        BY <2>1, <2>3, <4>1
    <3>4. PageSize \in Nat
      BY <1>0
    <3> QED
      BY <3>1, <3>2, <3>3, <3>4, FlattenLaid
  <2> HIDE DEF all, seqs, laid, S
  <2>5. next_page \in 1 .. next_page
    BY <1>0, <1>4
  <2>6. Len(all) = Held
    <3>1. Len(all) = (next_page - 1) * PageSize + Len(seqs[next_page])
      BY <2>2, <2>4 DEF Laid
    <3>2. Len(seqs[next_page]) = valid_tokens[next_page - 1]
      BY <2>1, <2>5
    <3> QED
      BY <1>4, <3>1, <3>2 DEF Held
  <2>7. ASSUME NEW i \in 1 .. Held PROVE all[i] = ReadRow(PageOf(i), SlotOf(i))
    <3>1. PICK p \in Pages, t \in Slots : p = PageOf(i) /\ t = SlotOf(i)
      BY <1>0, HeldBound
    <3>2. p < next_page /\ t < valid_tokens[p]
      BY <1>0, <3>1, HeldBound
    <3>3. p \in Nat /\ t \in Nat
      BY DEF Pages, Slots
    <3>4. i = p * PageSize + t + 1
      <4>1. i \in Nat \ {0}
        BY <1>2
      <4> QED
        BY <3>1, <4>1, PlaceOfToken
    <3>5. p + 1 \in 1 .. next_page /\ (p + 1) - 1 = p /\ (t + 1) - 1 = t
      BY <1>0, <3>2, <3>3
    <3>6. valid_tokens[p] \in Nat /\ seqs[p + 1] = laid(p + 1) /\ Len(laid(p + 1)) = valid_tokens[p]
      BY <1>0, <2>1, <3>5
    <3>7. t + 1 \in 1 .. valid_tokens[p]
      BY <3>2, <3>3, <3>6
    <3>8. InPlace(all, seqs, PageSize, p + 1, t + 1)
      BY <2>2, <2>4, <3>5, <3>6, <3>7 DEF Laid
    <3>9. all[((p + 1) - 1) * PageSize + (t + 1)] = laid(p + 1)[t + 1]
      BY <3>6, <3>8 DEF InPlace
    <3>10. laid(p + 1)[t + 1] = ReadRow(p, t)
      BY <3>5, <3>7 DEF laid
    <3>11. ((p + 1) - 1) * PageSize + (t + 1) = i
      <4>1. PICK a \in Nat : a = p * PageSize
        BY <1>0, <3>3
      <4> QED
        BY <3>3, <3>4, <3>5, <4>1
    <3> QED
      BY <3>1, <3>9, <3>10, <3>11
  <2> QED
    BY <1>1, <2>6, <2>7 DEF ReadsInPlace, all
<1> QED
  BY <1>3, <1>4

LEMMA HeldNat == BaseInv => Held \in Nat
  BY HeldBound DEF BaseInv

LEMMA CodesRead ==
  ASSUME cfg.base_bits \in BaseBits, NEW row \in CodeRows
  PROVE  ReadCodes(StoredCodes(row)) = row
<1>1. HeadDim \in Nat /\ HeadDim % 8 = 0
  BY BasePageAssumption
<1>2. HeadDim % CodesPerGroup(cfg.base_bits) = 0
  <2>1. CodesPerGroup(cfg.base_bits) = 2 \/ CodesPerGroup(cfg.base_bits) = 4
        \/ CodesPerGroup(cfg.base_bits) = 8
    BY BitsFacts
  <2>2. HeadDim % 2 = 0 /\ HeadDim % 4 = 0
    BY <1>1
  <2> QED
    BY <1>1, <2>1, <2>2
<1>3. row \in [1 .. HeadDim -> Codes(cfg.base_bits)]
  BY DEF CodeRows
<1>4. unpack_codes_2d(pack_codes_2d(row, HeadDim, cfg.base_bits), HeadDim, cfg.base_bits) = row
  BY <1>1, <1>2, <1>3, UnpackPackRow
<1> QED
  BY <1>4 DEF ReadCodes, StoredCodes

(* What a decode step attends over is, token by token, what the prefill and *)
(* the decode steps have committed, whether the codes are packed or not and *)
(* however the rows fall on pages (cache.py: read_base_concat,              *)
(* read_base_hat_concat).  The hypothesis is about attention.py's choice of *)
(* buffer: a configuration whose quantizer fills the side buffer must also  *)
(* be read from there, which is not so for randrot_style.                   *)
THEOREM ReadsAreWritten ==
  ASSUME \A s \in Settings : s.quantizer \in SideBuffered => s.quantizer \in ReadFromSide
  PROVE  Spec => []DecodeReadsWritten
<1>1. BaseInv => DecodeReadsWritten
  <2> SUFFICES ASSUME BaseInv PROVE DecodeReadsWritten
    OBVIOUS
  <2>1. BaseTyped /\ PagesInOrder /\ RowsStored /\ cfg \in Settings
    BY DEF BaseInv, BaseTyped
  <2>2. Len(decode_reads) = Len(written) /\ Len(written) = Held
    BY <2>1, ReadsPlaced DEF ReadsInPlace, PagesInOrder
  <2>3. cfg.quantizer \in ReadFromSide <=> WritesSide
    BY <2>1 DEF WritesSide, SideBuffered, ReadFromSide
  <2>4. cfg.base_bits \in BaseBits
    BY <2>1, BasePageAssumption DEF SettingShape
  <2>5. ASSUME NEW i \in 1 .. Len(written)
        PROVE  /\ decode_reads[i].codes = written[i].codes
               /\ (WritesSide \/ ~ Int8Scales) => decode_reads[i].scale = written[i].scale * QMax
    <3>1. decode_reads[i] = ReadRow(PageOf(i), SlotOf(i))
      BY <2>2, ReadsPlaced DEF ReadsInPlace
    <3>2. RowStored(PageOf(i), SlotOf(i), written[i])
      BY <2>1 DEF RowsStored
    <3>3. PICK p, t : p = PageOf(i) /\ t = SlotOf(i)
      OBVIOUS
    <3>4. CASE WritesSide
      <4>1. decode_reads[i] = [codes |-> hat[p][t].codes, scale |-> hat[p][t].scale * QMax]
        BY <2>3, <3>1, <3>3, <3>4 DEF ReadRow
      <4>2. hat[p][t] = written[i]
        BY <3>2, <3>3, <3>4 DEF RowStored
      <4> QED
        BY <4>1, <4>2
    <3>5. CASE ~ WritesSide
      <4>1. decode_reads[i] = [codes |-> ReadCodes(codes[p][t]),
                               scale |-> ReadScale(scale[p][t], master[p])]
        BY <2>3, <3>1, <3>3, <3>5 DEF ReadRow
      <4>2. /\ codes[p][t] = StoredCodes(written[i].codes)
            /\ ScaleStored(scale[p][t], written[i].scale, master[p])
        BY <3>2, <3>3, <3>5 DEF RowStored
      <4>3. written[i].codes \in CodeRows
        <5>1. written[i] \in DataRows
          BY <2>1 DEF BaseTyped
        <5> QED
          BY <2>1, <5>1, DataRowsFit DEF HatRows
      <4>4. ReadCodes(StoredCodes(written[i].codes)) = written[i].codes
        BY <2>4, <4>3, CodesRead
      <4>5. ~ Int8Scales => ReadScale(scale[p][t], master[p]) = written[i].scale * QMax
        BY <4>2 DEF ScaleStored, ReadScale
      <4> QED
        BY <3>5, <4>1, <4>2, <4>4, <4>5
    <3> QED
      BY <3>4, <3>5
  <2> QED
    BY <2>2, <2>5 DEF DecodeReadsWritten
<1> QED
  BY <1>1, BaseCorrect, PTL

(* An int8 scale reads to within half a step of the page's master of what   *)
(* was written, or of the master if that is less; a row appended later than *)
(* the page got its master is the case where it is (cache.py:               *)
(* _write_scale_page, append_to_page, _maybe_dequant_scale).                *)
THEOREM ScalesNear == Spec => []ScaleErrorBounded
<1>1. BaseInv => ScaleErrorBounded
  <2> SUFFICES ASSUME BaseInv, ~ WritesSide, Int8Scales, NEW i \in 1 .. Len(written)
               PROVE  LET m == MasterOf(i)
                          d == decode_reads[i].scale - Least(written[i].scale, m) * QMax
                      IN 2 * d <= m /\ 2 * d >= -m
    BY DEF ScaleErrorBounded
  <2>1. PagesInOrder /\ RowsStored
    BY DEF BaseInv
  <2>2. decode_reads[i] = ReadRow(PageOf(i), SlotOf(i))
    BY <2>1, ReadsPlaced DEF ReadsInPlace, PagesInOrder
  <2>3. PICK p, t : p = PageOf(i) /\ t = SlotOf(i)
    OBVIOUS
  <2>4. cfg.quantizer \notin ReadFromSide
    BY DEF WritesSide, SideBuffered, ReadFromSide
  <2>5. decode_reads[i].scale = scale[p][t] * master[p]
    BY <2>2, <2>3, <2>4 DEF ReadRow, ReadScale
  <2>6. ScaleStored(scale[p][t], written[i].scale, master[p])
    BY <2>1, <2>3 DEF RowsStored, RowStored
  <2>7. MasterOf(i) = master[p]
    BY <2>3 DEF MasterOf, PageOf
  <2> QED
    BY <2>5, <2>6, <2>7 DEF ScaleStored, Near
<1> QED
  BY <1>1, BaseCorrect, PTL

(* Storing a token changes nothing that is read of an earlier one: a decode *)
(* step writes one slot and leaves the master of the page as it is.  It     *)
(* holds for every quantizer (cache.py: append_to_page,                     *)
(* append_to_page_kivi).                                                    *)
THEOREM ReadsStay == Spec => EarlierRowsKept
<1> DEFINE Kept == \A i \in 1 .. Len(decode_reads) : decode_reads'[i] = decode_reads[i]
<1>1. ASSUME BaseInv, BaseInv', ReadsInPlace, ReadsInPlace', [Next]_vars PROVE [Kept]_vars
  <2>1. BaseTyped /\ PagesInOrder
    BY <1>1 DEF BaseInv
  <2>2. CASE UNCHANGED vars
    BY <2>2
  <2>3. CASE Prefill
    <3>1. next_page = 0
      BY <2>3 DEF Prefill
    <3>2. Held = 0
      BY <3>1 DEF Held
    <3>3. Len(decode_reads) = 0
      BY <1>1, <3>2 DEF ReadsInPlace
    <3> QED
      BY <3>3
  <2>4. CASE DecodeStep
    <3>1. TargetPage < MaxPages /\ next_page' = TargetPage + 1 /\ cfg' = cfg
      BY <2>4 DEF DecodeStep
    <3>2. PICK p \in Pages : p = TargetPage
      BY <2>1, <3>1, TargetPlace
    <3>3. PICK t \in Slots : t = valid_tokens[p]
      BY <2>1, <3>1, <3>2, TargetPlace
    <3>4. Held = p * PageSize + t /\ p * PageSize \in Nat /\ t \in Nat
      BY <2>1, <3>1, <3>2, <3>3, TargetPlace, Sizes DEF Pages, Slots
    <3>5. /\ Held' >= Held
          /\ \A x \in Pages : \A y \in Slots : ~ (x = p /\ y = t) =>
               /\ hat'[x][y] = hat[x][y] /\ codes'[x][y] = codes[x][y] /\ scale'[x][y] = scale[x][y]
          /\ master' = master
      <4>1. CASE cfg.quantizer = "blockgtq_style"
        <5>1. /\ valid_tokens' = valid_tokens /\ codes' = codes /\ scale' = scale
              /\ master' = master /\ hat' = hat
          BY <2>4, <4>1 DEF DecodeStep
        <5>2. Held' = p * PageSize + t
          BY <3>1, <3>2, <3>3, <5>1, HeldAfter
        <5> QED
          BY <3>4, <5>1, <5>2
      <4>2. CASE cfg.quantizer # "blockgtq_style"
        <5>1. PICK row \in DataRows : Append1(p, row)
          BY <2>4, <3>2, <4>2 DEF DecodeStep
        <5>2. /\ valid_tokens' = [valid_tokens EXCEPT ![p] = t + 1]
              /\ IF WritesSide
                 THEN hat' = [hat EXCEPT ![p][t] = row] /\ UNCHANGED <<codes, scale, master>>
                 ELSE /\ codes' = [codes EXCEPT ![p][t] = StoredCodes(row.codes)]
                      /\ scale' = [scale EXCEPT ![p][t] = RowScale(row.scale, master[p])]
                      /\ master' = [master EXCEPT ![p] = AppendMaster(p, row.scale)]
                      /\ UNCHANGED hat
          BY <3>3, <5>1 DEF Append1, append_to_page_kivi
        <5>3. Held' >= Held
          <6>1. valid_tokens'[p] = t + 1
            BY <2>1, <5>2 DEF BaseTyped
          <6>2. Held' = p * PageSize + (t + 1)
            BY <3>1, <3>2, <6>1, HeldAfter
          <6> QED
            BY <3>4, <6>2
        <5>4. /\ codes \in [Pages -> [Slots -> StoredRows]] /\ scale \in [Pages -> [Slots -> Nat]]
              /\ hat \in [Pages -> [Slots -> HatRows]] /\ master \in [Pages -> Nat]
          BY <2>1 DEF BaseTyped
        <5>5. row \in HatRows /\ row.codes \in CodeRows /\ row.scale \in Nat
          BY <2>1, DataRowsFit DEF BaseTyped, HatRows
        <5>6. CASE WritesSide
          <6>1. hat' = [hat EXCEPT ![p][t] = row] /\ codes' = codes /\ scale' = scale
                /\ master' = master
            BY <5>2, <5>6
          <6>2. \A x \in Pages : \A y \in Slots : ~ (x = p /\ y = t) => hat'[x][y] = hat[x][y]
            BY <5>4, <5>5, <6>1, EntrySet
          <6> QED
            BY <5>3, <6>1, <6>2
        <5>7. CASE ~ WritesSide
          <6>1. /\ codes' = [codes EXCEPT ![p][t] = StoredCodes(row.codes)]
                /\ scale' = [scale EXCEPT ![p][t] = RowScale(row.scale, master[p])]
                /\ master' = [master EXCEPT ![p] = AppendMaster(p, row.scale)]
                /\ hat' = hat
            BY <5>2, <5>7
          <6>2. StoredCodes(row.codes) \in StoredRows /\ RowScale(row.scale, master[p]) \in Nat
            BY <5>4, <5>5, RowScaleStored DEF StoredRows
          <6>3. \A x \in Pages : \A y \in Slots : ~ (x = p /\ y = t) => codes'[x][y] = codes[x][y]
            BY <5>4, <6>1, <6>2, EntrySet
          <6>4. \A x \in Pages : \A y \in Slots : ~ (x = p /\ y = t) => scale'[x][y] = scale[x][y]
            BY <5>4, <6>1, <6>2, EntrySet
          <6>5. master' = master
            BY <5>4, <6>1 DEF AppendMaster
          <6> QED
            BY <5>3, <6>1, <6>3, <6>4, <6>5
        <5> QED
          BY <5>6, <5>7
      <4> QED
        BY <4>1, <4>2
    <3>6. ASSUME NEW i \in 1 .. Len(decode_reads) PROVE decode_reads'[i] = decode_reads[i]
      <4>1. PICK h \in Nat : h = Held
        BY <2>1, HeldBound
      <4>2. PICK k \in Nat : k = Held'
        <5>1. (Held \in Nat)'
          BY <1>1, HeldNat, PTL
        <5> QED
          BY <5>1
      <4>3. i \in 1 .. h /\ i \in 1 .. k
        BY <1>1, <3>5, <4>1, <4>2 DEF ReadsInPlace
      <4>4. PICK x \in Pages, y \in Slots : x = PageOf(i) /\ y = SlotOf(i)
        BY <2>1, <4>1, <4>3, HeldBound
      <4>5. ~ (x = p /\ y = t)
        <5>1. i \in Nat \ {0} /\ i <= p * PageSize + t
          BY <3>4, <4>1, <4>3
        <5>2. i = x * PageSize + y + 1
          BY <4>4, <5>1, PlaceOfToken
        <5> QED
          BY <3>4, <5>1, <5>2
      <4>6. decode_reads[i] = ReadRow(x, y)
        BY <1>1, <4>1, <4>3, <4>4 DEF ReadsInPlace
      <4>7. decode_reads'[i] = ReadRow(x, y)'
        BY <1>1, <4>2, <4>3, <4>4 DEF ReadsInPlace, PageOf, SlotOf
      <4>8. ReadRow(x, y)' = ReadRow(x, y)
        BY <3>1, <3>5, <4>5 DEF ReadRow, ReadCodes, ReadScale, Int8Scales
      <4> QED
        BY <4>6, <4>7, <4>8
    <3> QED
      BY <3>6
  <2> QED
    BY <1>1, <2>2, <2>3, <2>4 DEF Next
<1>2. BaseInv => ReadsInPlace
  BY ReadsPlaced
<1> QED
  BY <1>1, <1>2, BaseCorrect, PTL DEF Spec, EarlierRowsKept

-------------------------------------------------------------------------------
(* Residual slots: codes and their errors *)

(* The values of a function on a finite set are finitely many. *)
LEMMA ImageFinite ==
  ASSUME NEW S, IsFiniteSet(S), NEW f
  PROVE  IsFiniteSet({f[x] : x \in S})
<1> DEFINE T == {f[x] : x \in S}
           g == [x \in S |-> f[x]]
<1>1. g \in [S -> T] /\ \A y \in T : \E x \in S : g[x] = y
  OBVIOUS
<1>2. g \in Surjection(S, T)
  BY <1>1 DEF Surjection
<1> HIDE DEF g, T
<1>3. IsFiniteSet(T)
  BY <1>2, FS_Surjection
<1> QED
  BY <1>3 DEF T

(* Round is within half of the quotient, below zero as well. *)
LEMMA RoundNearInt ==
  ASSUME NEW n \in Int, NEW d \in Nat \ {0}
  PROVE  /\ Round(n, d) \in Int
         /\ 2 * n - d <= 2 * (d * Round(n, d)) /\ 2 * (d * Round(n, d)) <= 2 * n + d
<1> DEFINE f == n \div d
           r == n % d
<1>1. f \in Int /\ r \in 0 .. d - 1 /\ n = d * f + r
  OBVIOUS
<1>2. Round(n, d) = IF 2 * r < d \/ (2 * r = d /\ f % 2 = 0) THEN f ELSE f + 1
  BY DEF Round
<1> HIDE DEF f, r
<1>3. PICK p \in Int : p = d * f
  BY <1>1
<1>4. CASE 2 * r < d \/ (2 * r = d /\ f % 2 = 0)
  <2>1. Round(n, d) = f /\ 2 * r <= d
    BY <1>1, <1>2, <1>4
  <2> QED
    BY <1>1, <1>3, <2>1
<1>5. CASE ~ (2 * r < d \/ (2 * r = d /\ f % 2 = 0))
  <2>1. Round(n, d) = f + 1 /\ 2 * r >= d
    BY <1>1, <1>2, <1>5
  <2>2. d * (f + 1) = p + d
    BY <1>1, <1>3
  <2> QED
    BY <1>1, <1>3, <2>1, <2>2
<1> QED
  BY <1>4, <1>5

LEMMA AbsBounds ==
  ASSUME NEW x \in Int
  PROVE  Abs(x) \in Nat /\ x <= Abs(x) /\ -x <= Abs(x) /\ Abs(x) \in {x, -x}
  BY DEF Abs

(* The peak of finitely many numbers. *)
LEMMA PeakBounds ==
  ASSUME NEW S, IsFiniteSet(S), S # {}, S \subseteq Int
  PROVE  Peak(S) \in Nat /\ \A x \in S : Abs(x) <= Peak(S)
<1> DEFINE key == [x \in S |-> Abs(x)]
           A == {Abs(x) : x \in S}
<1>1. \A x \in S : Abs(x) \in Nat
  BY AbsBounds
<1>2. PICK u \in S : \A x \in S : key[u] >= key[x]
  <2>1. \A x \in S : key[x] \in Int
    BY <1>1
  <2> HIDE DEF key
  <2> QED
    BY <2>1, LargestMember
<1>3. \E m \in A : \A x \in S : Abs(x) <= m
  <2>1. Abs(u) \in A
    OBVIOUS
  <2>2. \A x \in S : Abs(x) <= Abs(u)
    BY <1>1, <1>2
  <2> QED
    BY <2>1, <2>2
<1>4. Peak(S) \in A /\ \A x \in S : Abs(x) <= Peak(S)
  BY <1>3 DEF Peak
<1> QED
  BY <1>1, <1>4

LEMMA CodeRange ==
  ASSUME NEW x \in Int, NEW peak \in Nat, NEW q \in Nat \ {0}
  PROVE  Code(x, peak, q) \in -q - 1 .. q
<1>1. CASE peak = 0
  BY <1>1 DEF Code
<1>2. CASE peak # 0
  <2>1. x * q \in Int /\ peak \in Nat \ {0}
    BY <1>2
  <2>2. PICK r \in Int : r = Round(x * q, peak)
    BY <2>1, RoundNearInt
  <2>3. Code(x, peak, q) = Most(-q - 1, Least(r, q))
    BY <1>2, <2>2 DEF Code
  <2> QED
    BY <2>3 DEF Most, Least
<1> QED
  BY <1>1, <1>2

(* A code is within half a step of its value, which no clamp changes, as   *)
(* the peak is the largest value there is.                                 *)
LEMMA CodeNear ==
  ASSUME NEW x \in Int, NEW peak \in Nat, Abs(x) <= peak, NEW q \in Nat \ {0}
  PROVE  2 * Abs(x * q - Code(x, peak, q) * peak) <= peak
<1>0. x <= peak /\ -x <= peak
  BY AbsBounds
<1>1. CASE peak = 0
  <2>1. x = 0 /\ Code(x, peak, q) = 0
    BY <1>0, <1>1 DEF Code
  <2>2. x * q - Code(x, peak, q) * peak = 0
    BY <1>1, <2>1
  <2> QED
    BY <1>1, <2>2 DEF Abs
<1>2. CASE peak # 0
  <2>1. peak \in Nat \ {0}
    BY <1>2
  <2>2. PICK a \in Int : a = x * q
    OBVIOUS
  <2>3. PICK r \in Int : r = Round(a, peak)
    BY <2>1, RoundNearInt
  <2>4. 2 * a - peak <= 2 * (peak * r) /\ 2 * (peak * r) <= 2 * a + peak
    BY <2>1, <2>3, RoundNearInt
  <2>5. PICK b \in Nat : b = peak * q
    OBVIOUS
  <2>6. a <= b /\ -a <= b
    <3>1. PICK d \in Nat : peak = x + d
      BY <1>0
    <3>2. peak * q = x * q + d * q /\ d * q \in Nat
      BY <3>1
    <3>3. PICK e \in Nat : peak = -x + e
      BY <1>0
    <3>4. peak * q = -(x * q) + e * q /\ e * q \in Nat
      BY <3>3
    <3> QED
      BY <2>2, <2>5, <3>2, <3>4
  <2>7. r <= q
    <3> SUFFICES ASSUME r > q PROVE FALSE
      OBVIOUS
    <3>1. PICK d \in Nat : r = q + 1 + d
      OBVIOUS
    <3>2. peak * r = peak * q + peak + peak * d /\ peak * d \in Nat
      BY <3>1
    <3> QED
      BY <2>1, <2>4, <2>5, <2>6, <3>2
  <2>8. r >= -q
    <3> SUFFICES ASSUME r < -q PROVE FALSE
      OBVIOUS
    <3>1. PICK d \in Nat : r = -q - 1 - d
      OBVIOUS
    <3>2. peak * r = -(peak * q) - peak - peak * d /\ peak * d \in Nat
      BY <3>1
    <3> QED
      BY <2>1, <2>4, <2>5, <2>6, <3>2
  <2>9. Code(x, peak, q) = r
    <3>1. Code(x, peak, q) = Most(-q - 1, Least(r, q))
      BY <1>2, <2>2, <2>3 DEF Code
    <3> QED
      BY <2>7, <2>8, <3>1 DEF Most, Least
  <2>10. PICK k \in Int : k = peak * r /\ k = r * peak
    OBVIOUS
  <2>11. 2 * Abs(a - k) <= peak
    BY <2>4, <2>10 DEF Abs
  <2> QED
    BY <2>2, <2>9, <2>10, <2>11
<1> QED
  BY <1>1, <1>2

(* Nothing is coded as nothing. *)
LEMMA ZeroCode ==
  ASSUME NEW peak \in Nat, NEW q \in Nat \ {0}
  PROVE  Code(0, peak, q) * peak = 0
<1>1. CASE peak = 0
  BY <1>1 DEF Code
<1>2. CASE peak # 0
  <2>1. 0 * q = 0 /\ peak \in Nat \ {0}
    BY <1>2
  <2>2. (0 * peak + 0) \div peak = 0 /\ (0 * peak + 0) % peak = 0
    BY <2>1, DivUnique
  <2>3. 0 * peak + 0 = 0
    OBVIOUS
  <2>4. Round(0, peak) = 0
    BY <2>1, <2>2, <2>3 DEF Round
  <2>5. Code(0, peak, q) = 0
    BY <1>2, <2>1, <2>4 DEF Code, Most, Least
  <2> QED
    BY <2>5
<1> QED
  BY <1>1, <1>2

-------------------------------------------------------------------------------
(* Residual slots: packing a block *)

LEMMA PeakOfBlock ==
  ASSUME NEW n \in Nat, NEW block \in [1 .. n -> Int]
  PROVE  PeakOf(block) \in Nat /\ \A i \in 1 .. n : Abs(block[i]) <= PeakOf(block)
<1>1. CASE n = 0
  <2>1. block = <<>>
    BY <1>1
  <2> QED
    BY <1>1, <2>1 DEF PeakOf
<1>2. CASE n # 0
  <2> DEFINE S == {block[i] : i \in DOMAIN block}
  <2>1. 1 \in 1 .. n /\ DOMAIN block = 1 .. n
    BY <1>2
  <2>2. block # <<>>
    <3>1. DOMAIN <<>> = {}
      OBVIOUS
    <3> QED
      BY <2>1, <3>1
  <2>3. S # {} /\ S \subseteq Int
    BY <2>1
  <2>4. IsFiniteSet(S)
    <3>1. IsFiniteSet(1 .. n)
      BY FS_Interval
    <3> QED
      BY <2>1, <3>1, ImageFinite
  <2>5. PeakOf(block) = Peak(S)
    BY <2>2 DEF PeakOf
  <2>6. \A i \in 1 .. n : block[i] \in S
    BY <2>1
  <2> HIDE DEF S
  <2> QED
    BY <2>3, <2>4, <2>5, <2>6, PeakBounds
<1> QED
  BY <1>1, <1>2

(* Two codes of four bits come out of their byte as they went in. *)
LEMMA PairKept ==
  ASSUME NEW a \in -8 .. 7, NEW b \in -8 .. 7
  PROVE  /\ UnpackGroup(4, <<PackGroup(4, <<a, b>>)[1]>>)[1] = a
         /\ UnpackGroup(4, <<PackGroup(4, <<a, b>>)[1]>>)[2] = b
<1>1. 4 \in BaseBits /\ CodesPerGroup(4) = 2 /\ BytesPerGroup(4) = 1
  BY BitsFacts DEF BaseBits
<1>2. Codes(4) = -8 .. 7
  BY BitsFacts DEF Codes
<1>3. <<a, b>> \in [1 .. 2 -> -8 .. 7]
  OBVIOUS
<1>4. UnpackGroup(4, PackGroup(4, <<a, b>>)) = <<a, b>>
  BY <1>1, <1>2, <1>3, UnpackPackGroup
<1> DEFINE bytes == PackGroup(4, <<a, b>>)
<1>5. bytes = [j \in 1 .. 1 |-> bytes[j]]
  BY <1>1 DEF PackGroup
<1> HIDE DEF bytes
<1>6. bytes = <<bytes[1]>>
  BY <1>5
<1> QED
  BY <1>4, <1>6 DEF bytes

LEMMA Packed4 ==
  ASSUME NEW n \in Nat, NEW block \in [1 .. n -> Int]
  PROVE  /\ Len(pack_4bit(block)) = (n + 1) \div 2
         /\ \A i \in 1 .. n : unpack_4bit(pack_4bit(block), n)[i] = Code(block[i], PeakOf(block), 7)
<1> DEFINE c == [i \in DOMAIN block |-> Code(block[i], PeakOf(block), 7)]
           p == Pairs(c)
           bytes == pack_4bit(block)
<1>1. c \in [1 .. n -> -8 .. 7]
  <2>1. PeakOf(block) \in Nat /\ DOMAIN block = 1 .. n
    BY PeakOfBlock
  <2>2. \A i \in 1 .. n : Code(block[i], PeakOf(block), 7) \in -7 - 1 .. 7
    <3> SUFFICES ASSUME NEW i \in 1 .. n
                 PROVE  Code(block[i], PeakOf(block), 7) \in -7 - 1 .. 7
      OBVIOUS
    <3>1. PICK x \in Int, peak \in Nat : x = block[i] /\ peak = PeakOf(block)
      BY <2>1
    <3>2. 7 \in Nat \ {0}
      OBVIOUS
    <3>3. Code(x, peak, 7) \in -7 - 1 .. 7
      BY <3>2, CodeRange
    <3> QED
      BY <3>1, <3>3
  <2>3. -7 - 1 = -8
    OBVIOUS
  <2> QED
    BY <2>1, <2>2, <2>3
<1>2. \A i \in 1 .. n : c[i] = Code(block[i], PeakOf(block), 7)
  OBVIOUS
<1>3. bytes = [j \in 1 .. Len(p) \div 2 |-> PackGroup(4, <<p[2 * j - 1], p[2 * j]>>)[1]]
  BY DEF pack_4bit
<1> HIDE DEF c, bytes
<1>4. Len(c) = n /\ c \in Seq(-8 .. 7)
  BY <1>1
<1>5. PICK m \in Nat : /\ m = (n + 1) \div 2 /\ Len(p) = 2 * m
                       /\ p \in [1 .. 2 * m -> -8 .. 7] /\ n <= 2 * m
                       /\ \A i \in 1 .. n : p[i] = c[i]
  <2>1. CASE n % 2 = 0
    <3>1. PICK m \in Nat : n = 2 * m
      BY <2>1
    <3>2. p = c /\ (n + 1) \div 2 = m
      BY <1>4, <2>1, <3>1 DEF Pairs
    <3> QED
      BY <1>1, <1>4, <3>1, <3>2
  <2>2. CASE n % 2 # 0
    <3>1. PICK m \in Nat : n + 1 = 2 * m
      <4>1. n % 2 \in 0 .. 1 /\ n = 2 * (n \div 2) + (n % 2) /\ n \div 2 \in Nat
        BY DivBounds
      <4>2. PICK k \in Nat : k = n \div 2
        BY <4>1
      <4>3. n + 1 = 2 * (k + 1) /\ k + 1 \in Nat
        BY <2>2, <4>1, <4>2
      <4> QED
        BY <4>3
    <3>2. p = Append(c, 0) /\ (n + 1) \div 2 = m
      BY <1>4, <2>2, <3>1 DEF Pairs
    <3>3. 0 \in -8 .. 7
      OBVIOUS
    <3>4. p \in Seq(-8 .. 7) /\ Len(p) = n + 1 /\ \A i \in 1 .. n : p[i] = c[i]
      BY <1>4, <3>2, <3>3
    <3>5. p \in [1 .. 2 * m -> -8 .. 7]
      BY <3>1, <3>4
    <3> QED
      BY <3>1, <3>2, <3>4, <3>5
  <2> QED
    BY <2>1, <2>2
<1> HIDE DEF p
<1>6. Len(bytes) = m
  <2>1. Len(p) \div 2 = m
    BY <1>5
  <2>2. bytes = [j \in 1 .. m |-> PackGroup(4, <<p[2 * j - 1], p[2 * j]>>)[1]]
    BY <1>3, <2>1
  <2> QED
    BY <2>2
<1>7. ASSUME NEW i \in 1 .. n
      PROVE  unpack_4bit(bytes, n)[i] = c[i]
  <2>1. PICK j \in 1 .. m : j = (i + 1) \div 2 /\ (i = 2 * j - 1 \/ i = 2 * j)
    BY <1>5
  <2>2. bytes[j] = PackGroup(4, <<p[2 * j - 1], p[2 * j]>>)[1]
    <3>1. Len(p) \div 2 = m
      BY <1>5
    <3> QED
      BY <1>3, <3>1
  <2>3. 2 * j - 1 \in 1 .. 2 * m /\ 2 * j \in 1 .. 2 * m
    OBVIOUS
  <2>4. p[2 * j - 1] \in -8 .. 7 /\ p[2 * j] \in -8 .. 7
    BY <1>5, <2>3
  <2>5. /\ UnpackGroup(4, <<bytes[j]>>)[1] = p[2 * j - 1]
        /\ UnpackGroup(4, <<bytes[j]>>)[2] = p[2 * j]
    <3>1. PICK x \in -8 .. 7, y \in -8 .. 7 : x = p[2 * j - 1] /\ y = p[2 * j]
      BY <2>4
    <3>2. bytes[j] = PackGroup(4, <<x, y>>)[1]
      BY <2>2, <3>1
    <3>3. /\ UnpackGroup(4, <<PackGroup(4, <<x, y>>)[1]>>)[1] = x
          /\ UnpackGroup(4, <<PackGroup(4, <<x, y>>)[1]>>)[2] = y
      BY PairKept
    <3> QED
      BY <3>1, <3>2, <3>3
  <2>6. unpack_4bit(bytes, n)[i] = UnpackGroup(4, <<bytes[j]>>)[2 - (i % 2)]
    BY <2>1 DEF unpack_4bit
  <2>7. CASE i = 2 * j - 1
    <3>1. 2 - (i % 2) = 1
      BY <2>7
    <3> QED
      BY <1>5, <2>5, <2>6, <2>7, <3>1
  <2>8. CASE i = 2 * j
    <3>1. 2 - (i % 2) = 2
      BY <2>8
    <3> QED
      BY <1>5, <2>5, <2>6, <2>8, <3>1
  <2> QED
    BY <2>1, <2>7, <2>8
<1> QED
  BY <1>2, <1>5, <1>6, <1>7 DEF bytes

(* What is read of a packed block, and the bytes it takes. *)
LEMMA BlockPacked ==
  ASSUME shape.residual_bits \in {4, 8}, NEW n \in Nat, NEW block \in [1 .. n -> Int]
  PROVE  /\ pack_residual(block).peak = PeakOf(block)
         /\ Len(pack_residual(block).bytes)
              = IF shape.residual_bits = 8 THEN n ELSE (n + 1) \div 2
         /\ \A i \in 1 .. n :
              unpack_residual(pack_residual(block), n)[i]
                = Code(block[i], PeakOf(block), rmax) * PeakOf(block)
<1>1. pack_residual(block).peak = PeakOf(block)
  BY DEF pack_residual
<1>2. CASE shape.residual_bits = 8
  <2>1. pack_residual(block).bytes = pack_8bit(block) /\ rmax = 127
    BY <1>2 DEF pack_residual, rmax
  <2>2. pack_8bit(block) = [i \in 1 .. n |-> Code(block[i], PeakOf(block), 127)]
    BY DEF pack_8bit
  <2>3. Len(pack_8bit(block)) = n
    BY <2>2
  <2>4. ASSUME NEW i \in 1 .. n
        PROVE  unpack_residual(pack_residual(block), n)[i]
                 = Code(block[i], PeakOf(block), rmax) * PeakOf(block)
    BY <1>1, <1>2, <2>1, <2>2 DEF unpack_residual
  <2> QED
    BY <1>1, <1>2, <2>1, <2>3, <2>4
<1>3. CASE shape.residual_bits = 4
  <2>1. pack_residual(block).bytes = pack_4bit(block) /\ rmax = 7
    BY <1>3 DEF pack_residual, rmax
  <2>2. ASSUME NEW i \in 1 .. n
        PROVE  unpack_residual(pack_residual(block), n)[i]
                 = Code(block[i], PeakOf(block), rmax) * PeakOf(block)
    BY <1>1, <1>3, <2>1, Packed4 DEF unpack_residual
  <2> QED
    BY <1>1, <1>3, <2>1, <2>2, Packed4
<1> QED
  BY <1>2, <1>3

(* A block of which an element is read: to within half a step of the       *)
(* block's scale, and zero when there was nothing.                         *)
LEMMA ElementRead ==
  ASSUME shape.residual_bits \in {4, 8}, NEW n \in Nat, NEW block \in [1 .. n -> Int],
         NEW slot, slot = pack_residual(block), NEW i \in 1 .. n
  PROVE  /\ block[i] = 0 => unpack_residual(slot, n)[i] = 0
         /\ 2 * Abs(block[i] * rmax - unpack_residual(slot, n)[i]) <= slot.peak
<1>1. PICK peak \in Nat : peak = PeakOf(block) /\ Abs(block[i]) <= peak
  BY PeakOfBlock
<1>2. rmax \in Nat \ {0}
  BY DEF rmax
<1>3. PICK x \in Int : x = block[i]
  OBVIOUS
<1>4. unpack_residual(slot, n)[i] = Code(x, peak, rmax) * peak /\ slot.peak = peak
  BY <1>1, <1>3, BlockPacked
<1>5. 2 * Abs(x * rmax - Code(x, peak, rmax) * peak) <= peak
  BY <1>1, <1>2, <1>3, CodeNear
<1>6. x = 0 => Code(x, peak, rmax) * peak = 0
  BY <1>2, ZeroCode
<1> QED
  BY <1>3, <1>4, <1>5, <1>6

-------------------------------------------------------------------------------
(* Residual slots: the page *)

PageTyped ==
  /\ shape \in Shapes
  /\ num_valid \in 0 .. shape.page_size
  /\ rows \in [Rows -> [Channels -> Int]]
  /\ phase \in {"empty", "stored", "raised"}

PageInv == PageTyped /\ RowsRestored

LEMMA ShapeFacts ==
  ASSUME PageTyped
  PROVE  /\ shape.page_size \in Nat \ {0} /\ shape.D \in Nat \ {0}
         /\ shape.group_size \in Nat \ {0} /\ shape.base_bits \in BaseBits
         /\ shape.k_channel_group \in Nat \ {0} /\ shape.v_token_block \in Nat \ {0}
         /\ shape.residual_bits \in {4, 8}
         /\ num_cg \in Nat /\ shape.D = num_cg * shape.k_channel_group
         /\ num_vb \in Nat /\ k_numel \in Nat /\ v_numel \in Nat
         /\ num_valid \in Nat /\ num_valid <= shape.page_size
<1>1. shape \in ShapeOf /\ shape.D % shape.k_channel_group = 0
  BY SlotsAssumption DEF PageTyped
<1>2. /\ shape.page_size \in Nat \ {0} /\ shape.D \in Nat \ {0}
      /\ shape.group_size \in Nat \ {0} /\ shape.base_bits \in BaseBits
      /\ shape.k_channel_group \in Nat \ {0} /\ shape.v_token_block \in Nat \ {0}
      /\ shape.residual_bits \in {4, 8}
  BY <1>1 DEF ShapeOf
<1>3. num_cg \in Nat /\ shape.D = num_cg * shape.k_channel_group
  <2>1. PICK d \in Nat, g \in Nat \ {0} : d = shape.D /\ g = shape.k_channel_group
    BY <1>2
  <2>2. d % g = 0
    BY <1>1, <2>1
  <2>3. PICK q \in Nat : q = d \div g /\ d = g * q + (d % g)
    BY DivBounds
  <2>4. d = q * g
    BY <2>2, <2>3
  <2> QED
    BY <2>1, <2>3, <2>4 DEF num_cg
<1>4. num_vb \in Nat
  <2>1. PICK p \in Nat, v \in Nat \ {0} : p = shape.page_size /\ v = shape.v_token_block
    BY <1>2
  <2>2. p + v - 1 \in Nat
    OBVIOUS
  <2>3. (p + v - 1) \div v \in Nat
    BY <2>2, DivBounds
  <2> QED
    BY <2>1, <2>3 DEF num_vb
<1>5. k_numel \in Nat /\ v_numel \in Nat
  <2>1. \A a, b \in Nat : a * b \in Nat
    OBVIOUS
  <2> QED
    BY <1>2, <2>1 DEF k_numel, v_numel
<1>6. num_valid \in Nat /\ num_valid <= shape.page_size
  BY <1>2 DEF PageTyped
<1> QED
  BY <1>2, <1>3, <1>4, <1>5, <1>6

LEMMA ResidualInt ==
  ASSUME PageTyped, NEW t, NEW c \in Channels
  PROVE  Residual(t, c) \in Int
<1>1. CASE ~ (t \in Rows /\ t < num_valid)
  BY <1>1 DEF Residual
<1>2. CASE t \in Rows /\ t < num_valid
  <2> DEFINE f == rows[t]
             G == {d \in Channels : d \div shape.group_size = c \div shape.group_size}
             S == {f[d] : d \in G}
  <2>1. f \in [Channels -> Int]
    BY <1>2 DEF PageTyped
  <2>2. IsFiniteSet(G)
    <3>1. IsFiniteSet(Channels)
      <4>1. 0 \in Int /\ shape.D - 1 \in Int
        BY ShapeFacts
      <4> QED
        BY <4>1, FS_Interval DEF Channels
    <3> QED
      BY <3>1, FS_Subset
  <2>3. c \in G /\ G \subseteq Channels
    OBVIOUS
  <2>4. GroupPeak(t, c) = Peak(S)
    BY DEF GroupPeak
  <2> HIDE DEF f, G
  <2>5. S # {} /\ S \subseteq Int
    BY <2>1, <2>3
  <2>6. IsFiniteSet(S)
    BY <2>2, ImageFinite
  <2>7. GroupPeak(t, c) \in Nat
    <3> HIDE DEF S
    <3> QED
      BY <2>4, <2>5, <2>6, PeakBounds
  <2>8. PICK x \in Int, peak \in Nat : x = rows[t][c] /\ peak = GroupPeak(t, c)
    BY <1>2, <2>7 DEF PageTyped
  <2>9. PICK q \in Nat \ {0} : q = qmax
    <3>1. Radix(shape.base_bits) \div 2 - 1 \in Nat \ {0}
      BY ShapeFacts DEF BaseBits, Radix
    <3> QED
      BY <3>1 DEF qmax
  <2>10. PICK k \in Int : k = Code(x, peak, q)
    BY CodeRange
  <2>11. Residual(t, c) = x * q - k * peak
    BY <1>2, <2>8, <2>9, <2>10 DEF Residual, dequantize
  <2> QED
    BY <2>11
<1> QED
  BY <1>1, <1>2

(* The payloads of the page fit their slots. *)
LEMMA PayloadFits ==
  ASSUME NEW n \in Nat, NEW b \in {4, 8}, b = 8 \/ n % 2 = 0
  PROVE  (n * b) \div 8 = IF b = 8 THEN n ELSE (n + 1) \div 2
<1>1. CASE b = 8
  BY <1>1
<1>2. CASE b = 4 /\ n % 2 = 0
  <2>1. PICK m \in Nat : n = 2 * m
    BY <1>2
  <2>2. n * b = 8 * m /\ n + 1 = 2 * m + 1
    BY <1>2, <2>1
  <2>3. (n + 1) \div 2 = m /\ (8 * m) \div 8 = m
    BY <2>2
  <2> QED
    BY <1>2, <2>2, <2>3
<1> QED
  BY <1>1, <1>2

KBlock(cg) == [i \in 1 .. k_numel |-> Residual(KRow(i), KChannel(cg, i))]
VBlock(vb) == [i \in 1 .. v_numel |-> Residual(VRow(vb, i), VChannel(i))]

(* Every channel of every row has its element of a K block ... *)
LEMMA KPlace ==
  ASSUME PageTyped, NEW t \in Rows, NEW c \in Channels
  PROVE  LET cg == c \div shape.k_channel_group
             i  == t * shape.k_channel_group + (c % shape.k_channel_group) + 1
         IN /\ cg \in 0 .. num_cg - 1 /\ i \in 1 .. k_numel
            /\ KRow(i) = t /\ KChannel(cg, i) = c
<1>1. PICK n \in Nat \ {0}, T \in Nat, N \in Nat :
        /\ n = shape.k_channel_group /\ T = shape.page_size /\ N = num_cg
        /\ shape.D = N * n
  BY ShapeFacts
<1>2. t \in 0 .. T - 1 /\ c \in 0 .. N * n - 1
  BY <1>1 DEF Rows, Channels
<1>3. PICK cg \in 0 .. N - 1, k \in 1 .. n : cg = c \div n /\ k = (c % n) + 1 /\ cg * n + k = c + 1
  <2>1. PICK j \in 1 .. N * n : j = c + 1 /\ j - 1 = c
    <3>1. N * n \in Nat
      OBVIOUS
    <3> QED
      BY <1>2, <3>1
  <2>2. \E cg \in 0 .. N - 1 : \E k \in 1 .. n :
          cg = (j - 1) \div n /\ k = ((j - 1) % n) + 1 /\ cg * n + k = j
    BY GroupOfPlace
  <2> QED
    BY <2>1, <2>2
<1>4. PICK r \in 0 .. n - 1 : r = c % n /\ k = r + 1
  BY <1>2, <1>3
<1>5. PICK i \in 1 .. T * n : i = t * n + r + 1 /\ i = t * n + k
  <2>1. t * n + k \in 1 .. T * n
    BY <1>2, PlaceBelow
  <2>2. t * n \in Int
    BY <1>2
  <2> QED
    BY <1>4, <2>1, <2>2
<1>6. (i - 1) \div n = t /\ ((i - 1) % n) + 1 = k
  BY <1>2, <1>5, PlaceInGroups
<1>7. KRow(i) = t /\ KChannel(cg, i) = c
  <2>1. (i - 1) % n = r
    <3>1. (i - 1) % n \in Int
      BY <1>5
    <3> QED
      BY <1>4, <1>6, <3>1
  <2>2. cg * n + r = c
    <3>1. cg * n \in Int
      BY <1>3
    <3> QED
      BY <1>2, <1>3, <1>4, <3>1
  <2> QED
    BY <1>1, <1>6, <2>1, <2>2 DEF KRow, KChannel
<1>8. k_numel = T * n
  BY <1>1 DEF k_numel
<1> QED
  BY <1>1, <1>3, <1>4, <1>5, <1>7, <1>8

(* ... and of a V block. *)
LEMMA VPlace ==
  ASSUME PageTyped, NEW t \in Rows, NEW c \in Channels
  PROVE  LET vb == t \div shape.v_token_block
             i  == (t % shape.v_token_block) * shape.D + c + 1
         IN /\ vb \in 0 .. num_vb - 1 /\ i \in 1 .. v_numel
            /\ VRow(vb, i) = t /\ VChannel(i) = c
<1>1. PICK n \in Nat \ {0}, v \in Nat \ {0}, T \in Nat \ {0} :
        n = shape.D /\ v = shape.v_token_block /\ T = shape.page_size
  BY ShapeFacts
<1>2. t \in 0 .. T - 1 /\ c \in 0 .. n - 1
  BY <1>1 DEF Rows, Channels
<1>3. PICK vb \in Nat, s \in 0 .. v - 1 : vb = t \div v /\ s = t % v /\ t = v * vb + s
  <2>1. t \in Nat /\ v \in Nat \ {0}
    BY <1>2
  <2>2. t \div v \in Nat /\ t % v \in 0 .. v - 1 /\ t = v * (t \div v) + (t % v)
    BY ONLY <2>1, DivBounds
  <2> QED
    BY <2>2
<1>4. vb \in 0 .. num_vb - 1
  <2>1. PICK q \in Nat, r \in 0 .. v - 1 :
          q = (T + v - 1) \div v /\ T + v - 1 = v * q + r
    <3>1. T + v - 1 \in Nat
      OBVIOUS
    <3> QED
      BY <3>1, DivBounds
  <2>2. vb < q
    <3> SUFFICES ASSUME vb >= q PROVE FALSE
      OBVIOUS
    <3>1. PICK d \in Nat : vb = q + d
      OBVIOUS
    <3>2. v * vb = v * q + v * d /\ v * d \in Nat /\ v * q \in Nat
      BY <3>1
    <3> QED
      BY <1>2, <1>3, <2>1, <3>2
  <2>3. num_vb = q
    BY <1>1, <2>1 DEF num_vb
  <2> QED
    BY <2>2, <2>3
<1>5. PICK i \in 1 .. v * n : i = s * n + c + 1 /\ i = s * n + (c + 1)
  <2>1. s * n + (c + 1) \in 1 .. v * n
    <3>1. c + 1 \in 1 .. n
      BY <1>2
    <3> QED
      BY <3>1, PlaceBelow
  <2>2. s * n \in Int
    OBVIOUS
  <2> QED
    BY <1>2, <2>1, <2>2
<1>6. (i - 1) \div n = s /\ (i - 1) % n = c
  <2>1. i - 1 = s * n + c
    <3>1. s * n \in Int
      OBVIOUS
    <3> QED
      BY <1>2, <1>5, <3>1
  <2>2. (s * n + c) \div n = s /\ (s * n + c) % n = c
    BY <1>2, DivUnique
  <2> QED
    BY <2>1, <2>2
<1>7. VRow(vb, i) = t /\ VChannel(i) = c
  <2>1. vb * v + s = t
    <3>1. vb * v = v * vb
      OBVIOUS
    <3> QED
      BY <1>3, <3>1
  <2> QED
    BY <1>1, <1>6, <2>1 DEF VRow, VChannel
<1>8. v_numel = v * n
  BY <1>1 DEF v_numel
<1> QED
  BY <1>1, <1>3, <1>4, <1>5, <1>7, <1>8

LEMMA KBlockInt ==
  ASSUME PageTyped, NEW cg \in 0 .. num_cg - 1
  PROVE  KBlock(cg) \in [1 .. k_numel -> Int]
<1> SUFFICES ASSUME NEW i \in 1 .. k_numel
             PROVE  Residual(KRow(i), KChannel(cg, i)) \in Int
  BY DEF KBlock
<1>1. KChannel(cg, i) \in Channels
  <2>1. PICK n \in Nat \ {0}, N \in Nat :
          n = shape.k_channel_group /\ N = num_cg /\ shape.D = N * n /\ k_numel \in Nat
    BY ShapeFacts
  <2>2. PICK r \in 0 .. n - 1 : r = (i - 1) % n
    <3>1. i - 1 \in Nat
      BY <2>1
    <3> QED
      BY <2>1, <3>1, DivBounds
  <2>3. cg * n + (r + 1) \in 1 .. N * n
    <3>1. r + 1 \in 1 .. n /\ cg \in 0 .. N - 1
      BY <2>1
    <3> QED
      BY <3>1, PlaceBelow
  <2>4. cg * n + r \in 0 .. N * n - 1
    <3>1. cg * n \in Int /\ N * n \in Int
      BY <2>1
    <3> QED
      BY <2>3, <3>1
  <2> QED
    BY <2>1, <2>2, <2>4 DEF KChannel, Channels
<1> QED
  BY <1>1, ResidualInt

LEMMA VBlockInt ==
  ASSUME PageTyped, NEW vb \in 0 .. num_vb - 1
  PROVE  VBlock(vb) \in [1 .. v_numel -> Int]
<1> SUFFICES ASSUME NEW i \in 1 .. v_numel
             PROVE  Residual(VRow(vb, i), VChannel(i)) \in Int
  BY DEF VBlock
<1>1. VChannel(i) \in Channels
  <2>1. PICK n \in Nat \ {0} : n = shape.D /\ v_numel \in Nat
    BY ShapeFacts
  <2>2. i - 1 \in Nat
    BY <2>1
  <2>3. (i - 1) % n \in 0 .. n - 1
    BY <2>2, DivBounds
  <2> QED
    BY <2>1, <2>3 DEF VChannel, Channels
<1> QED
  BY <1>1, ResidualInt

(* What the corrections read of the slots a page is stored in. *)
LEMMA SlotsRead ==
  ASSUME PageTyped, NEW t \in Rows, NEW c \in Channels
  PROVE  LET kslot == k_payload(c \div shape.k_channel_group)
             vslot == v_payload(t \div shape.v_token_block)
             kread == unpack_residual(kslot, k_numel)
                        [t * shape.k_channel_group + (c % shape.k_channel_group) + 1]
             vread == unpack_residual(vslot, v_numel)
                        [(t % shape.v_token_block) * shape.D + c + 1]
         IN /\ Residual(t, c) = 0 => kread = 0 /\ vread = 0
            /\ 2 * Abs(Residual(t, c) * rmax - kread) <= kslot.peak
            /\ 2 * Abs(Residual(t, c) * rmax - vread) <= vslot.peak
<1>0. shape.residual_bits \in {4, 8} /\ k_numel \in Nat /\ v_numel \in Nat
  BY ShapeFacts
<1>1. PICK cg, i : /\ cg = c \div shape.k_channel_group
                   /\ i = t * shape.k_channel_group + (c % shape.k_channel_group) + 1
                   /\ cg \in 0 .. num_cg - 1 /\ i \in 1 .. k_numel
                   /\ KRow(i) = t /\ KChannel(cg, i) = c
  BY KPlace
<1>2. PICK vb, j : /\ vb = t \div shape.v_token_block
                   /\ j = (t % shape.v_token_block) * shape.D + c + 1
                   /\ vb \in 0 .. num_vb - 1 /\ j \in 1 .. v_numel
                   /\ VRow(vb, j) = t /\ VChannel(j) = c
  BY VPlace
<1>3. KBlock(cg)[i] = Residual(t, c) /\ k_payload(cg) = pack_residual(KBlock(cg))
  BY <1>1 DEF KBlock, k_payload
<1>4. VBlock(vb)[j] = Residual(t, c) /\ v_payload(vb) = pack_residual(VBlock(vb))
  BY <1>2 DEF VBlock, v_payload
<1>5. KBlock(cg) \in [1 .. k_numel -> Int] /\ VBlock(vb) \in [1 .. v_numel -> Int]
  BY <1>1, <1>2, KBlockInt, VBlockInt
<1>6. PICK kb, vk : /\ kb = KBlock(cg) /\ vk = VBlock(vb)
                    /\ kb \in [1 .. k_numel -> Int] /\ vk \in [1 .. v_numel -> Int]
  BY <1>5
<1>7. /\ kb[i] = 0 => unpack_residual(pack_residual(kb), k_numel)[i] = 0
      /\ 2 * Abs(kb[i] * rmax - unpack_residual(pack_residual(kb), k_numel)[i])
           <= pack_residual(kb).peak
  BY <1>0, <1>1, <1>6, ElementRead
<1>8. /\ vk[j] = 0 => unpack_residual(pack_residual(vk), v_numel)[j] = 0
      /\ 2 * Abs(vk[j] * rmax - unpack_residual(pack_residual(vk), v_numel)[j])
           <= pack_residual(vk).peak
  BY <1>0, <1>2, <1>6, ElementRead
<1> QED
  BY <1>1, <1>2, <1>3, <1>4, <1>6, <1>7, <1>8

LEMMA PageInvInit == PageInit => PageInv
<1> SUFFICES ASSUME PageInit PROVE PageInv
  OBVIOUS
<1>1. shape \in Shapes /\ num_valid \in 0 .. shape.page_size /\ phase = "empty"
  BY DEF PageInit
<1>2. PICK given \in [0 .. num_valid - 1 -> [Channels -> Values]] :
        rows = [t \in Rows |-> IF t < num_valid THEN given[t] ELSE [c \in Channels |-> 0]]
  BY DEF PageInit
<1>3. rows \in [Rows -> [Channels -> Int]]
  <2>1. shape.page_size \in Nat /\ Values \subseteq Int
    BY <1>1, SlotsAssumption DEF ShapeOf
  <2>2. ASSUME NEW t \in Rows, t < num_valid
        PROVE  given[t] \in [Channels -> Int]
    <3>1. t \in 0 .. num_valid - 1
      BY <1>1, <2>1, <2>2 DEF Rows
    <3> QED
      BY <2>1, <3>1
  <2>3. [c \in Channels |-> 0] \in [Channels -> Int]
    OBVIOUS
  <2> QED
    BY <1>2, <2>2, <2>3
<1>4. RowsRestored
  BY <1>1 DEF RowsRestored
<1> QED
  BY <1>1, <1>3, <1>4 DEF PageInv, PageTyped

LEMMA SlotBytes ==
  ASSUME PageTyped
  PROVE  /\ \A cg \in 0 .. num_cg - 1 : shape.residual_bits = 8 \/ k_numel % 2 = 0
                                          => Len(k_payload(cg).bytes) = k_slot_size
         /\ \A vb \in 0 .. num_vb - 1 : shape.residual_bits = 8 \/ v_numel % 2 = 0
                                          => Len(v_payload(vb).bytes) = v_slot_size
<1>1. /\ shape.residual_bits \in {4, 8} /\ k_numel \in Nat /\ v_numel \in Nat
  BY ShapeFacts
<1>2. ASSUME NEW cg \in 0 .. num_cg - 1, shape.residual_bits = 8 \/ k_numel % 2 = 0
      PROVE  Len(k_payload(cg).bytes) = k_slot_size
  <2>1. PICK n \in Nat, b \in {4, 8} : n = k_numel /\ b = shape.residual_bits
    BY <1>1
  <2>2. (n * b) \div 8 = IF b = 8 THEN n ELSE (n + 1) \div 2
    BY <1>2, <2>1, PayloadFits
  <2>3. PICK block \in [1 .. n -> Int] : block = KBlock(cg)
    BY <2>1, KBlockInt
  <2>4. Len(pack_residual(block).bytes) = IF b = 8 THEN n ELSE (n + 1) \div 2
    BY <1>1, <2>1, BlockPacked
  <2>5. k_payload(cg) = pack_residual(block)
    BY <2>3 DEF k_payload, KBlock
  <2> QED
    BY <2>1, <2>2, <2>4, <2>5 DEF k_slot_size
<1>3. ASSUME NEW vb \in 0 .. num_vb - 1, shape.residual_bits = 8 \/ v_numel % 2 = 0
      PROVE  Len(v_payload(vb).bytes) = v_slot_size
  <2>1. PICK n \in Nat, b \in {4, 8} : n = v_numel /\ b = shape.residual_bits
    BY <1>1
  <2>2. (n * b) \div 8 = IF b = 8 THEN n ELSE (n + 1) \div 2
    BY <1>3, <2>1, PayloadFits
  <2>3. PICK block \in [1 .. n -> Int] : block = VBlock(vb)
    BY <2>1, VBlockInt
  <2>4. Len(pack_residual(block).bytes) = IF b = 8 THEN n ELSE (n + 1) \div 2
    BY <1>1, <2>1, BlockPacked
  <2>5. v_payload(vb) = pack_residual(block)
    BY <2>3 DEF v_payload, VBlock
  <2> QED
    BY <2>1, <2>2, <2>4, <2>5 DEF v_slot_size
<1> QED
  BY <1>2, <1>3

(* When the values of a row are even in number, so are those of a V block. *)
LEMMA EvenBlock ==
  ASSUME PageTyped, shape.D % 2 = 0
  PROVE  v_numel % 2 = 0
<1>1. PICK v \in Nat, d \in Nat : v = shape.v_token_block /\ d = shape.D /\ d % 2 = 0
  BY ShapeFacts
<1>2. PICK h \in Nat : d = 2 * h
  BY <1>1
<1>3. v * d = 2 * (v * h) /\ v * h \in Nat
  BY <1>2
<1>4. PICK m \in Nat : v * d = 2 * m
  BY <1>3
<1> QED
  BY <1>1, <1>4 DEF v_numel

LEMMA StorePageInv ==
  ASSUME \A s \in Shapes : s.D % 2 = 0, PageInv, StorePage
  PROVE  PageInv'
<1>0. shape' = shape /\ rows' = rows /\ num_valid' = num_valid
  BY DEF StorePage
<1>1. PageTyped
  BY DEF PageInv
<1>2. PageTyped'
  BY <1>0, <1>1 DEF PageTyped, StorePage, Rows, Channels
<1>3. /\ k_buf' = [cg \in 0 .. num_cg - 1 |-> k_payload(cg)]
      /\ v_buf' = [vb \in 0 .. num_vb - 1 |-> v_payload(vb)]
  BY DEF StorePage
<1>4. CASE phase' = "raised"
  <2>1. ~ (/\ \A cg \in 0 .. num_cg - 1 : Len(k_payload(cg).bytes) = k_slot_size
           /\ \A vb \in 0 .. num_vb - 1 : Len(v_payload(vb).bytes) = v_slot_size)
    <3>1. ~ (/\ \A cg \in DOMAIN k_buf' : Len(k_buf'[cg].bytes) = k_slot_size
             /\ \A vb \in DOMAIN v_buf' : Len(v_buf'[vb].bytes) = v_slot_size)
      BY <1>4 DEF StorePage
    <3> QED
      BY <1>3, <3>1
  <2>2. v_numel % 2 = 0
    BY <1>1, EvenBlock DEF PageTyped
  <2>3. shape.residual_bits # 8 /\ k_numel % 2 # 0
    BY <1>1, <2>1, <2>2, SlotBytes
  <2>4. k_numel % 2 = 1 /\ shape.residual_bits = 4
    <3>1. PICK n \in Nat : n = k_numel
      BY <1>1, ShapeFacts
    <3>2. n % 2 # 0 => n % 2 = 1
      OBVIOUS
    <3>3. shape.residual_bits \in {4, 8}
      BY <1>1, ShapeFacts
    <3> QED
      BY <2>3, <3>1, <3>2, <3>3
  <2>5. (k_numel % 2 = 1 /\ shape.residual_bits = 4)'
    BY <1>0, <2>4 DEF k_numel
  <2> QED
    BY <1>2, <1>4, <2>5 DEF PageInv, RowsRestored
<1>5. CASE phase' = "stored"
  <2>1. ASSUME NEW t \in Rows, NEW c \in Channels
        PROVE  (IF t >= num_valid THEN KRead(t, c) = 0 /\ VRead(t, c) = 0
                ELSE LET missing == (rows[t][c] * qmax - dequantize(t, c)) * rmax IN
                     /\ 2 * Abs(missing - KRead(t, c)) <= k_buf[c \div shape.k_channel_group].peak
                     /\ 2 * Abs(missing - VRead(t, c)) <= v_buf[t \div shape.v_token_block].peak)'
    <3>1. PICK cg, vb : /\ cg = c \div shape.k_channel_group /\ cg \in 0 .. num_cg - 1
                        /\ vb = t \div shape.v_token_block /\ vb \in 0 .. num_vb - 1
      BY <1>1, KPlace, VPlace
    <3>2. PICK kslot, vslot : /\ kslot = k_payload(cg) /\ vslot = v_payload(vb)
                              /\ k_buf'[cg] = kslot /\ v_buf'[vb] = vslot
      BY <1>3, <3>1
    <3>3. PICK kread, vread :
            /\ kread = unpack_residual(kslot, k_numel)
                         [t * shape.k_channel_group + (c % shape.k_channel_group) + 1]
            /\ vread = unpack_residual(vslot, v_numel)
                         [(t % shape.v_token_block) * shape.D + c + 1]
      OBVIOUS
    <3>4. /\ Residual(t, c) = 0 => kread = 0 /\ vread = 0
          /\ 2 * Abs(Residual(t, c) * rmax - kread) <= kslot.peak
          /\ 2 * Abs(Residual(t, c) * rmax - vread) <= vslot.peak
      BY <1>1, <3>1, <3>2, <3>3, SlotsRead
    <3>5. KRead(t, c)' = kread /\ VRead(t, c)' = vread
      BY <1>0, <3>1, <3>2, <3>3 DEF KRead, VRead, unpack_residual, k_numel, v_numel
    <3>6. /\ (k_buf[c \div shape.k_channel_group].peak)' = kslot.peak
          /\ (v_buf[t \div shape.v_token_block].peak)' = vslot.peak
      BY <1>0, <3>1, <3>2
    <3>7. /\ dequantize(t, c)' = dequantize(t, c) /\ qmax' = qmax /\ rmax' = rmax
      BY <1>0 DEF dequantize, GroupPeak, Channels, qmax, rmax
    <3>8. t \in Nat /\ num_valid \in Nat
      BY <1>1, ShapeFacts DEF Rows
    <3>9. CASE t >= num_valid
      <4>1. Residual(t, c) = 0
        BY <3>8, <3>9 DEF Residual
      <4> QED
        BY <1>0, <3>4, <3>5, <3>9, <4>1
    <3>10. CASE t < num_valid
      <4>1. Residual(t, c) = rows[t][c] * qmax - dequantize(t, c)
        BY <3>10 DEF Residual
      <4>2. ~ (t >= num_valid)
        BY <3>8, <3>10
      <4>3. (t >= num_valid)' = (t >= num_valid)
        BY <1>0
      <4>4. ((rows[t][c] * qmax - dequantize(t, c)) * rmax)' = Residual(t, c) * rmax
        BY <1>0, <3>7, <4>1
      <4> QED
        BY <3>4, <3>5, <3>6, <4>2, <4>3, <4>4 DEF Abs
    <3> QED
      BY <3>8, <3>9, <3>10
  <2>2. Rows' = Rows /\ Channels' = Channels
    BY <1>0 DEF Rows, Channels
  <2>3. RowsRestored'
    BY <1>5, <2>1, <2>2 DEF RowsRestored
  <2> QED
    BY <1>2, <2>3 DEF PageInv
<1> QED
  BY <1>4, <1>5 DEF StorePage

(* RowsRestored: with its slot, a row of the page is restored to within    *)
(* half a step of the block's own scale, from the K block as from the V    *)
(* block, at both widths and in a block that is cut off by the end of the  *)
(* page; and the only page whose payload does not fit is the one of an odd *)
(* K block in 4 bits.  A head has an even number of channels, as the       *)
(* rotary embedding of the attention takes it in two halves.               *)
THEOREM SlotsRestoreRows ==
  ASSUME \A s \in Shapes : s.D % 2 = 0
  PROVE  PageSpec => []RowsRestored
<1>1. PageInit => PageInv
  BY PageInvInit
<1>2. PageInv /\ [StorePage]_page => PageInv'
  <2> SUFFICES ASSUME PageInv, [StorePage]_page PROVE PageInv'
    OBVIOUS
  <2>1. CASE StorePage
    BY <2>1, StorePageInv
  <2>2. CASE UNCHANGED page
    <3>1. /\ shape' = shape /\ rows' = rows /\ num_valid' = num_valid
          /\ k_buf' = k_buf /\ v_buf' = v_buf /\ phase' = phase
      BY <2>2 DEF page
    <3>2. PageTyped'
      BY <3>1 DEF PageInv, PageTyped, Rows, Channels
    <3>3. RowsRestored'
      <4>1. Rows' = Rows /\ Channels' = Channels /\ qmax' = qmax /\ rmax' = rmax
            /\ k_numel' = k_numel
        BY <3>1 DEF Rows, Channels, qmax, rmax, k_numel
      <4>2. ASSUME NEW t, NEW c
            PROVE  KRead(t, c)' = KRead(t, c) /\ VRead(t, c)' = VRead(t, c)
        BY <3>1 DEF KRead, VRead, unpack_residual, k_numel, v_numel
      <4>3. ASSUME NEW t, NEW c
            PROVE  dequantize(t, c)' = dequantize(t, c)
        BY <3>1 DEF dequantize, GroupPeak, Channels, qmax
      <4>4. RowsRestored' <=> RowsRestored
        BY ONLY <3>1, <4>1, <4>2, <4>3 DEF RowsRestored
      <4> QED
        BY <4>4 DEF PageInv
    <3> QED
      BY <3>2, <3>3 DEF PageInv
  <2> QED
    BY <2>1, <2>2
<1>3. PageInv => RowsRestored
  BY DEF PageInv
<1> QED
  BY <1>1, <1>2, <1>3, PTL DEF PageSpec
=============================================================================
