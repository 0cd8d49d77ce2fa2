---------------------------- MODULE ResidualSlots ----------------------------
(***************************************************************************)
(* The residual of one page, from the quantizer to the slot buffers and    *)
(* back (quantizer.py, residual_store.py, cache.py).  The rows of a page   *)
(* are quantized under one scale per group of channels; what is left over  *)
(* is cut into blocks, channel groups of all rows for K and runs of rows   *)
(* for V; a block is quantized again under a scale of its own and packed   *)
(* into a slot of fixed size.                                              *)
(*                                                                         *)
(* Numbers are integers.  A row's value x is in units of 1; its residual   *)
(* in units of 1/qmax, and what a slot reads back in units of              *)
(* 1/(qmax * rmax), so that the two divisions are exact.  That a scale is  *)
(* rounded to fp16 is left out.                                            *)
(***************************************************************************)
EXTENDS Packing, Rounding, Sequences

CONSTANTS
  Shapes,      \* page and block sizes, see ShapeOf
  Values       \* the values of the rows

ShapeOf == [page_size : Nat \ {0}, D : Nat \ {0}, group_size : Nat \ {0}, base_bits : BaseBits,
            k_channel_group : Nat \ {0}, v_token_block : Nat \ {0}, residual_bits : {4, 8}]

ASSUME SlotsAssumption ==
  /\ Shapes \subseteq ShapeOf /\ Values \subseteq Int
  /\ \A s \in Shapes : s.D % s.group_size = 0 /\ s.D % s.k_channel_group = 0

VARIABLES
  shape, rows, num_valid,   \* the page: rows of values, padded with zeros
  k_buf, v_buf,             \* per stored block: the bytes of its slot and its scale
  phase                     \* "empty", "stored", or "raised" when a payload does not fit

page == <<shape, rows, num_valid, k_buf, v_buf, phase>>

Rows     == 0 .. shape.page_size - 1
Channels == 0 .. shape.D - 1
Abs(x)   == IF x < 0 THEN -x ELSE x

\* The largest absolute value, 0 for a vanishing block.
Peak(S) == CHOOSE m \in {Abs(x) : x \in S} : \A x \in S : Abs(x) <= m

-------------------------------------------------------------------------------
(* quantize, dequantize, quantize_and_residual *)

qmax == Radix(shape.base_bits) \div 2 - 1

(* round(x / (peak / q)) in lo .. q; a vanishing scale is raised to 1e-8.  *)
Code(x, peak, q) ==
  IF peak = 0 THEN 0 ELSE Most(-q - 1, Least(Round(x * q, peak), q))

GroupPeak(t, c) ==
  Peak({rows[t][d] : d \in {d \in Channels : d \div shape.group_size = c \div shape.group_size}})

(* dequantize, in units of 1/qmax. *)
dequantize(t, c) == Code(rows[t][c], GroupPeak(t, c), qmax) * GroupPeak(t, c)

(* x - dequantize(quantize(x)), zero in the padded rows and past the page. *)
Residual(t, c) ==
  IF t \in Rows /\ t < num_valid THEN rows[t][c] * qmax - dequantize(t, c) ELSE 0

-------------------------------------------------------------------------------
(* pack_residual, unpack_residual *)

rmax == IF shape.residual_bits = 8 THEN 127 ELSE 7

PeakOf(block) == IF block = <<>> THEN 0 ELSE Peak({block[i] : i \in DOMAIN block})

Pairs(codes) == IF Len(codes) % 2 = 0 THEN codes ELSE Append(codes, 0)

(* 4 bits: two codes in a byte, the first one in the low half. *)
pack_4bit(block) ==
  LET codes == Pairs([i \in DOMAIN block |-> Code(block[i], PeakOf(block), 7)])
  IN [j \in 1 .. Len(codes) \div 2 |-> PackGroup(4, <<codes[2 * j - 1], codes[2 * j]>>)[1]]

(* Mutant: the high half first. *)
unpack_4bit_swapped(bytes, numel) ==
  [i \in 1 .. numel |-> UnpackGroup(4, <<bytes[(i + 1) \div 2]>>)[1 + (i % 2)]]

unpack_4bit(bytes, numel) ==
  [i \in 1 .. numel |-> UnpackGroup(4, <<bytes[(i + 1) \div 2]>>)[2 - (i % 2)]]

pack_8bit(block) == [i \in DOMAIN block |-> Code(block[i], PeakOf(block), 127)]

pack_residual(block) ==
  [bytes |-> IF shape.residual_bits = 8 THEN pack_8bit(block) ELSE pack_4bit(block),
   peak |-> PeakOf(block)]

(* In units of 1/(qmax * rmax). *)
unpack_residual(slot, numel) ==
  [i \in 1 .. numel |->
     (IF shape.residual_bits = 8 THEN slot.bytes[i] ELSE unpack_4bit(slot.bytes, numel)[i]) * slot.peak]

-------------------------------------------------------------------------------
(* The blocks of a page and the slots that hold them *)

num_cg == shape.D \div shape.k_channel_group
num_vb == (shape.page_size + shape.v_token_block - 1) \div shape.v_token_block

k_numel == shape.page_size * shape.k_channel_group
v_numel == shape.v_token_block * shape.D

k_slot_size == (k_numel * shape.residual_bits) \div 8
v_slot_size == (v_numel * shape.residual_bits) \div 8

(* A block flattened row by row: element i is of row and channel ... *)
KRow(i) == (i - 1) \div shape.k_channel_group
KChannel(cg, i) == cg * shape.k_channel_group + ((i - 1) % shape.k_channel_group)
VRow(vb, i) == vb * shape.v_token_block + ((i - 1) \div shape.D)
VChannel(i) == (i - 1) % shape.D

k_payload(cg) == pack_residual([i \in 1 .. k_numel |-> Residual(KRow(i), KChannel(cg, i))])

(* A block that crosses the end of the page is padded to its full size. *)
v_payload(vb) == pack_residual([i \in 1 .. v_numel |-> Residual(VRow(vb, i), VChannel(i))])

PageInit ==
  /\ shape \in Shapes
  /\ num_valid \in 0 .. shape.page_size
  /\ \E given \in [0 .. num_valid - 1 -> [Channels -> Values]] :
       rows = [t \in Rows |-> IF t < num_valid THEN given[t] ELSE [c \in Channels |-> 0]]
  /\ k_buf = <<>> /\ v_buf = <<>>
  /\ phase = "empty"

(* Writing a payload of another size than the slot raises. *)
StorePage ==
  /\ phase = "empty"
  /\ k_buf' = [cg \in 0 .. num_cg - 1 |-> k_payload(cg)]
  /\ v_buf' = [vb \in 0 .. num_vb - 1 |-> v_payload(vb)]
  /\ phase' = IF /\ \A cg \in DOMAIN k_buf' : Len(k_buf'[cg].bytes) = k_slot_size
                 /\ \A vb \in DOMAIN v_buf' : Len(v_buf'[vb].bytes) = v_slot_size
              THEN "stored" ELSE "raised"
  /\ UNCHANGED <<shape, rows, num_valid>>

PageSpec == PageInit /\ [][StorePage]_page

-------------------------------------------------------------------------------
(* What the corrections read: slots reshaped to blocks. *)
KRead(t, c) ==
  unpack_residual(k_buf[c \div shape.k_channel_group], k_numel)
    [t * shape.k_channel_group + (c % shape.k_channel_group) + 1]

VRead(t, c) ==
  unpack_residual(v_buf[t \div shape.v_token_block], v_numel)
    [(t % shape.v_token_block) * shape.D + c + 1]

(* With its slot a row of the page is restored to within half a step of the *)
(* block's own scale, whichever group of channels or run of rows holds it,  *)
(* at both widths and also where a block crosses the end of the page; a row *)
(* that is not there yet adds nothing.  A page is stored unless its K block *)
(* has an odd number of values, which 4 bits cannot pack into the slot.     *)
RowsRestored ==
  CASE phase = "empty" -> TRUE
    [] phase = "raised" -> k_numel % 2 = 1 /\ shape.residual_bits = 4
    [] phase = "stored" ->
       \A t \in Rows, c \in Channels :
         IF t >= num_valid THEN KRead(t, c) = 0 /\ VRead(t, c) = 0
         ELSE LET missing == (rows[t][c] * qmax - dequantize(t, c)) * rmax IN
              /\ 2 * Abs(missing - KRead(t, c)) <= k_buf[c \div shape.k_channel_group].peak
              /\ 2 * Abs(missing - VRead(t, c)) <= v_buf[t \div shape.v_token_block].peak
=============================================================================
