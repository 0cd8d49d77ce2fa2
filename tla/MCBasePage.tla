----------------------------- MODULE MCBasePage -----------------------------
(* Small instances of BasePage and ResidualSlots for TLC.  A page's base and  *)
(* its residual slots share no state: a behaviour moves one of the two.      *)
EXTENDS BasePage, ResidualSlots

(* Rows with the least, the largest and small negative codes. *)
TwoRows(bits) ==
  LET lo == -(Radix(bits) \div 2)  hi == Radix(bits) \div 2 - 1
  IN {[i \in 1 .. HeadDim |-> IF i % 3 = 0 THEN lo ELSE IF i % 3 = 1 THEN hi ELSE 0],
      [i \in 1 .. HeadDim |-> IF i % 2 = 0 THEN -1 ELSE hi - 1]}

Uniform == [quantizer : {"uniform"}, packed_base : BOOLEAN,
            scale_quant : {"none", "int8"}, base_bits : BaseBits]
Side(qs) == [quantizer : qs, packed_base : {FALSE}, scale_quant : {"none"}, base_bits : {3}]

Working   == Uniform \cup Side({"kivi_style", "rotatekv_style", "kvquant_style"})
Int8Only  == [quantizer : {"uniform"}, packed_base : {FALSE}, scale_quant : {"int8"},
              base_bits : {2}]

Shape(p, d, g, b, k, v, r) ==
  [page_size |-> p, D |-> d, group_size |-> g, base_bits |-> b, k_channel_group |-> k,
   v_token_block |-> v, residual_bits |-> r]

(* Blocks that fill the page, cross its end or are larger than it, and a K   *)
(* block of an odd number of values.                                         *)
SmallShapes ==
  {Shape(2, 4, 2, b, 2, 1, r) : b \in {2, 4}, r \in {4, 8}}
  \cup {Shape(3, 2, 2, b, 2, 2, r) : b \in BaseBits, r \in {4, 8}}
  \cup {Shape(2, 2, 1, 3, 1, 4, r) : r \in {4, 8}}
  \cup {Shape(3, 2, 2, 3, 1, 3, r) : r \in {4, 8}}

SmallValues == {-9, 2, 7}

(* The cache of the run that moves the slots, the page of the run that moves *)
(* the cache.                                                                *)
BaseIdle     == cfg = (CHOOSE s \in Settings : TRUE) /\ next_page = 0
ResidualIdle == shape = (CHOOSE s \in Shapes : TRUE) /\ num_valid = 0 /\ phase = "empty"

StorageInit ==
  \/ ResidualIdle /\ PageInit /\ Init
  \/ BaseIdle /\ Init /\ PageInit
StorageNext ==
  \/ ResidualIdle /\ Next /\ UNCHANGED page
  \/ BaseIdle /\ StorePage /\ UNCHANGED vars
StorageSpec == StorageInit /\ [][StorageNext]_<<vars, page>>
=============================================================================
