------------------------------ MODULE BasePage ------------------------------
(***************************************************************************)
(* How the base quantization of one lane is stored and read back           *)
(* (cache.py): the code buffer, packed or not, with its scales, raw or     *)
(* int8 with one master per page; and the fp16 side buffer of the other    *)
(* base quantizers.  A prefill writes whole pages, a decode step appends   *)
(* rows, and the attention of a decode step reads everything back.         *)
(*                                                                         *)
(* Only K is modelled: the code does the same to V next to it.  A row is   *)
(* its codes and the scale they are multiplied by; the pair stands for the *)
(* dequantized row.  Scales are naturals; what a read returns is in units  *)
(* of 1/QMax, so that a scale s stored as it is reads as s * QMax.         *)
(***************************************************************************)
EXTENDS Integers, SequencesExt, Packing, Rounding

CONSTANTS
  Settings,            \* the configurations in use, see SettingShape
  PageSize, MaxPages,
  HeadDim,             \* codes of a row
  RowCodes(_),         \* the code vectors of the rows, for a number of bits
  Scales,              \* the scales of the rows
  QMax                 \* 127: the largest code of an int8 scale

SettingShape ==
  [quantizer : {"uniform", "kivi_style", "rotatekv_style", "randrot_style",
                "kvquant_style", "blockgtq_style"},
   packed_base : BOOLEAN, scale_quant : {"none", "int8"}, base_bits : BaseBits]

ASSUME BasePageAssumption ==
  /\ Settings \subseteq SettingShape
  /\ {PageSize, MaxPages, QMax} \subseteq Nat \ {0}
  /\ HeadDim \in Nat /\ HeadDim % 8 = 0
  /\ \A b \in BaseBits : RowCodes(b) \subseteq [1 .. HeadDim -> Codes(b)]
  /\ Scales \subseteq Nat \ {0}

VARIABLES
  cfg,           \* the setting in use
  next_page, valid_tokens,
  codes,         \* base_K_codes
  scale,         \* base_K_scale: raw, or int8 codes
  master,        \* base_K_scale_master, times QMax: the largest scale of the page
  hat,           \* base_K_hat_fp16, the side buffer
  written        \* the rows committed so far, in order

store == <<next_page, valid_tokens, codes, scale, master, hat>>
vars  == <<cfg, next_page, valid_tokens, codes, scale, master, hat, written>>

Pages == 0 .. MaxPages - 1
Slots == 0 .. PageSize - 1

ZeroRow == [codes |-> [i \in 1 .. HeadDim |-> 0], scale |-> 0]
DataRows == [codes : RowCodes(cfg.base_bits), scale : Scales]

Int8Scales == cfg.scale_quant = "int8"

(* The quantizers whose K_hat goes to the side buffer (layer.py, cache.py) *)
(* and those whose K_hat a decode step takes from there (attention.py).    *)
SideBuffered     == {"kivi_style", "rotatekv_style", "randrot_style", "kvquant_style",
                     "blockgtq_style"}
ReadFromSide     == {"kivi_style", "rotatekv_style", "kvquant_style"}

WritesSide == cfg.quantizer \in SideBuffered

(* codes as they are, or packed into bytes. *)
StoredCodes(row) ==
  IF cfg.packed_base THEN pack_codes_2d(row, HeadDim, cfg.base_bits) ELSE row

ReadCodes(stored) ==
  IF cfg.packed_base THEN unpack_codes_2d(stored, HeadDim, cfg.base_bits) ELSE stored

EmptyPage(x) == [p \in Pages |-> [t \in Slots |-> x]]

Init == /\ cfg \in Settings
        /\ next_page = 0
        /\ valid_tokens = [p \in Pages |-> 0]
        /\ codes = EmptyPage(StoredCodes(ZeroRow.codes))
        /\ scale = EmptyPage(0)
        /\ master = [p \in Pages |-> 0]
        /\ hat = EmptyPage(ZeroRow)
        /\ written = <<>>

-------------------------------------------------------------------------------
(* Scales *)

MaxScale(rows) ==
  LET S == {rows[t].scale : t \in DOMAIN rows}
  IN CHOOSE m \in S : \A s \in S : s <= m

(* Mutant: int() instead of round() loses up to a whole step. *)
PageScales_floor(rows, m) ==
  [t \in Slots |-> IF Int8Scales THEN Least((rows[t].scale * QMax) \div m, QMax)
                   ELSE rows[t].scale]

(* _write_scale_page: the codes of a page under its own master. *)
PageScales(rows, m) ==
  [t \in Slots |-> IF Int8Scales THEN Least(Round(rows[t].scale * QMax, m), QMax)
                   ELSE rows[t].scale]

(* The scale of an appended row under the master the page already has.  A  *)
(* master of zero is raised to 1e-8, which makes every scale saturate.     *)
RowScale(s, m) ==
  IF ~ Int8Scales THEN s
  ELSE IF m = 0 THEN QMax
  ELSE Least(Round(s * QMax, m), QMax)

(* _maybe_dequant_scale, in units of 1/QMax. *)
ReadScale(stored, m) == IF Int8Scales THEN stored * m ELSE stored * QMax

-------------------------------------------------------------------------------
(* Writing *)

(* The rows of page p of a prompt, padded with zeros: a padded row has a   *)
(* vanishing scale.                                                        *)
PageRows(prompt, p) ==
  [t \in Slots |-> IF p * PageSize + t < Len(prompt) THEN prompt[p * PageSize + t + 1]
                   ELSE ZeroRow]

(* The side buffer, all of a page and one row. *)
write_base_kivi(prompt) ==
  hat' = [p \in Pages |-> PageRows(prompt, p)] /\ UNCHANGED <<codes, scale, master>>

append_to_page_kivi(p, t, row) ==
  hat' = [hat EXCEPT ![p][t] = row] /\ UNCHANGED <<codes, scale, master>>

(* _write_pages_for_kv_head on a new cache: write_base_kivi of every page  *)
(* of the prompt, or write_base.                                           *)
Prefill ==
  \E n \in 1 .. MaxPages * PageSize : \E prompt \in [1 .. n -> DataRows] :
    LET last  == (n - 1) \div PageSize
        Of(p) == PageRows(prompt, p)
    IN /\ next_page = 0
       /\ next_page' = last + 1
       /\ valid_tokens' = [p \in Pages |-> IF p > last THEN 0
                                           ELSE Least(PageSize, n - p * PageSize)]
       /\ written' = prompt
       /\ IF WritesSide
          THEN write_base_kivi(prompt)
          ELSE /\ codes' = [p \in Pages |-> [t \in Slots |-> StoredCodes(Of(p)[t].codes)]]
               /\ master' = [p \in Pages |-> IF Int8Scales /\ p <= last
                                             THEN MaxScale(Of(p)) ELSE 0]
               /\ scale' = [p \in Pages |-> IF p <= last
                                            THEN PageScales(Of(p), MaxScale(Of(p)))
                                            ELSE scale[p]]
               /\ UNCHANGED hat
       /\ UNCHANGED cfg

(* get_open_page, or a page from alloc_page. *)
TargetPage ==
  IF next_page > 0 /\ valid_tokens[next_page - 1] < PageSize THEN next_page - 1 ELSE next_page

(* Mutant: the page gets a new master when a row does not fit. *)
AppendMaster_raised(p, s) == IF Int8Scales /\ s > master[p] THEN s ELSE master[p]

(* The master of a page is held fixed. *)
AppendMaster(p, s) == master[p]

(* append_to_page_kivi, or append_to_page. *)
Append1(p, row) ==
  LET t == valid_tokens[p] IN
  /\ valid_tokens' = [valid_tokens EXCEPT ![p] = t + 1]
  /\ IF WritesSide
     THEN append_to_page_kivi(p, t, row)
     ELSE /\ codes' = [codes EXCEPT ![p][t] = StoredCodes(row.codes)]
          /\ scale' = [scale EXCEPT ![p][t] = RowScale(row.scale, master[p])]
          /\ master' = [master EXCEPT ![p] = AppendMaster(p, row.scale)]
          /\ UNCHANGED hat

(* decode_step.  Its dispatch passes no layer and head, so blockgtq_style  *)
(* raises, after the page has been allocated.                              *)
DecodeStep ==
  LET p == TargetPage IN
  /\ p < MaxPages
  /\ next_page' = p + 1
  /\ IF cfg.quantizer = "blockgtq_style"
     THEN UNCHANGED <<valid_tokens, codes, scale, master, hat, written>>
     ELSE \E row \in DataRows : Append1(p, row) /\ written' = Append(written, row)
  /\ UNCHANGED cfg

Next == Prefill \/ DecodeStep

Spec == Init /\ [][Next]_vars

-------------------------------------------------------------------------------
(* Reading *)

Concat(Row(_, _)) ==
  FlattenSeq([i \in 1 .. next_page |-> [t \in 1 .. valid_tokens[i - 1] |-> Row(i - 1, t - 1)]])

read_base_concat ==
  Concat(LAMBDA p, t : [codes |-> ReadCodes(codes[p][t]),
                        scale |-> ReadScale(scale[p][t], master[p])])

read_base_hat_concat ==
  Concat(LAMBDA p, t : [codes |-> hat[p][t].codes, scale |-> hat[p][t].scale * QMax])

(* The rows a decode step attends over. *)
decode_reads ==
  IF cfg.quantizer \in ReadFromSide THEN read_base_hat_concat ELSE read_base_concat

-------------------------------------------------------------------------------
(* Properties *)

(* The master of the page that holds token i. *)
MasterOf(i) == master[(i - 1) \div PageSize]

(* What a decode step attends over is what the prefill and the decode      *)
(* steps have committed: token by token the same codes, packed or not, in  *)
(* the buffer the base quantizer uses, and, unless scales are stored as    *)
(* int8, the same scales.                                                  *)
DecodeReadsWritten ==
  /\ Len(decode_reads) = Len(written)
  /\ \A i \in 1 .. Len(written) :
       /\ decode_reads[i].codes = written[i].codes
       /\ (WritesSide \/ ~ Int8Scales) => decode_reads[i].scale = written[i].scale * QMax

(* An int8 scale reads as the scale that was written, to within half a     *)
(* step, or as the largest the page can express, if the row came after the *)
(* page had got its master.                                                *)
ScaleErrorBounded ==
  ~ WritesSide /\ Int8Scales =>
    \A i \in 1 .. Len(written) :
      LET m == MasterOf(i)  d == decode_reads[i].scale - Least(written[i].scale, m) * QMax
      IN 2 * d <= m /\ 2 * d >= -m

(* Storing a token changes nothing that is read of an earlier token.       *)
EarlierRowsKept ==
  [][\A i \in 1 .. Len(decode_reads) : decode_reads'[i] = decode_reads[i]]_vars

(* A token never reads as zero: an appended scale is clamped to fit, not   *)
(* lost.                                                                   *)
NoTokenVanishes ==
  \A i \in 1 .. Len(decode_reads) : decode_reads[i].scale > 0
=============================================================================
