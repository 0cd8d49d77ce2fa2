---------------------------- MODULE SlotCorrection ----------------------------
(***************************************************************************)
(* Reading stored residuals back (attention.py): which residual row is     *)
(* added at which position of the attention vector.  The code does it in   *)
(* three places: slot by slot (apply_slot_corrections), and for all        *)
(* queries at once through an index of the V slots and one of the K slots  *)
(* (vectorized_v_correction, vectorized_joint_correction).  Each computes  *)
(* its own positions from the pages of PagedCache.                         *)
(*                                                                         *)
(* A term is <<slot, position, source>>: the residual row `source` of the  *)
(* slot is weighted with the attention at `position`.  The weights are     *)
(* real numbers and are left out, as is the linear or exact form in which  *)
(* the terms are combined.                                                 *)
(***************************************************************************)
EXTENDS PagedCache

MinOf(a, b) == IF a < b THEN a ELSE b

(* The row of the page a payload row was computed from, with the token it   *)
(* held; Zero for a padding row, whose residual is zero.                    *)
Source(payload, t) ==
  IF t < Len(payload[4]) THEN <<payload[2], t, payload[4][t + 1]>> ELSE Zero

(* Slots the metadata of a lane refers to, by page and group. *)
LaneK(c) == {r \in KRefs : r[1] = c /\ r[2] < next_page[c]}
LaneV(c) == {r \in VRefs : r[1] = c /\ r[2] < next_page[c]}

-------------------------------------------------------------------------------
(* apply_slot_corrections *)

(* _page_token_offsets: start and end of each page that has tokens. *)
_page_token_offsets(c) ==
  [p \in {q \in all_page_ids(c) : valid_tokens[c][q] > 0} |->
     <<TokensBefore(c, p), TokensBefore(c, p) + valid_tokens[c][p]>>]

(* Valid rows of a V block; none when the block begins after them. *)
BlockLen(c, r) == MinOf((r[3] + 1) * VTokenBlock, valid_tokens[c][r[2]]) - r[3] * VTokenBlock

ApplyV(c, r) ==
  LET start == _page_token_offsets(c)[r[2]][1] + r[3] * VTokenBlock IN
  {<<r, start + t, Source(v_buf[VSlotAt(r)], r[3] * VTokenBlock + t)>> :
     t \in 0 .. BlockLen(c, r) - 1}

ApplyK(c, r) ==
  LET range == _page_token_offsets(c)[r[2]] IN
  {<<r, range[1] + t, Source(k_buf[KSlotAt(r)], t)>> : t \in 0 .. range[2] - range[1] - 1}

Readable(c, refs) == {r \in refs : r[2] \in DOMAIN _page_token_offsets(c)}

apply_slot_corrections(c, sel) ==
  (UNION {ApplyV(c, r) : r \in Readable(c, sel \intersect VRefs)})
  \cup (UNION {ApplyK(c, r) : r \in Readable(c, sel \intersect KRefs)})

-------------------------------------------------------------------------------
(* The batched form *)

(* The scan of the V slots keeps its own cursor, which a page without      *)
(* tokens or metadata does not move.                                       *)
_build_v_slot_index(c) ==
  {[ref |-> r, start |-> router_token_offset(c, r[2]) + r[3] * VTokenBlock,
    len |-> BlockLen(c, r)] :
     r \in {x \in LaneV(c) : valid_tokens[c][x[2]] > 0 /\ BlockLen(c, x) > 0}}

(* Mutant: the scan does not count the tokens of a page without K slots. *)
KCursor_slots_only(c, p) ==
  Cardinality(ValidRows(c, {q \in 0 .. p - 1 : \E g \in CGroups : <<c, q, g>> \in KRefs}))

(* The scan of the K slots counts the tokens of every page. *)
KCursor(c, p) == Cardinality(ValidRows(c, 0 .. p - 1))

_build_k_slot_index(c) ==
  {[ref |-> r, start |-> KCursor(c, r[2]), len |-> valid_tokens[c][r[2]]] :
     r \in {x \in LaneK(c) : valid_tokens[c][x[2]] > 0}}

(* argmax over 0/1 picks the first slot in scan order that covers j. *)
token_to_slot(index, j) ==
  LET over == {s \in index : s.start <= j /\ j < s.start + s.len}
  IN {s \in over : \A o \in over : <<s.ref[2], s.ref[3]>> = <<o.ref[2], o.ref[3]>>
                                     \/ s.ref[2] < o.ref[2]
                                     \/ (s.ref[2] = o.ref[2] /\ s.ref[3] < o.ref[3])}

(* Mutant: positions are counted from the page instead of the block. *)
local_pos_page(s, j) == s.ref[3] * VTokenBlock + (j - s.start)

local_pos(s, j) == j - s.start

(* Each position takes the row of the one V slot that covers it. *)
vectorized_v_correction(c, sel) ==
  LET index == _build_v_slot_index(c) IN
  UNION {{<<s.ref, j, Source(v_buf[VSlotAt(s.ref)],
                            s.ref[3] * VTokenBlock + local_pos(s, j))>> :
            s \in {x \in token_to_slot(index, j) : x.ref \in sel}} :
         j \in 0 .. total_valid_tokens(c) - 1}

vectorized_k_terms(c, sel) ==
  UNION {{<<s.ref, s.start + t, Source(k_buf[KSlotAt(s.ref)], t)>> : t \in 0 .. s.len - 1} :
         s \in {x \in _build_k_slot_index(c) : x.ref \in sel}}

vectorized_joint_correction(c, sel) ==
  vectorized_v_correction(c, sel) \cup vectorized_k_terms(c, sel)

-------------------------------------------------------------------------------
(* Properties *)

Selectable(c) == (SUBSET LaneK(c)) \cup (SUBSET LaneV(c)) \cup {LaneK(c) \cup LaneV(c)}

(* Whatever slots are selected, the slot-by-slot and the batched correction *)
(* add the same residual rows at the same positions, at every moment of a   *)
(* prefill or decode step, with open pages and pages stored twice.          *)
BatchedAddsTheSame ==
  \A c \in Lanes : \A sel \in Selectable(c) :
    apply_slot_corrections(c, sel) = vectorized_joint_correction(c, sel)

(* A residual row is added at the position of the very token it was         *)
(* computed from; on a token appended to the page since, it is zero. *)
CorrectsItsToken ==
  \A c \in Lanes :
    \A term \in vectorized_joint_correction(c, LaneK(c) \cup LaneV(c)) :
      LET p == term[1][2]  t == term[2] - TokensBefore(c, p) IN
      /\ term[2] < Len(read_base_concat(c))
      /\ term[3] = IF t < meta_table[c][p].num_tokens
                   THEN <<p, t, read_base_concat(c)[term[2] + 1]>> ELSE Zero
=============================================================================
