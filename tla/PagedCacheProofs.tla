--------------------------- MODULE PagedCacheProofs ---------------------------
(*****************************************************************************)
(* Theorems about PagedCache and SlotCorrection, for every shape of the      *)
(* model, page size, number of pages, budget, arena size and outcome of the  *)
(* store filter.                                                             *)
(*                                                                           *)
(* Residual slots: a slot is referred to once and is not free while it is    *)
(* referred to, and what it holds was computed from the rows its page still  *)
(* holds.  K and V slots obey the same rules, so the lemmas speak of one     *)
(* arena: its free list, its payloads, and the slots its groups refer to,    *)
(* as a function of <<lane, page, group>>.                                   *)
(*                                                                           *)
(* Positions: only the last page of a lane is open, every page records the   *)
(* position of its first token, and the router's count of earlier tokens     *)
(* agrees with it.  The three properties are not inductive: a decode step    *)
(* derives the position it records from head 0 of the layer, so PositionInv  *)
(* also says how many tokens each lane holds while a pass is under way.      *)
(*                                                                           *)
(* Reading: a lane is read as the tokens it holds, in order, so the cache    *)
(* implements KVContext; and the stored residuals are added where they       *)
(* belong, by the slot-by-slot and by the batched form alike.  A read        *)
(* concatenates the pages by a recursive definition, which CommonLemmas      *)
(* solves; ContextInv adds to PositionInv that a lane holds the tokens its   *)
(* positions say.                                                            *)
(*                                                                           *)
(* Lost slots: nothing frees a slot, so a page that is processed twice loses *)
(* the slots it had; LossInv says of which page and when.                    *)
(*                                                                           *)
(* Arenas: a cache whose arenas and budgets are those the code computes      *)
(* takes its slots as StoreBudget says, so what StoreBudgetProofs shows of   *)
(* slot counts holds of the cache.  ReopenInv says which lanes may still     *)
(* store a page again.                                                       *)
(*****************************************************************************)
EXTENDS SlotCorrection, SizedCache, CommonLemmas

-------------------------------------------------------------------------------
(* What the helpers return *)

(* A pick is a sequence of distinct members of S, no longer than n. *)
LEMMA PicksProperties ==
  ASSUME NEW S, NEW n \in Nat, NEW s \in Picks(S, n)
  PROVE  /\ s \in Seq(S)
         /\ Len(s) <= n
         /\ IsInjective(s)
<1>1. PICK m \in 0 .. n : s \in [1 .. m -> S]
  BY DEF Picks, SeqOf
<1>2. s \in Seq(S) /\ Len(s) = m
  BY <1>1
<1> QED
  BY <1>1, <1>2 DEF Picks

(* A selection is a pair of sequences of channel groups and token blocks. *)
LEMMA SelectionsType ==
  ASSUME NEW layer \in Layers, NEW n \in Nat, NEW sel \in Selections(layer, n)
  PROVE  sel[1] \in Seq(CGroups) /\ sel[2] \in Seq(VBlocks)
<1> DEFINE blocks == {b \in VBlocks : b * VTokenBlock < n}
           kMax == IF Joint THEN JointBudget[layer] ELSE KBudget[layer]
           vMax == IF Joint THEN JointBudget[layer] ELSE VBudget[layer]
<1>1. kMax \in Nat /\ vMax \in Nat
  BY BudgetAssumption
<1>2. sel[1] \in Picks(CGroups, kMax) /\ sel[2] \in Picks(blocks, vMax)
  BY DEF Selections
<1> HIDE DEF kMax, vMax, blocks
<1>3. sel[1] \in Seq(CGroups) /\ sel[2] \in Seq(blocks)
  BY <1>1, <1>2, PicksProperties
<1>4. blocks \subseteq VBlocks
  BY DEF blocks
<1> QED
  BY <1>3, <1>4

(* A decode step selects nothing or what a prefill could. *)
LEMMA DecodeSelectionsType ==
  ASSUME NEW layer \in Layers, NEW sel \in DecodeSelections(layer)
  PROVE  sel[1] \in Seq(CGroups) /\ sel[2] \in Seq(VBlocks)
<1>1. CASE DecodeResidual
  BY <1>1, SelectionsType, ShapeAssumption DEF DecodeSelections
<1>2. CASE ~ DecodeResidual
  <2>1. sel[1] = <<>> /\ sel[2] = <<>>
    BY <1>2 DEF DecodeSelections
  <2> QED
    BY <2>1
<1> QED
  BY <1>1, <1>2

(* Every picked group gets a slot of the free list, the others none. *)
LEMMA SlotOfType ==
  ASSUME NEW Slots, NEW groups, NEW picked \in Seq(groups),
         NEW free \in Seq(Slots), Len(picked) <= Len(free)
  PROVE  SlotOf(groups, picked, free) \in [groups -> Slots \cup {Unused}]
<1> SUFFICES ASSUME NEW g \in groups, \E i \in 1 .. Len(picked) : picked[i] = g
             PROVE  free[CHOOSE i \in 1 .. Len(picked) : picked[i] = g] \in Slots
  BY DEF SlotOf
<1> DEFINE k == CHOOSE i \in 1 .. Len(picked) : picked[i] = g
<1>1. k \in 1 .. Len(picked)
  OBVIOUS
<1>2. k \in 1 .. Len(free)
  BY <1>1
<1> QED
  BY <1>2

(* What is left of a free list is a list of slots. *)
LEMMA DropFirstType ==
  ASSUME NEW Slots, NEW free \in Seq(Slots), NEW n \in 0 .. Len(free)
  PROVE  /\ DropFirst(free, n) \in Seq(Slots)
         /\ Len(DropFirst(free, n)) = Len(free) - n
         /\ \A i \in 1 .. Len(free) - n : DropFirst(free, n)[i] = free[n + i]
<1> QED
  BY DEF DropFirst

(* Writing slots puts payloads into them. *)
LEMMA WrittenType ==
  ASSUME NEW Slots, NEW buf \in [Slots -> Payload], NEW groups,
         groups \subseteq Nat, NEW picked \in Seq(groups), NEW free \in Seq(Slots),
         NEW n \in 0 .. Len(picked), n <= Len(free),
         NEW c \in Lanes, NEW pid \in Pages, NEW content \in Seq(Token \cup {Zero})
  PROVE  Written(buf, free, picked, n, c, pid, content) \in [Slots -> Payload]
<1> SUFFICES ASSUME NEW s \in Slots, \E i \in 1 .. n : free[i] = s
             PROVE  <<c, pid, picked[CHOOSE i \in 1 .. n : free[i] = s], content>>
                      \in Payload
  BY DEF Written
<1> DEFINE k == CHOOSE i \in 1 .. n : free[i] = s
<1>1. k \in 1 .. n
  OBVIOUS
<1>2. \A i \in 1 .. n : picked[i] \in Nat
  <2> SUFFICES ASSUME NEW i \in 1 .. n PROVE picked[i] \in Nat
    OBVIOUS
  <2>1. i \in 1 .. Len(picked)
    OBVIOUS
  <2>2. picked[i] \in groups
    BY <2>1, ElementOfSeq
  <2> QED
    BY <2>2
<1>3. \A x \in Nat : <<c, pid, x, content>> \in Payload
  BY DEF Payload
<1> QED
  BY <1>1, <1>2, <1>3, Zenon

(* The tokens of a lane are counted by a natural number. *)
LEMMA TotalType ==
  ASSUME TypeOK, NEW c \in Lanes
  PROVE  total_valid_tokens(c) \in Nat
<1> DEFINE pages == 0 .. next_page[c] - 1
<1>1. next_page[c] \in Nat /\ PageSize \in Nat
  BY ShapeAssumption DEF TypeOK
<1>2. IsFiniteSet(pages) /\ IsFiniteSet(Rows)
  BY <1>1, FS_Interval DEF Rows
<1>3. IsFiniteSet(pages \X Rows)
  BY <1>2, FS_Product
<1>4. ValidRows(c, pages) \subseteq pages \X Rows
  BY DEF ValidRows
<1>5. IsFiniteSet(ValidRows(c, pages))
  BY <1>3, <1>4, FS_Subset
<1> QED
  BY <1>5, FS_CardinalityType DEF total_valid_tokens, TokensBefore

(* Taking slots keeps free lists and payloads well typed. *)
LEMMA TakeSlotsType ==
  ASSUME TypeOK, NEW c \in Lanes, NEW pid \in Pages, NEW n \in 0 .. PageSize, NEW sel,
         sel[1] \in Seq(CGroups), sel[2] \in Seq(VBlocks),
         rows' \in [Lanes -> [Pages -> [Rows -> Token \cup {Zero}]]],
         NEW i \in 0 .. Len(sel[1]), NEW j \in 0 .. Len(sel[2]),
         TakeSlots(c, pid, n, sel, i, j)
  PROVE  /\ k_free' \in Seq(KSlots) /\ v_free' \in Seq(VSlots)
         /\ k_buf' \in [KSlots -> Payload] /\ v_buf' \in [VSlots -> Payload]
<1> DEFINE content == PageContent(rows'[c][pid], n)
<1>1. content \in Seq(Token \cup {Zero})
  <2>0. PageSize \in Nat
    BY ShapeAssumption
  <2>1. n \in Nat /\ rows'[c][pid] \in [Rows -> Token \cup {Zero}]
    BY <2>0
  <2>2. ASSUME NEW t \in 1 .. n PROVE rows'[c][pid][t - 1] \in Token \cup {Zero}
    <3>1. t - 1 \in Rows
      BY <2>0 DEF Rows
    <3> QED
      BY <2>1, <3>1
  <2>3. content \in [1 .. n -> Token \cup {Zero}]
    BY <2>2 DEF PageContent
  <2> QED
    BY <2>1, <2>3
<1> HIDE DEF content
<1>2. CGroups \subseteq Nat /\ VBlocks \subseteq Nat
  <2>1. NumCG \in Nat /\ PageSize \in Nat /\ VTokenBlock \in Nat \ {0}
    BY ONLY ShapeAssumption
  <2>2. NumVB \in Int
    BY ONLY <2>1 DEF NumVB
  <2> QED
    BY ONLY <2>1, <2>2 DEF CGroups, VBlocks
<1>3. /\ i <= Len(k_free) /\ j <= Len(v_free)
      /\ k_buf' = Written(k_buf, k_free, sel[1], i, c, pid, content)
      /\ v_buf' = Written(v_buf, v_free, sel[2], j, c, pid, content)
      /\ k_free' = DropFirst(k_free, i) /\ v_free' = DropFirst(v_free, j)
  BY DEF TakeSlots, content
<1>4. /\ k_free \in Seq(KSlots) /\ v_free \in Seq(VSlots)
      /\ k_buf \in [KSlots -> Payload] /\ v_buf \in [VSlots -> Payload]
  BY DEF TypeOK
<1>5. k_free' \in Seq(KSlots) /\ v_free' \in Seq(VSlots)
  <2>1. i \in 0 .. Len(k_free) /\ j \in 0 .. Len(v_free)
    BY <1>3, <1>4
  <2> QED
    BY <2>1, <1>3, <1>4, DropFirstType
<1>6. k_buf' \in [KSlots -> Payload]
  BY <1>1, <1>2, <1>3, <1>4, WrittenType
<1>7. v_buf' \in [VSlots -> Payload]
  BY <1>1, <1>2, <1>3, <1>4, WrittenType
<1> QED
  BY <1>5, <1>6, <1>7

(* The metadata a page gets is a PageMeta. *)
LEMMA SetMetaType ==
  ASSUME TypeOK, NEW c \in Lanes, NEW pid \in Pages, NEW start \in Int,
         NEW n \in 0 .. PageSize, NEW sel,
         sel[1] \in Seq(CGroups), sel[2] \in Seq(VBlocks),
         Len(sel[1]) <= Len(k_free), Len(sel[2]) <= Len(v_free),
         SetMeta(c, pid, start, n, sel)
  PROVE  meta_table' \in [Lanes -> [Pages -> PageMeta]]
<1>1. k_free \in Seq(KSlots) /\ v_free \in Seq(VSlots)
  BY DEF TypeOK
<1>2. SlotOf(CGroups, sel[1], k_free) \in [CGroups -> KSlots \cup {Unused}]
  BY <1>1, SlotOfType
<1>3. SlotOf(VBlocks, sel[2], v_free) \in [VBlocks -> VSlots \cup {Unused}]
  BY <1>1, SlotOfType
<1> DEFINE m == [token_start |-> start, num_tokens |-> n,
                 k_slots |-> SlotOf(CGroups, sel[1], k_free),
                 v_slots |-> SlotOf(VBlocks, sel[2], v_free)]
<1>4. m \in PageMeta
  BY <1>2, <1>3 DEF PageMeta
<1>5. meta_table' = [meta_table EXCEPT ![c][pid] = m]
  BY DEF SetMeta
<1> HIDE DEF m
<1> QED
  BY <1>4, <1>5 DEF TypeOK

(* The next lane of a pass is a lane. *)
LEMMA NextLaneType ==
  ASSUME TypeOK
  PROVE  NextLane \in [phase : Phases, layer : Layers, head : Heads,
                       page : Nat, pos : Nat]
<1> USE DEF Layers, Heads, Phases
<1>1. NumLayers \in Nat \ {0} /\ NumKvHeads \in Nat \ {0}
  BY ShapeAssumption
<1>2. call \in [phase : Phases, layer : Layers, head : Heads, page : Nat, pos : Nat]
  BY DEF TypeOK
<1> DEFINE l == call.layer  h == call.head
<1>3. l \in 0 .. NumLayers - 1 /\ h \in 0 .. NumKvHeads - 1
  BY <1>2
<1>4. h < NumKvHeads - 1 => h + 1 \in 0 .. NumKvHeads - 1
  BY <1>1, <1>3
<1>5. l < NumLayers - 1 => l + 1 \in 0 .. NumLayers - 1
  BY <1>1, <1>3
<1>6. 0 \in 0 .. NumKvHeads - 1
  BY <1>1
<1>7. CASE call.head < NumKvHeads - 1
  BY <1>2, <1>7, <1>4 DEF NextLane
<1>8. CASE ~ (call.head < NumKvHeads - 1) /\ call.layer < NumLayers - 1
  BY <1>2, <1>8, <1>5, <1>6 DEF NextLane
<1>9. CASE ~ (call.head < NumKvHeads - 1) /\ ~ (call.layer < NumLayers - 1)
  BY <1>2, <1>9 DEF NextLane
<1> QED
  BY <1>7, <1>8, <1>9

-------------------------------------------------------------------------------
(* Type correctness *)

(* While a pass runs there is a token to write: the page counter of a      *)
(* prefill is inside the prompt.                                           *)
InPrompt ==
  /\ call.phase = "prefill" => call.page * PageSize < Len(input_ids)
  /\ call.phase = "decode" => input_ids # <<>>

TypeInv == TypeOK /\ InPrompt

(* The lane of a call is a lane. *)
LEMMA LaneType == TypeOK => Lane \in Lanes
  BY DEF TypeOK, Lane, Lanes

(* A new cache is well typed. *)
LEMMA EmptyCacheType ==
  /\ EmptyCache.next_page \in [Lanes -> 0 .. MaxPages]
  /\ EmptyCache.valid_tokens \in [Lanes -> [Pages -> 0 .. PageSize]]
  /\ EmptyCache.rows \in [Lanes -> [Pages -> [Rows -> Token \cup {Zero}]]]
  /\ EmptyCache.meta_table \in [Lanes -> [Pages -> PageMeta]]
  /\ EmptyCache.k_free \in Seq(KSlots) /\ EmptyCache.v_free \in Seq(VSlots)
  /\ EmptyCache.k_buf \in [KSlots -> Payload]
  /\ EmptyCache.v_buf \in [VSlots -> Payload]
<1>1. 0 \in 0 .. MaxPages /\ 0 \in 0 .. PageSize
  BY ShapeAssumption
<1>2. NoMeta \in PageMeta
  BY <1>1 DEF NoMeta, PageMeta
<1>3. /\ EmptyCache.k_free \in [1 .. KArena -> KSlots]
      /\ EmptyCache.v_free \in [1 .. VArena -> VSlots]
  BY ShapeAssumption DEF EmptyCache, KSlots, VSlots
<1>4. KArena \in Nat /\ VArena \in Nat
  BY ShapeAssumption
<1>5. EmptyCache.k_free \in Seq(KSlots) /\ EmptyCache.v_free \in Seq(VSlots)
  BY <1>3, <1>4
<1>6. <<>> \in Payload
  BY DEF Payload
<1>7. /\ EmptyCache.k_buf \in [KSlots -> Payload]
      /\ EmptyCache.v_buf \in [VSlots -> Payload]
  BY <1>6 DEF EmptyCache
<1>8. EmptyCache.meta_table \in [Lanes -> [Pages -> PageMeta]]
  BY <1>2 DEF EmptyCache
<1> QED
  BY <1>1, <1>5, <1>7, <1>8 DEF EmptyCache

(* Writing a page of the prompt keeps the pages well typed. *)
LEMMA WriteChunkType ==
  ASSUME TypeInv, call.phase = "prefill", NEW c \in Lanes, NEW pid \in Nat,
         WriteChunk(c, pid)
  PROVE  /\ pid \in Pages /\ ChunkLen \in 0 .. PageSize /\ ChunkStart \in Nat
         /\ next_page' \in [Lanes -> 0 .. MaxPages]
         /\ valid_tokens' \in [Lanes -> [Pages -> 0 .. PageSize]]
         /\ rows' \in [Lanes -> [Pages -> [Rows -> Token \cup {Zero}]]]
<1>1. /\ PageSize \in Nat \ {0} /\ MaxPages \in Nat
      /\ call.page \in Nat /\ input_ids \in Seq(Token)
  BY ShapeAssumption DEF TypeInv, TypeOK
<1>2. ChunkStart \in Nat /\ ChunkStart < Len(input_ids)
  BY <1>1 DEF TypeInv, InPrompt, ChunkStart
<1>3. /\ ChunkLen \in 0 .. PageSize
      /\ ChunkStart + ChunkLen <= Len(input_ids)
  BY <1>1, <1>2 DEF ChunkLen
<1>4. pid \in Pages /\ pid + 1 \in 0 .. MaxPages
  BY <1>1 DEF WriteChunk, Pages
<1> DEFINE page == [t \in Rows |-> IF t < ChunkLen THEN input_ids[ChunkStart + t + 1]
                                   ELSE Zero]
<1>5. page \in [Rows -> Token \cup {Zero}]
  <2> SUFFICES ASSUME NEW t \in Rows, t < ChunkLen
               PROVE  input_ids[ChunkStart + t + 1] \in Token
    OBVIOUS
  <2>1. ChunkStart + t + 1 \in 1 .. Len(input_ids)
    BY <1>1, <1>2, <1>3 DEF Rows
  <2> QED
    BY <1>1, <2>1
<1>6. /\ next_page' = [next_page EXCEPT ![c] = pid + 1]
      /\ valid_tokens' = [valid_tokens EXCEPT ![c][pid] = ChunkLen]
      /\ rows' = [rows EXCEPT ![c][pid] = page]
  BY DEF WriteChunk
<1>7. /\ next_page \in [Lanes -> 0 .. MaxPages]
      /\ valid_tokens \in [Lanes -> [Pages -> 0 .. PageSize]]
      /\ rows \in [Lanes -> [Pages -> [Rows -> Token \cup {Zero}]]]
  BY DEF TypeInv, TypeOK
<1> HIDE DEF page
<1> QED
  BY <1>2, <1>3, <1>4, <1>5, <1>6, <1>7

(* A decode step appends inside a page. *)
LEMMA AppendRowType ==
  ASSUME TypeInv, call.phase = "decode", NEW c \in Lanes,
         AppendRow(c, DecodePage(c), DecodeOffset(c))
  PROVE  /\ DecodePage(c) \in Pages /\ DecodeOffset(c) \in Rows
         /\ next_page' \in [Lanes -> 0 .. MaxPages]
         /\ valid_tokens' \in [Lanes -> [Pages -> 0 .. PageSize]]
         /\ rows' \in [Lanes -> [Pages -> [Rows -> Token \cup {Zero}]]]
<1> DEFINE pid == DecodePage(c)
           offset == DecodeOffset(c)
<1>1. /\ PageSize \in Nat \ {0} /\ MaxPages \in Nat
      /\ next_page[c] \in 0 .. MaxPages /\ input_ids \in Seq(Token)
      /\ valid_tokens \in [Lanes -> [Pages -> 0 .. PageSize]]
  BY ShapeAssumption DEF TypeInv, TypeOK
<1>2. pid \in Nat /\ pid < MaxPages
  BY <1>1 DEF DecodePage, get_open_page, Unused, AppendRow
<1>3. pid \in Pages /\ pid + 1 \in 0 .. MaxPages
  BY <1>1, <1>2 DEF Pages
<1>4. offset \in Rows /\ offset + 1 \in 0 .. PageSize
  <2>1. CASE get_open_page(c) = Unused
    BY <1>1, <2>1 DEF DecodeOffset, Rows
  <2>2. CASE get_open_page(c) # Unused
    <3> DEFINE last == next_page[c] - 1
    <3>1. /\ get_open_page(c) = last /\ next_page[c] > 0
          /\ valid_tokens[c][last] < PageSize
      BY <2>2 DEF get_open_page
    <3>2. last \in Pages
      BY <1>1, <3>1 DEF Pages
    <3>3. valid_tokens[c][last] \in 0 .. PageSize
      BY <1>1, <3>2
    <3> QED
      BY <1>1, <2>2, <3>1, <3>3 DEF DecodeOffset, Rows
  <2> QED
    BY <2>1, <2>2
<1>5. input_ids[Len(input_ids)] \in Token
  BY <1>1 DEF TypeInv, InPrompt
<1>6. /\ next_page' = [next_page EXCEPT ![c] = pid + 1]
      /\ valid_tokens' = [valid_tokens EXCEPT ![c][pid] = offset + 1]
      /\ rows' = [rows EXCEPT ![c][pid][offset] = input_ids[Len(input_ids)]]
  BY DEF AppendRow
<1>7. /\ next_page \in [Lanes -> 0 .. MaxPages]
      /\ rows \in [Lanes -> [Pages -> [Rows -> Token \cup {Zero}]]]
  BY DEF TypeInv, TypeOK
<1> HIDE DEF pid, offset
<1>8. rows' \in [Lanes -> [Pages -> [Rows -> Token \cup {Zero}]]]
  <2>1. rows[c][pid] \in [Rows -> Token \cup {Zero}]
    BY <1>3, <1>7
  <2>2. [rows[c][pid] EXCEPT ![offset] = input_ids[Len(input_ids)]]
          \in [Rows -> Token \cup {Zero}]
    BY <1>5, <2>1
  <2> QED
    BY <1>3, <1>6, <1>7, <2>2
<1>9. valid_tokens' \in [Lanes -> [Pages -> 0 .. PageSize]]
  BY <1>1, <1>3, <1>4, <1>6
<1>10. next_page' \in [Lanes -> 0 .. MaxPages]
  BY <1>3, <1>6, <1>7
<1> QED
  BY <1>3, <1>4, <1>8, <1>9, <1>10 DEF pid, offset

(* A step that ends in a failed process_page keeps the types. *)
LEMMA StoreFailsType ==
  ASSUME TypeOK, NEW c \in Lanes, NEW pid \in Pages, NEW n \in 0 .. PageSize, NEW sel,
         sel[1] \in Seq(CGroups), sel[2] \in Seq(VBlocks),
         rows' \in [Lanes -> [Pages -> [Rows -> Token \cup {Zero}]]],
         StoreFails(c, pid, n, sel)
  PROVE  /\ k_free' \in Seq(KSlots) /\ v_free' \in Seq(VSlots)
         /\ k_buf' \in [KSlots -> Payload] /\ v_buf' \in [VSlots -> Payload]
         /\ meta_table' \in [Lanes -> [Pages -> PageMeta]]
<1>1. PICK i \in 0 .. Len(sel[1]), j \in 0 .. Len(sel[2]) : TakeSlots(c, pid, n, sel, i, j)
  BY DEF StoreFails
<1>2. meta_table' = meta_table
  BY DEF StoreFails
<1> QED
  BY <1>1, <1>2, TakeSlotsType DEF TypeOK

(* So does one whose process_page succeeds. *)
LEMMA StoreResidualsType ==
  ASSUME TypeOK, NEW c \in Lanes, NEW pid \in Pages, NEW start \in Int,
         NEW n \in 0 .. PageSize, NEW sel,
         sel[1] \in Seq(CGroups), sel[2] \in Seq(VBlocks),
         rows' \in [Lanes -> [Pages -> [Rows -> Token \cup {Zero}]]],
         StoreResiduals(c, pid, start, n, sel)
  PROVE  /\ k_free' \in Seq(KSlots) /\ v_free' \in Seq(VSlots)
         /\ k_buf' \in [KSlots -> Payload] /\ v_buf' \in [VSlots -> Payload]
         /\ meta_table' \in [Lanes -> [Pages -> PageMeta]]
<1>1. TakeSlots(c, pid, n, sel, Len(sel[1]), Len(sel[2])) /\ SetMeta(c, pid, start, n, sel)
  BY DEF StoreResiduals
<1>2. Len(sel[1]) \in 0 .. Len(sel[1]) /\ Len(sel[2]) \in 0 .. Len(sel[2])
  BY LenProperties
<1>3. Len(sel[1]) <= Len(k_free) /\ Len(sel[2]) <= Len(v_free)
  BY <1>1 DEF TakeSlots
<1>4. /\ k_free' \in Seq(KSlots) /\ v_free' \in Seq(VSlots)
      /\ k_buf' \in [KSlots -> Payload] /\ v_buf' \in [VSlots -> Payload]
  BY <1>1, <1>2, TakeSlotsType
<1>5. meta_table' \in [Lanes -> [Pages -> PageMeta]]
  BY <1>1, <1>3, SetMetaType
<1> QED
  BY <1>4, <1>5

LEMMA TypeInvInit == Init => TypeInv
<1> SUFFICES ASSUME Init PROVE TypeInv
  OBVIOUS
<1>1. call \in [phase : Phases, layer : Layers, head : Heads, page : Nat, pos : Nat]
  BY ShapeAssumption DEF Init, Phases, Layers, Heads
<1>2. input_ids \in Seq(Token)
  BY DEF Init
<1>3. InPrompt
  BY DEF Init, InPrompt
<1> QED
  BY <1>1, <1>2, <1>3, EmptyCacheType DEF Init, TypeInv, TypeOK

LEMMA TypeInvStep == TypeInv /\ [Next]_vars => TypeInv'
<1> SUFFICES ASSUME TypeInv, [Next]_vars PROVE TypeInv'
  OBVIOUS
<1> DEFINE Calls == [phase : Phases, layer : Layers, head : Heads, page : Nat, pos : Nat]
<1>0. /\ TypeOK /\ Lane \in Lanes /\ call \in Calls /\ input_ids \in Seq(Token)
      /\ PageSize \in Nat \ {0} /\ next_page[Lane] \in Nat
  <2>1. TypeOK /\ Lane \in Lanes
    BY LaneType DEF TypeInv
  <2>2. call \in Calls /\ input_ids \in Seq(Token) /\ next_page \in [Lanes -> 0 .. MaxPages]
    BY <2>1 DEF TypeOK
  <2>3. PageSize \in Nat \ {0} /\ next_page[Lane] \in Nat
    BY <2>1, <2>2, ShapeAssumption
  <2> QED
    BY <2>1, <2>2, <2>3
<1>1. CASE BeginPrefill
  <2>1. PICK n \in 1 .. MaxPrompt : input_ids' \in [1 .. n -> Token]
    BY <1>1 DEF BeginPrefill
  <2>2. input_ids' \in Seq(Token) /\ Len(input_ids') >= 1
    BY <2>1
  <2>3. call' = [phase |-> "prefill", layer |-> 0, head |-> 0, page |-> 0, pos |-> 0]
    BY <1>1 DEF BeginPrefill
  <2>4. call' \in Calls
    BY <2>3, ShapeAssumption DEF Phases, Layers, Heads
  <2>5. InPrompt'
    BY <1>0, <2>2, <2>3 DEF InPrompt
  <2>6. NewCache
    BY <1>1 DEF BeginPrefill
  <2> QED
    BY <2>2, <2>4, <2>5, <2>6, EmptyCacheType DEF NewCache, TypeInv, TypeOK
<1>2. CASE PrefillPage
  <2> DEFINE pid == next_page[Lane]
  <2>1. call.phase = "prefill" /\ WriteChunk(Lane, pid) /\ input_ids' = input_ids
    BY <1>2 DEF PrefillPage
  <2>2. /\ pid \in Pages /\ ChunkLen \in 0 .. PageSize /\ ChunkStart \in Nat
        /\ next_page' \in [Lanes -> 0 .. MaxPages]
        /\ valid_tokens' \in [Lanes -> [Pages -> 0 .. PageSize]]
        /\ rows' \in [Lanes -> [Pages -> [Rows -> Token \cup {Zero}]]]
    BY <1>0, <2>1, WriteChunkType
  <2>3. PICK sel \in Selections(call.layer, ChunkLen) :
           StoreResiduals(Lane, pid, ChunkStart, ChunkLen, sel)
    BY <1>2 DEF PrefillPage
  <2>4. sel[1] \in Seq(CGroups) /\ sel[2] \in Seq(VBlocks)
    BY <1>0, <2>2, SelectionsType
  <2>5. /\ k_free' \in Seq(KSlots) /\ v_free' \in Seq(VSlots)
        /\ k_buf' \in [KSlots -> Payload] /\ v_buf' \in [VSlots -> Payload]
        /\ meta_table' \in [Lanes -> [Pages -> PageMeta]]
    <3>1. ChunkStart \in Int
      BY <2>2
    <3> QED
      BY <1>0, <2>2, <2>3, <2>4, <3>1, StoreResidualsType
  <2>6. call' \in Calls /\ InPrompt'
    <3>1. CASE ChunkStart + PageSize < Len(input_ids)
      <4>1. call' = [call EXCEPT !.page = @ + 1]
        BY <1>2, <3>1 DEF PrefillPage
      <4>2. call'.page * PageSize = call.page * PageSize + PageSize
        BY <1>0, <4>1
      <4>3. call' \in Calls /\ call'.phase = "prefill"
        BY <1>0, <2>1, <4>1
      <4> QED
        BY <2>1, <3>1, <4>2, <4>3 DEF InPrompt, ChunkStart
    <3>2. CASE ~ (ChunkStart + PageSize < Len(input_ids))
      <4>1. call' = NextLane
        BY <1>2, <3>2 DEF PrefillPage
      <4>2. call' \in Calls
        BY <1>0, <4>1, NextLaneType
      <4>3. call'.phase = "idle" \/ (call'.phase = "prefill" /\ call'.page = 0)
        BY <1>0, <2>1, <4>1 DEF NextLane
      <4>4. 0 * PageSize < Len(input_ids)
        BY <1>0, <2>1 DEF TypeInv, InPrompt
      <4> QED
        BY <2>1, <4>2, <4>3, <4>4 DEF InPrompt
    <3> QED
      BY <3>1, <3>2
  <2> QED
    BY <1>0, <2>1, <2>2, <2>5, <2>6 DEF TypeInv, TypeOK
<1>3. CASE PrefillNoSlot
  <2> DEFINE pid == next_page[Lane]
  <2>1. /\ call.phase = "prefill" /\ WriteChunk(Lane, pid) /\ input_ids' = input_ids
        /\ call' = [call EXCEPT !.phase = "slots_full"]
    BY <1>3 DEF PrefillNoSlot, Raise
  <2>2. /\ pid \in Pages /\ ChunkLen \in 0 .. PageSize
        /\ next_page' \in [Lanes -> 0 .. MaxPages]
        /\ valid_tokens' \in [Lanes -> [Pages -> 0 .. PageSize]]
        /\ rows' \in [Lanes -> [Pages -> [Rows -> Token \cup {Zero}]]]
    BY <1>0, <2>1, WriteChunkType
  <2>3. PICK sel \in Selections(call.layer, ChunkLen) :
           StoreFails(Lane, pid, ChunkLen, sel)
    BY <1>3 DEF PrefillNoSlot
  <2>4. sel[1] \in Seq(CGroups) /\ sel[2] \in Seq(VBlocks)
    BY <1>0, <2>2, SelectionsType
  <2>5. /\ k_free' \in Seq(KSlots) /\ v_free' \in Seq(VSlots)
        /\ k_buf' \in [KSlots -> Payload] /\ v_buf' \in [VSlots -> Payload]
        /\ meta_table' \in [Lanes -> [Pages -> PageMeta]]
    BY <1>0, <2>2, <2>3, <2>4, StoreFailsType
  <2>6. call' \in Calls /\ InPrompt'
    BY <1>0, <2>1 DEF InPrompt, Phases
  <2> QED
    BY <1>0, <2>1, <2>2, <2>5, <2>6 DEF TypeInv, TypeOK
<1>4. CASE BeginDecode
  <2>1. PICK tok \in Token : input_ids' = Append(input_ids, tok)
    BY <1>4 DEF BeginDecode
  <2>2. input_ids' \in Seq(Token) /\ input_ids' # <<>>
    BY <1>0, <2>1
  <2>3. call' = [phase |-> "decode", layer |-> 0, head |-> 0, page |-> 0,
                 pos |-> total_valid_tokens(<<0, 0>>)]
    BY <1>4 DEF BeginDecode
  <2>4. <<0, 0>> \in Lanes
    BY ShapeAssumption DEF Lanes, Layers, Heads
  <2>5. call' \in Calls
    <3>1. total_valid_tokens(<<0, 0>>) \in Nat
      BY <1>0, <2>4, TotalType
    <3> QED
      BY <2>3, <3>1, ShapeAssumption DEF Phases, Layers, Heads
  <2>6. InPrompt'
    BY <2>2, <2>3 DEF InPrompt
  <2> QED
    BY <1>0, <1>4, <2>2, <2>5, <2>6 DEF BeginDecode, store, TypeInv, TypeOK
<1>5. CASE DecodeHead
  <2> DEFINE pid == DecodePage(Lane)
             offset == DecodeOffset(Lane)
  <2>1. /\ call.phase = "decode" /\ AppendRow(Lane, pid, offset)
        /\ input_ids' = input_ids /\ call' = AfterDecode
    BY <1>5 DEF DecodeHead
  <2>2. /\ pid \in Pages /\ offset \in Rows
        /\ next_page' \in [Lanes -> 0 .. MaxPages]
        /\ valid_tokens' \in [Lanes -> [Pages -> 0 .. PageSize]]
        /\ rows' \in [Lanes -> [Pages -> [Rows -> Token \cup {Zero}]]]
    BY <1>0, <2>1, AppendRowType
  <2>3. /\ k_free' \in Seq(KSlots) /\ v_free' \in Seq(VSlots)
        /\ k_buf' \in [KSlots -> Payload] /\ v_buf' \in [VSlots -> Payload]
        /\ meta_table' \in [Lanes -> [Pages -> PageMeta]]
    <3>1. CASE PageFilled(offset)
      <4>1. PICK sel \in DecodeSelections(call.layer) :
               StoreResiduals(Lane, pid, call.pos + 1 - PageSize, PageSize, sel)
        BY <1>5, <3>1 DEF DecodeHead
      <4>2. sel[1] \in Seq(CGroups) /\ sel[2] \in Seq(VBlocks)
        BY <1>0, DecodeSelectionsType
      <4>3. PageSize \in 0 .. PageSize /\ call.pos + 1 - PageSize \in Int
        BY <1>0
      <4> QED
        BY <1>0, <2>2, <4>1, <4>2, <4>3, StoreResidualsType
    <3>2. CASE ~ PageFilled(offset)
      BY <1>0, <1>5, <3>2 DEF DecodeHead, KeepResiduals, TypeOK
    <3> QED
      BY <3>1, <3>2
  <2>4. NextLane \in Calls
    BY <1>0, NextLaneType
  <2>5. call' \in Calls
    <3>1. CASE NextLane.layer = call.layer
      BY <2>1, <2>4, <3>1 DEF AfterDecode
    <3>2. CASE NextLane.layer # call.layer
      <4>1. <<NextLane.layer, 0>> \in Lanes
        BY <2>4, ShapeAssumption DEF Lanes, Heads
      <4>2. total_valid_tokens(<<NextLane.layer, 0>>) \in Nat
        BY <1>0, <4>1, TotalType
      <4> QED
        BY <2>1, <2>4, <3>2, <4>2 DEF AfterDecode
    <3> QED
      BY <3>1, <3>2
  <2>6. InPrompt'
    <3>1. call'.phase \in {"idle", "decode"}
      BY <1>0, <2>1 DEF AfterDecode, NextLane
    <3> QED
      BY <2>1, <3>1 DEF TypeInv, InPrompt
  <2> QED
    BY <1>0, <2>1, <2>2, <2>3, <2>5, <2>6 DEF TypeInv, TypeOK
<1>6. CASE DecodeNoSlot
  <2> DEFINE pid == DecodePage(Lane)
             offset == DecodeOffset(Lane)
  <2>1. /\ call.phase = "decode" /\ AppendRow(Lane, pid, offset)
        /\ input_ids' = input_ids /\ call' = [call EXCEPT !.phase = "slots_full"]
    BY <1>6 DEF DecodeNoSlot, Raise
  <2>2. /\ pid \in Pages /\ offset \in Rows
        /\ next_page' \in [Lanes -> 0 .. MaxPages]
        /\ valid_tokens' \in [Lanes -> [Pages -> 0 .. PageSize]]
        /\ rows' \in [Lanes -> [Pages -> [Rows -> Token \cup {Zero}]]]
    BY <1>0, <2>1, AppendRowType
  <2>3. PICK sel \in DecodeSelections(call.layer) : StoreFails(Lane, pid, PageSize, sel)
    BY <1>6 DEF DecodeNoSlot
  <2>4. sel[1] \in Seq(CGroups) /\ sel[2] \in Seq(VBlocks)
    BY <1>0, DecodeSelectionsType
  <2>5. PageSize \in 0 .. PageSize
    BY <1>0
  <2>6. /\ k_free' \in Seq(KSlots) /\ v_free' \in Seq(VSlots)
        /\ k_buf' \in [KSlots -> Payload] /\ v_buf' \in [VSlots -> Payload]
        /\ meta_table' \in [Lanes -> [Pages -> PageMeta]]
    BY <1>0, <2>2, <2>3, <2>4, <2>5, StoreFailsType
  <2>7. call' \in Calls /\ InPrompt'
    BY <1>0, <2>1 DEF InPrompt, Phases
  <2> QED
    BY <1>0, <2>1, <2>2, <2>6, <2>7 DEF TypeInv, TypeOK
<1>7. CASE CacheFull
  <2>1. call' = [call EXCEPT !.phase = "pages_full"] /\ UNCHANGED <<store, input_ids>>
    BY <1>7 DEF CacheFull, Raise
  <2>2. call' \in Calls /\ InPrompt'
    BY <1>0, <2>1 DEF InPrompt, Phases
  <2> QED
    BY <1>0, <2>1, <2>2 DEF store, TypeInv, TypeOK
<1>8. CASE UNCHANGED vars
  BY <1>8 DEF vars, TypeInv, TypeOK, InPrompt, PageMeta, Payload
<1> QED
  BY <1>1, <1>2, <1>3, <1>4, <1>5, <1>6, <1>7, <1>8 DEF Next

(* Type correctness: the cache never writes outside a page or a lane, for  *)
(* any prompt, number of decode steps and outcome of the residual filter.  *)
THEOREM TypeCorrect == Spec => []TypeOK
<1>1. Spec => []TypeInv
  BY TypeInvInit, TypeInvStep, PTL DEF Spec
<1>2. TypeInv => TypeOK
  BY DEF TypeInv
<1> QED
  BY <1>1, <1>2, PTL

-------------------------------------------------------------------------------
(* Residual slots *)

Refs(Groups) == Lanes \X Pages \X Groups

(* No slot is referred to twice, and none that is referred to is free. *)
Exclusive(free, slot, Groups) ==
  /\ IsInjective(free)
  /\ \A r \in Refs(Groups) : slot[r] # Unused =>
       /\ \A i \in 1 .. Len(free) : free[i] # slot[r]
       /\ \A q \in Refs(Groups) : slot[q] = slot[r] => q = r

(* A payload was computed from what its page holds. *)
Matches(buf, slot, Groups, content) ==
  \A r \in Refs(Groups) : slot[r] # Unused =>
    buf[slot[r]] = <<r[1], r[2], r[3], content[r[1]][r[2]]>>

(* The slots of page p of lane c are now those of m. *)
PageSlots(slot, c, p, m, Groups) ==
  [r \in Refs(Groups) |-> IF r[1] = c /\ r[2] = p THEN m[r[3]] ELSE slot[r]]

(* The references of an arena are slots of it. *)
SlotsOf(slot, Slots, Groups) == \A r \in Refs(Groups) : slot[r] \in Slots \cup {Unused}

(* Only what page p of lane c holds differs. *)
SameElsewhere(content, content2, c, p) ==
  \A d \in Lanes, q \in Pages : d # c \/ q # p => content2[d][q] = content[d][q]

-------------------------------------------------------------------------------
(* One arena *)

(* A slot taken from the free list is not free any more. *)
LEMMA ExclusiveDrop ==
  ASSUME NEW Slots, NEW Groups, NEW free \in Seq(Slots), NEW n \in 0 .. Len(free),
         NEW slot, Exclusive(free, slot, Groups)
  PROVE  Exclusive(DropFirst(free, n), slot, Groups)
<1> DEFINE rest == DropFirst(free, n)
<1>1. /\ rest \in Seq(Slots) /\ Len(rest) = Len(free) - n /\ Len(free) \in Nat
      /\ \A i \in 1 .. Len(free) - n : rest[i] = free[n + i]
  <2>1. Len(free) \in Nat
    OBVIOUS
  <2> QED
    BY <2>1, DropFirstType
<1> HIDE DEF rest
<1>2. IsInjective(rest)
  <2>1. DOMAIN rest = 1 .. Len(free) - n /\ DOMAIN free = 1 .. Len(free)
    BY <1>1
  <2>2. \A i \in 1 .. Len(free) - n : n + i \in 1 .. Len(free)
    BY <1>1
  <2>3. \A i, j \in 1 .. Len(free) - n : free[n + i] = free[n + j] => n + i = n + j
    BY <2>1, <2>2 DEF Exclusive, IsInjective
  <2> SUFFICES ASSUME NEW i \in 1 .. Len(free) - n, NEW j \in 1 .. Len(free) - n,
                      rest[i] = rest[j]
               PROVE  i = j
    BY <2>1 DEF IsInjective
  <2>4. n + i = n + j
    BY <1>1, <2>3
  <2> QED
    BY <1>1, <2>4
<1>3. \A i \in 1 .. Len(rest) : \E j \in 1 .. Len(free) : rest[i] = free[j]
  <2> SUFFICES ASSUME NEW i \in 1 .. Len(rest)
               PROVE  \E j \in 1 .. Len(free) : rest[i] = free[j]
    OBVIOUS
  <2>1. rest[i] = free[n + i] /\ n + i \in 1 .. Len(free)
    BY <1>1
  <2> QED
    BY <2>1
<1> QED
  BY <1>2, <1>3 DEF Exclusive, rest

(* Which slot a picked group gets. *)
LEMMA SlotOfPick ==
  ASSUME NEW Groups, NEW picked \in Seq(Groups), NEW free, NEW g \in Groups
  PROVE  \/ SlotOf(Groups, picked, free)[g] = Unused
         \/ \E k \in 1 .. Len(picked) :
              picked[k] = g /\ SlotOf(Groups, picked, free)[g] = free[k]
<1>1. CASE \E i \in 1 .. Len(picked) : picked[i] = g
  <2> DEFINE k == CHOOSE i \in 1 .. Len(picked) : picked[i] = g
  <2>1. k \in 1 .. Len(picked) /\ picked[k] = g
    BY <1>1
  <2>2. SlotOf(Groups, picked, free)[g] = free[k]
    BY <1>1 DEF SlotOf
  <2> QED
    BY <2>1, <2>2
<1>2. CASE ~ \E i \in 1 .. Len(picked) : picked[i] = g
  BY <1>2 DEF SlotOf
<1> QED
  BY <1>1, <1>2

(* Handing out slots to the picked groups of a page. *)
LEMMA ExclusiveTake ==
  ASSUME NEW Slots, Unused \notin Slots, NEW Groups,
         NEW free \in Seq(Slots), NEW picked \in Seq(Groups), IsInjective(picked),
         Len(picked) <= Len(free), NEW slot, Exclusive(free, slot, Groups),
         NEW c \in Lanes, NEW p \in Pages, NEW slot2,
         slot2 = PageSlots(slot, c, p, SlotOf(Groups, picked, free), Groups)
  PROVE  Exclusive(DropFirst(free, Len(picked)), slot2, Groups)
<1> DEFINE m == SlotOf(Groups, picked, free)
           n == Len(picked)
           rest == DropFirst(free, n)
<1>1. /\ n \in Nat /\ n \in 0 .. Len(free) /\ Len(free) \in Nat
      /\ DOMAIN free = 1 .. Len(free)
  OBVIOUS
<1>2. /\ Len(rest) = Len(free) - n
      /\ \A i \in 1 .. Len(free) - n : rest[i] = free[n + i]
  BY <1>1, DropFirstType
<1>3. Exclusive(rest, slot, Groups)
  BY <1>1, ExclusiveDrop
<1>4. \A g \in Groups : m[g] # Unused =>
        \E k \in 1 .. n : picked[k] = g /\ m[g] = free[k]
  BY SlotOfPick
<1>5. \A i, j \in 1 .. Len(free) : free[i] = free[j] => i = j
  BY <1>1 DEF Exclusive, IsInjective
<1> HIDE DEF m, n, rest
<1>6. \A k \in 1 .. n : /\ k \in 1 .. Len(free)
                        /\ \A i \in 1 .. Len(free) - n : rest[i] # free[k]
  <2> SUFFICES ASSUME NEW k \in 1 .. n, NEW i \in 1 .. Len(free) - n
               PROVE  k \in 1 .. Len(free) /\ rest[i] # free[k]
    BY <1>1
  <2>1. k \in 1 .. Len(free) /\ n + i \in 1 .. Len(free) /\ n + i # k
    BY <1>1
  <2> QED
    BY <1>2, <1>5, <2>1
<1>7. \A r \in Refs(Groups) :
         slot2[r] = IF r[1] = c /\ r[2] = p THEN m[r[3]] ELSE slot[r]
  BY DEF PageSlots, m
<1>8. \A r \in Refs(Groups) : r[3] \in Groups /\ r = <<r[1], r[2], r[3]>>
  BY DEF Refs
<1> SUFFICES ASSUME NEW r \in Refs(Groups), slot2[r] # Unused
             PROVE  /\ \A i \in 1 .. Len(rest) : rest[i] # slot2[r]
                    /\ \A q \in Refs(Groups) : slot2[q] = slot2[r] => q = r
  BY <1>3 DEF Exclusive, rest, n
<1>9. CASE r[1] = c /\ r[2] = p
  <2>1. PICK k \in 1 .. n : picked[k] = r[3] /\ slot2[r] = free[k]
    BY <1>4, <1>7, <1>8, <1>9
  <2>2. \A i \in 1 .. Len(rest) : rest[i] # slot2[r]
    BY <1>2, <1>6, <2>1
  <2>3. ASSUME NEW q \in Refs(Groups), slot2[q] = slot2[r] PROVE q = r
    <3>1. CASE q[1] = c /\ q[2] = p
      <4>1. PICK j \in 1 .. n : picked[j] = q[3] /\ slot2[q] = free[j]
        BY <1>4, <1>7, <1>8, <2>3, <3>1
      <4>2. j = k
        BY <1>5, <1>6, <2>1, <2>3, <4>1
      <4> QED
        BY <1>8, <1>9, <2>1, <3>1, <4>1, <4>2
    <3>2. CASE ~ (q[1] = c /\ q[2] = p)
      <4>1. slot2[q] = slot[q] /\ slot[q] # Unused
        BY <1>7, <2>3, <3>2
      <4>2. free[k] # slot[q]
        BY <1>6, <4>1 DEF Exclusive
      <4> QED
        BY <2>1, <2>3, <4>1, <4>2
    <3> QED
      BY <3>1, <3>2
  <2> QED
    BY <2>2, <2>3
<1>10. CASE ~ (r[1] = c /\ r[2] = p)
  <2>1. slot2[r] = slot[r]
    BY <1>7, <1>10
  <2>2. \A i \in 1 .. Len(rest) : rest[i] # slot2[r]
    BY <1>3, <2>1 DEF Exclusive
  <2>3. ASSUME NEW q \in Refs(Groups), slot2[q] = slot2[r] PROVE q = r
    <3>1. CASE q[1] = c /\ q[2] = p
      <4>1. PICK j \in 1 .. n : slot2[q] = free[j]
        BY <1>4, <1>7, <1>8, <2>3, <3>1
      <4>2. free[j] # slot[r]
        BY <1>6, <2>1 DEF Exclusive
      <4> QED
        BY <2>1, <2>3, <4>1, <4>2
    <3>2. CASE ~ (q[1] = c /\ q[2] = p)
      BY <1>7, <2>1, <2>3, <3>2 DEF Exclusive
    <3> QED
      BY <3>1, <3>2
  <2> QED
    BY <2>2, <2>3
<1> QED
  BY <1>9, <1>10

(* A write leaves every slot alone that was not free. *)
LEMMA WrittenElsewhere ==
  ASSUME NEW Slots, NEW buf \in [Slots -> Payload], NEW free, NEW picked, NEW n \in Nat,
         NEW c, NEW p, NEW content, NEW s \in Slots, \A i \in 1 .. n : free[i] # s
  PROVE  Written(buf, free, picked, n, c, p, content)[s] = buf[s]
<1> QED
  BY DEF Written

(* No other of the first n slots is the k-th. *)
OnlyAt(free, n, k) == \A i \in 1 .. n : free[i] = free[k] => i = k

(* A slot handed out holds the payload of the group that got it. *)
LEMMA WrittenAt ==
  ASSUME NEW buf, NEW free, NEW picked, NEW n, NEW c, NEW p, NEW content,
         NEW k \in 1 .. n, free[k] \in DOMAIN buf,
         OnlyAt(free, n, k)
  PROVE  Written(buf, free, picked, n, c, p, content)[free[k]]
           = <<c, p, picked[k], content>>
<1> DEFINE j == CHOOSE i \in 1 .. n : free[i] = free[k]
<1>1. j \in 1 .. n /\ free[j] = free[k]
  OBVIOUS
<1>2. j = k
  BY <1>1 DEF OnlyAt
<1>3. Written(buf, free, picked, n, c, p, content)[free[k]]
        = <<c, p, picked[j], content>>
  BY DEF Written
<1> QED
  BY <1>2, <1>3

(* Slots taken for a page whose metadata is not written: the payloads the  *)
(* metadata refers to stay what they are.                                  *)
LEMMA MatchesTake ==
  ASSUME NEW Slots, NEW Groups, NEW buf \in [Slots -> Payload],
         NEW free \in Seq(Slots), NEW picked, NEW n \in 0 .. Len(free),
         NEW slot, SlotsOf(slot, Slots, Groups),
         Exclusive(free, slot, Groups), NEW content,
         Matches(buf, slot, Groups, content),
         NEW c, NEW p, NEW page
  PROVE  Matches(Written(buf, free, picked, n, c, p, page), slot, Groups, content)
<1> DEFINE buf2 == Written(buf, free, picked, n, c, p, page)
<1> SUFFICES ASSUME NEW r \in Refs(Groups), slot[r] # Unused
             PROVE  buf2[slot[r]] = buf[slot[r]]
  BY DEF Matches
<1>1. \A i \in 1 .. n : free[i] # slot[r]
  BY DEF Exclusive
<1>2. slot[r] \in Slots /\ n \in Nat
  BY DEF SlotsOf
<1> QED
  BY <1>1, <1>2, WrittenElsewhere

(* Slots taken for a page whose metadata then refers to them. *)
LEMMA MatchesProcess ==
  ASSUME NEW Slots, Unused \notin Slots, NEW Groups, NEW buf \in [Slots -> Payload],
         NEW free \in Seq(Slots), NEW picked \in Seq(Groups),
         Len(picked) <= Len(free),
         NEW slot, SlotsOf(slot, Slots, Groups),
         Exclusive(free, slot, Groups), NEW content,
         Matches(buf, slot, Groups, content),
         NEW c \in Lanes, NEW p \in Pages, NEW page, NEW slot2, NEW content2,
         slot2 = PageSlots(slot, c, p, SlotOf(Groups, picked, free), Groups),
         content2[c][p] = page, SameElsewhere(content, content2, c, p)
  PROVE  Matches(Written(buf, free, picked, Len(picked), c, p, page), slot2, Groups,
                 content2)
<1> DEFINE m == SlotOf(Groups, picked, free)
           n == Len(picked)
           buf2 == Written(buf, free, picked, n, c, p, page)
<1>1. n \in Nat /\ n \in 0 .. Len(free) /\ IsInjective(free)
  BY DEF Exclusive
<1>2. Matches(buf2, slot, Groups, content)
  BY <1>1, MatchesTake
<1>3. \A g \in Groups : m[g] # Unused =>
        \E k \in 1 .. n : picked[k] = g /\ m[g] = free[k]
  BY SlotOfPick
<1>4. \A r \in Refs(Groups) :
         slot2[r] = IF r[1] = c /\ r[2] = p THEN m[r[3]] ELSE slot[r]
  BY DEF PageSlots
<1>5. \A k \in 1 .. n : buf2[free[k]] = <<c, p, picked[k], page>>
  <2> SUFFICES ASSUME NEW k \in 1 .. n PROVE buf2[free[k]] = <<c, p, picked[k], page>>
    OBVIOUS
  <2>1. k \in 1 .. Len(free) /\ 1 .. n \subseteq 1 .. Len(free)
    BY <1>1
  <2>2. free[k] \in DOMAIN buf
    BY <2>1
  <2>3. OnlyAt(free, n, k)
    BY <1>1, <2>1 DEF IsInjective, OnlyAt
  <2> HIDE DEF n
  <2>4. Written(buf, free, picked, n, c, p, page)[free[k]] = <<c, p, picked[k], page>>
    BY <2>2, <2>3, WrittenAt
  <2> QED
    BY <2>4
<1> HIDE DEF m, n, buf2
<1>6. \A r \in Refs(Groups) : r[1] \in Lanes /\ r[2] \in Pages /\ r[3] \in Groups
  BY DEF Refs
<1> SUFFICES ASSUME NEW r \in Refs(Groups), slot2[r] # Unused
             PROVE  buf2[slot2[r]] = <<r[1], r[2], r[3], content2[r[1]][r[2]]>>
  BY DEF Matches, buf2, n
<1>7. CASE r[1] = c /\ r[2] = p
  <2>1. PICK k \in 1 .. n : picked[k] = r[3] /\ slot2[r] = free[k]
    BY <1>3, <1>4, <1>6, <1>7
  <2> QED
    BY <1>5, <1>7, <2>1
<1>8. CASE ~ (r[1] = c /\ r[2] = p)
  <2>1. slot2[r] = slot[r] /\ content2[r[1]][r[2]] = content[r[1]][r[2]]
    BY <1>4, <1>6, <1>8 DEF SameElsewhere
  <2> QED
    BY <1>2, <2>1 DEF Matches
<1> QED
  BY <1>7, <1>8

-------------------------------------------------------------------------------
(* The two arenas of the cache *)

KSlot == [r \in Refs(CGroups) |-> meta_table[r[1]][r[2]].k_slots[r[3]]]
VSlot == [r \in Refs(VBlocks) |-> meta_table[r[1]][r[2]].v_slots[r[3]]]

Content == [c \in Lanes |-> [p \in Pages |->
              PageContent(rows[c][p], meta_table[c][p].num_tokens)]]

ArenasOK ==
  /\ Exclusive(k_free, KSlot, CGroups) /\ Matches(k_buf, KSlot, CGroups, Content)
  /\ Exclusive(v_free, VSlot, VBlocks) /\ Matches(v_buf, VSlot, VBlocks, Content)

(* The metadata of a page speaks of rows that are written, and a page not  *)
(* yet allocated has none: a row written later is not one a residual was   *)
(* computed from.                                                          *)
MetaBehindRows ==
  \A c \in Lanes : \A p \in Pages :
    /\ meta_table[c][p].num_tokens <= valid_tokens[c][p]
    /\ p >= next_page[c] => meta_table[c][p] = NoMeta

SlotInv == TypeInv /\ ArenasOK /\ MetaBehindRows

(* The slots a page refers to are slots. *)
LEMMA SlotType ==
  ASSUME TypeOK
  PROVE  /\ Unused \notin KSlots /\ Unused \notin VSlots
         /\ SlotsOf(KSlot, KSlots, CGroups) /\ SlotsOf(VSlot, VSlots, VBlocks)
<1>1. \A r : /\ r \in Refs(CGroups) => r[1] \in Lanes /\ r[2] \in Pages /\ r[3] \in CGroups
             /\ r \in Refs(VBlocks) => r[1] \in Lanes /\ r[2] \in Pages /\ r[3] \in VBlocks
  BY DEF Refs
<1>2. \A c \in Lanes, p \in Pages :
        /\ meta_table[c][p].k_slots \in [CGroups -> KSlots \cup {Unused}]
        /\ meta_table[c][p].v_slots \in [VBlocks -> VSlots \cup {Unused}]
  BY DEF TypeOK, PageMeta
<1>3. Unused \notin KSlots /\ Unused \notin VSlots
  BY ShapeAssumption DEF Unused, KSlots, VSlots
<1>4. SlotsOf(KSlot, KSlots, CGroups)
  BY <1>1, <1>2 DEF KSlot, SlotsOf
<1>5. SlotsOf(VSlot, VSlots, VBlocks)
  BY <1>1, <1>2 DEF VSlot, SlotsOf
<1> QED
  BY <1>3, <1>4, <1>5

(* What the filter picks, it picks once. *)
LEMMA SelectionsInjective ==
  ASSUME NEW layer \in Layers, NEW n \in Nat, NEW sel \in Selections(layer, n)
  PROVE  IsInjective(sel[1]) /\ IsInjective(sel[2])
<1> DEFINE blocks == {b \in VBlocks : b * VTokenBlock < n}
           kMax == IF Joint THEN JointBudget[layer] ELSE KBudget[layer]
           vMax == IF Joint THEN JointBudget[layer] ELSE VBudget[layer]
<1>1. sel[1] \in Picks(CGroups, kMax) /\ sel[2] \in Picks(blocks, vMax)
  BY DEF Selections
<1> HIDE DEF kMax, vMax, blocks
<1> QED
  BY <1>1 DEF Picks

LEMMA DecodeSelectionsInjective ==
  ASSUME NEW layer \in Layers, NEW sel \in DecodeSelections(layer)
  PROVE  IsInjective(sel[1]) /\ IsInjective(sel[2])
<1>1. CASE DecodeResidual
  BY <1>1, SelectionsInjective, ShapeAssumption DEF DecodeSelections
<1>2. CASE ~ DecodeResidual
  <2>1. sel[1] = <<>> /\ sel[2] = <<>>
    BY <1>2 DEF DecodeSelections
  <2> QED
    BY <2>1 DEF IsInjective
<1> QED
  BY <1>1, <1>2

(* Payloads keep matching when the pages they were computed from keep the  *)
(* rows they were computed from.                                           *)
LEMMA MatchesStable ==
  ASSUME NEW Groups, NEW buf, NEW slot, NEW content, NEW content2,
         Matches(buf, slot, Groups, content),
         \A r \in Refs(Groups) : slot[r] # Unused =>
            content2[r[1]][r[2]] = content[r[1]][r[2]]
  PROVE  Matches(buf, slot, Groups, content2)
<1> QED
  BY DEF Matches

(* What page p holds of its first n rows depends on these rows only. *)
LEMMA ContentSame ==
  ASSUME NEW page, NEW page2, NEW n \in Nat,
         \A t \in Nat : t < n => page2[t] = page[t]
  PROVE  PageContent(page2, n) = PageContent(page, n)
<1>1. \A t \in 1 .. n : t - 1 \in Nat /\ t - 1 < n
  OBVIOUS
<1> QED
  BY <1>1 DEF PageContent

(* process_page leaves the arenas in order. *)
LEMMA StoreKeepsArenas ==
  ASSUME TypeOK, ArenasOK, NEW c \in Lanes, NEW pid \in Pages, NEW start \in Int,
         NEW n \in 0 .. PageSize, NEW sel,
         sel[1] \in Seq(CGroups), sel[2] \in Seq(VBlocks),
         IsInjective(sel[1]), IsInjective(sel[2]),
         \A d \in Lanes, q \in Pages : d # c \/ q # pid => rows'[d][q] = rows[d][q],
         StoreResiduals(c, pid, start, n, sel)
  PROVE  ArenasOK'
<1> DEFINE page == PageContent(rows'[c][pid], n)
           km == SlotOf(CGroups, sel[1], k_free)
           vm == SlotOf(VBlocks, sel[2], v_free)
           m == [token_start |-> start, num_tokens |-> n, k_slots |-> km, v_slots |-> vm]
<1>1. /\ k_free \in Seq(KSlots) /\ v_free \in Seq(VSlots)
      /\ k_buf \in [KSlots -> Payload] /\ v_buf \in [VSlots -> Payload]
      /\ meta_table \in [Lanes -> [Pages -> PageMeta]]
  BY DEF TypeOK
<1>2. /\ Len(sel[1]) <= Len(k_free) /\ Len(sel[2]) <= Len(v_free)
      /\ k_buf' = Written(k_buf, k_free, sel[1], Len(sel[1]), c, pid, page)
      /\ v_buf' = Written(v_buf, v_free, sel[2], Len(sel[2]), c, pid, page)
      /\ k_free' = DropFirst(k_free, Len(sel[1]))
      /\ v_free' = DropFirst(v_free, Len(sel[2]))
  BY DEF StoreResiduals, TakeSlots
<1>3. meta_table' = [meta_table EXCEPT ![c][pid] = m]
  BY DEF StoreResiduals, SetMeta
<1>4. m.num_tokens = n /\ m.k_slots = km /\ m.v_slots = vm
  OBVIOUS
<1> HIDE DEF km, vm, m, page
<1>5. \A d \in Lanes, q \in Pages :
         meta_table'[d][q] = IF d = c /\ q = pid THEN m ELSE meta_table[d][q]
  BY <1>1, <1>3
<1>6. \A r : /\ r \in Refs(CGroups) => r[1] \in Lanes /\ r[2] \in Pages
             /\ r \in Refs(VBlocks) => r[1] \in Lanes /\ r[2] \in Pages
  BY DEF Refs
<1>7. KSlot' = PageSlots(KSlot, c, pid, km, CGroups)
  BY <1>4, <1>5, <1>6 DEF KSlot, PageSlots
<1>8. VSlot' = PageSlots(VSlot, c, pid, vm, VBlocks)
  BY <1>4, <1>5, <1>6 DEF VSlot, PageSlots
<1>9. /\ Content'[c][pid] = page
      /\ \A d \in Lanes, q \in Pages : d # c \/ q # pid => Content'[d][q] = Content[d][q]
  BY <1>4, <1>5 DEF Content, page
<1>10. Exclusive(k_free', KSlot', CGroups)
  BY <1>1, <1>2, <1>7, SlotType, ExclusiveTake DEF ArenasOK, km
<1>11. Exclusive(v_free', VSlot', VBlocks)
  BY <1>1, <1>2, <1>8, SlotType, ExclusiveTake DEF ArenasOK, vm
<1>12. PICK content, content2, page2 :
         /\ content = Content /\ content2 = Content' /\ page2 = page
         /\ content2[c][pid] = page2
         /\ SameElsewhere(content, content2, c, pid)
  BY <1>9 DEF SameElsewhere
<1>13. Matches(k_buf', KSlot', CGroups, Content')
  <2>1. PICK slot, slot2 : slot = KSlot /\ slot2 = KSlot'
    OBVIOUS
  <2>2. /\ SlotsOf(slot, KSlots, CGroups)
        /\ Unused \notin KSlots
        /\ Exclusive(k_free, slot, CGroups) /\ Matches(k_buf, slot, CGroups, content)
        /\ slot2 = PageSlots(slot, c, pid, SlotOf(CGroups, sel[1], k_free), CGroups)
    BY <1>7, <1>12, <2>1, SlotType DEF ArenasOK, km
  <2>3. Matches(Written(k_buf, k_free, sel[1], Len(sel[1]), c, pid, page2), slot2, CGroups,
                content2)
    BY <1>1, <1>2, <1>12, <2>2, MatchesProcess
  <2> QED
    BY <1>2, <1>12, <2>1, <2>3
<1>14. Matches(v_buf', VSlot', VBlocks, Content')
  <2>1. PICK slot, slot2 : slot = VSlot /\ slot2 = VSlot'
    OBVIOUS
  <2>2. /\ SlotsOf(slot, VSlots, VBlocks)
        /\ Unused \notin VSlots
        /\ Exclusive(v_free, slot, VBlocks) /\ Matches(v_buf, slot, VBlocks, content)
        /\ slot2 = PageSlots(slot, c, pid, SlotOf(VBlocks, sel[2], v_free), VBlocks)
    BY <1>8, <1>12, <2>1, SlotType DEF ArenasOK, vm
  <2>3. Matches(Written(v_buf, v_free, sel[2], Len(sel[2]), c, pid, page2), slot2, VBlocks,
                content2)
    BY <1>1, <1>2, <1>12, <2>2, MatchesProcess
  <2> QED
    BY <1>2, <1>12, <2>1, <2>3
<1> QED
  BY <1>10, <1>11, <1>13, <1>14 DEF ArenasOK

(* So does a step that writes no metadata, whether it took slots or not,     *)
(* as long as no page loses rows its residuals were computed from.         *)
LEMMA NoMetaKeepsArenas ==
  ASSUME TypeOK, ArenasOK, meta_table' = meta_table,
         \A d \in Lanes, q \in Pages :
            meta_table[d][q] = NoMeta \/ Content'[d][q] = Content[d][q],
         \/ UNCHANGED <<k_free, v_free, k_buf, v_buf>>
         \/ \E c, pid, n, sel : \E i \in Nat, j \in Nat : TakeSlots(c, pid, n, sel, i, j)
  PROVE  ArenasOK'
<1>1. /\ k_free \in Seq(KSlots) /\ v_free \in Seq(VSlots)
      /\ k_buf \in [KSlots -> Payload] /\ v_buf \in [VSlots -> Payload]
  BY DEF TypeOK
<1>2. KSlot' = KSlot /\ VSlot' = VSlot
  BY DEF KSlot, VSlot
<1>3. /\ Exclusive(k_free', KSlot, CGroups) /\ Exclusive(v_free', VSlot, VBlocks)
      /\ Matches(k_buf', KSlot, CGroups, Content) /\ Matches(v_buf', VSlot, VBlocks, Content)
  <2>1. CASE UNCHANGED <<k_free, v_free, k_buf, v_buf>>
    BY <2>1 DEF ArenasOK
  <2>2. CASE \E c, pid, n, sel : \E i \in Nat, j \in Nat : TakeSlots(c, pid, n, sel, i, j)
    <3>1. PICK c, pid, n, sel : \E i \in Nat, j \in Nat : TakeSlots(c, pid, n, sel, i, j)
      BY <2>2
    <3>2. PICK i \in Nat, j \in Nat : TakeSlots(c, pid, n, sel, i, j)
      BY <3>1
    <3>3. PICK page : page = PageContent(rows'[c][pid], n)
      OBVIOUS
    <3>4. /\ i \in 0 .. Len(k_free) /\ j \in 0 .. Len(v_free)
          /\ k_buf' = Written(k_buf, k_free, sel[1], i, c, pid, page)
          /\ v_buf' = Written(v_buf, v_free, sel[2], j, c, pid, page)
          /\ k_free' = DropFirst(k_free, i) /\ v_free' = DropFirst(v_free, j)
      BY <1>1, <3>2, <3>3 DEF TakeSlots
    <3>5. Exclusive(k_free', KSlot, CGroups)
      BY <1>1, <3>4, ExclusiveDrop DEF ArenasOK
    <3>6. Exclusive(v_free', VSlot, VBlocks)
      BY <1>1, <3>4, ExclusiveDrop DEF ArenasOK
    <3>7. Matches(k_buf', KSlot, CGroups, Content)
      BY <1>1, <3>4, SlotType, MatchesTake DEF ArenasOK
    <3>8. Matches(v_buf', VSlot, VBlocks, Content)
      BY <1>1, <3>4, SlotType, MatchesTake DEF ArenasOK
    <3> QED
      BY <3>5, <3>6, <3>7, <3>8
  <2> QED
    BY <2>1, <2>2
<1>4. /\ \A r \in Refs(CGroups) : KSlot[r] # Unused => Content'[r[1]][r[2]] = Content[r[1]][r[2]]
      /\ \A r \in Refs(VBlocks) : VSlot[r] # Unused => Content'[r[1]][r[2]] = Content[r[1]][r[2]]
  <2>1. \A g \in CGroups : NoMeta.k_slots[g] = Unused
    BY DEF NoMeta
  <2>2. \A b \in VBlocks : NoMeta.v_slots[b] = Unused
    BY DEF NoMeta
  <2>3. \A r : /\ r \in Refs(CGroups) => r[1] \in Lanes /\ r[2] \in Pages /\ r[3] \in CGroups
               /\ r \in Refs(VBlocks) => r[1] \in Lanes /\ r[2] \in Pages /\ r[3] \in VBlocks
    BY DEF Refs
  <2>4. \A r \in Refs(CGroups) : KSlot[r] # Unused => meta_table[r[1]][r[2]] # NoMeta
    BY <2>1, <2>3 DEF KSlot
  <2>5. \A r \in Refs(VBlocks) : VSlot[r] # Unused => meta_table[r[1]][r[2]] # NoMeta
    BY <2>2, <2>3 DEF VSlot
  <2> QED
    BY <2>3, <2>4, <2>5
<1>5. Matches(k_buf', KSlot, CGroups, Content') /\ Matches(v_buf', VSlot, VBlocks, Content')
  BY <1>3, <1>4, MatchesStable
<1> QED
  BY <1>2, <1>3, <1>5 DEF ArenasOK

(* An empty cache: every slot is free and no page refers to one. *)
EmptyArenas ==
  /\ k_free = EmptyCache.k_free /\ v_free = EmptyCache.v_free
  /\ meta_table = EmptyCache.meta_table /\ valid_tokens = EmptyCache.valid_tokens

LEMMA EmptyArenasOK == EmptyArenas => ArenasOK /\ MetaBehindRows
<1> SUFFICES ASSUME EmptyArenas PROVE ArenasOK /\ MetaBehindRows
  OBVIOUS
<1>1. \A c \in Lanes, p \in Pages : meta_table[c][p] = NoMeta /\ valid_tokens[c][p] = 0
  BY DEF EmptyArenas, EmptyCache
<1>2. \A r : /\ r \in Refs(CGroups) => r[1] \in Lanes /\ r[2] \in Pages /\ r[3] \in CGroups
             /\ r \in Refs(VBlocks) => r[1] \in Lanes /\ r[2] \in Pages /\ r[3] \in VBlocks
  BY DEF Refs
<1>3. \A r \in Refs(CGroups) : KSlot[r] = Unused
  <2>1. \A g \in CGroups : NoMeta.k_slots[g] = Unused
    BY DEF NoMeta
  <2> QED
    BY <1>1, <1>2, <2>1 DEF KSlot
<1>4. \A r \in Refs(VBlocks) : VSlot[r] = Unused
  <2>1. \A b \in VBlocks : NoMeta.v_slots[b] = Unused
    BY DEF NoMeta
  <2> QED
    BY <1>1, <1>2, <2>1 DEF VSlot
<1>5. k_free = [i \in 1 .. KArena |-> i - 1] /\ v_free = [i \in 1 .. VArena |-> i - 1]
  BY DEF EmptyArenas, EmptyCache
<1>6. KArena \in Nat /\ VArena \in Nat
  BY ShapeAssumption
<1>7. IsInjective(k_free) /\ IsInjective(v_free)
  BY <1>5, <1>6 DEF IsInjective
<1>8. ArenasOK
  BY <1>3, <1>4, <1>7 DEF ArenasOK, Exclusive, Matches
<1>9. NoMeta.num_tokens = 0
  BY DEF NoMeta
<1>10. MetaBehindRows
  BY <1>1, <1>9 DEF MetaBehindRows
<1> QED
  BY <1>8, <1>10

LEMMA SlotInvInit == Init => SlotInv
  BY TypeInvInit, EmptyArenasOK DEF EmptyArenas, Init, SlotInv

LEMMA BeginPrefillArenas == SlotInv /\ BeginPrefill => SlotInv'
<1> SUFFICES ASSUME SlotInv, BeginPrefill PROVE SlotInv'
  OBVIOUS
<1>1. TypeInv'
  BY TypeInvStep DEF SlotInv, Next
<1>2. EmptyArenas'
  BY DEF BeginPrefill, NewCache, EmptyArenas, EmptyCache
<1>3. ArenasOK' /\ MetaBehindRows'
  BY <1>2, EmptyArenasOK, PTL
<1> QED
  BY <1>1, <1>3 DEF SlotInv

(* process_page records the rows its page holds; the pages after it have     *)
(* no metadata.                                                            *)
LEMMA MetaMoves ==
  ASSUME TypeOK, MetaBehindRows, NEW c \in Lanes, NEW p \in Pages, NEW v \in 0 .. PageSize,
         next_page[c] \in {p, p + 1},
         next_page' = [next_page EXCEPT ![c] = p + 1],
         valid_tokens' = [valid_tokens EXCEPT ![c][p] = v],
         \/ \E start, n, sel : n <= v /\ SetMeta(c, p, start, n, sel)
         \/ meta_table' = meta_table /\ meta_table[c][p].num_tokens <= v
  PROVE  MetaBehindRows'
<1>1. /\ next_page \in [Lanes -> 0 .. MaxPages]
      /\ valid_tokens \in [Lanes -> [Pages -> 0 .. PageSize]]
      /\ meta_table \in [Lanes -> [Pages -> PageMeta]]
      /\ p \in Nat
  <2>1. p \in Nat
    BY DEF Pages
  <2> QED
    BY <2>1 DEF TypeOK
<1>2. /\ \A d \in Lanes, q \in Pages : d # c \/ q # p =>
             meta_table'[d][q] = meta_table[d][q]
      /\ meta_table'[c][p].num_tokens <= v
  <2>1. CASE meta_table' = meta_table /\ meta_table[c][p].num_tokens <= v
    BY <2>1
  <2>2. CASE \E start, n, sel : n <= v /\ SetMeta(c, p, start, n, sel)
    <3>1. PICK start, n, sel : n <= v /\ SetMeta(c, p, start, n, sel)
      BY <2>2
    <3> DEFINE m == [token_start |-> start, num_tokens |-> n,
                     k_slots |-> SlotOf(CGroups, sel[1], k_free),
                     v_slots |-> SlotOf(VBlocks, sel[2], v_free)]
    <3>2. meta_table' = [meta_table EXCEPT ![c][p] = m] /\ m.num_tokens <= v
      BY <3>1 DEF SetMeta
    <3> HIDE DEF m
    <3> QED
      BY <1>1, <3>2
  <2> QED
    BY <2>1, <2>2
<1>3. \A d \in Lanes, q \in Pages :
        valid_tokens'[d][q] = IF d = c /\ q = p THEN v ELSE valid_tokens[d][q]
  BY <1>1
<1>4. \A d \in Lanes : next_page'[d] = IF d = c THEN p + 1 ELSE next_page[d]
  BY <1>1
<1> SUFFICES ASSUME NEW d \in Lanes, NEW q \in Pages
             PROVE  /\ meta_table'[d][q].num_tokens <= valid_tokens'[d][q]
                    /\ q >= next_page'[d] => meta_table'[d][q] = NoMeta
  BY DEF MetaBehindRows, NoMeta
<1>5. CASE d = c /\ q = p
  BY <1>1, <1>2, <1>3, <1>4, <1>5
<1>6. CASE d # c \/ q # p
  <2>1. meta_table'[d][q] = meta_table[d][q] /\ valid_tokens'[d][q] = valid_tokens[d][q]
    BY <1>2, <1>3, <1>6
  <2>2. meta_table[d][q].num_tokens <= valid_tokens[d][q]
    BY DEF MetaBehindRows
  <2>3. q >= next_page'[d] => q >= next_page[d]
    BY <1>1, <1>4 DEF Pages
  <2> QED
    BY <2>1, <2>2, <2>3 DEF MetaBehindRows
<1> QED
  BY <1>5, <1>6

(* A page of the prompt. *)
LEMMA PrefillPageArenas == SlotInv /\ PrefillPage => SlotInv'
<1> SUFFICES ASSUME SlotInv, PrefillPage PROVE SlotInv'
  OBVIOUS
<1>1. /\ TypeInv /\ TypeOK /\ TypeInv' /\ ArenasOK /\ MetaBehindRows /\ Lane \in Lanes
      /\ call.phase = "prefill" /\ call.layer \in Layers
  BY TypeInvStep, LaneType DEF SlotInv, TypeInv, TypeOK, PrefillPage, Next
<1>2. PICK c, pid : c \in Lanes /\ c = Lane /\ pid = next_page[c]
  BY <1>1
<1>lane. c \in Lanes
  BY <1>2
<1> USE <1>lane
<1>3. /\ WriteChunk(c, pid)
      /\ next_page' = [next_page EXCEPT ![c] = pid + 1]
      /\ valid_tokens' = [valid_tokens EXCEPT ![c][pid] = ChunkLen]
      /\ \E page : rows' = [rows EXCEPT ![c][pid] = page]
  BY <1>2 DEF PrefillPage, WriteChunk
<1>4. PICK sel \in Selections(call.layer, ChunkLen) :
        StoreResiduals(c, pid, ChunkStart, ChunkLen, sel)
  BY <1>2 DEF PrefillPage
<1>5. /\ pid \in Nat /\ pid \in Pages /\ ChunkLen \in 0 .. PageSize /\ ChunkStart \in Int
      /\ ChunkLen \in Nat
  <2>1. pid \in Nat
    BY <1>1, <1>2, ShapeAssumption DEF TypeOK
  <2>2. pid \in Pages /\ ChunkLen \in 0 .. PageSize /\ ChunkStart \in Nat
    BY <1>1, <1>3, <2>1, WriteChunkType
  <2> QED
    BY <2>1, <2>2, ShapeAssumption
<1>6. /\ sel[1] \in Seq(CGroups) /\ sel[2] \in Seq(VBlocks)
      /\ IsInjective(sel[1]) /\ IsInjective(sel[2])
  BY <1>1, <1>5, SelectionsType, SelectionsInjective
<1>7. \A d \in Lanes, q \in Pages : d # c \/ q # pid => rows'[d][q] = rows[d][q]
  BY <1>1, <1>3 DEF TypeOK
<1>8. ArenasOK'
  BY <1>1, <1>4, <1>5, <1>6, <1>7, StoreKeepsArenas
<1>9. MetaBehindRows'
  <2>1. PICK v \in 0 .. PageSize : v = ChunkLen
    BY <1>5
  <2>2. v <= v /\ SetMeta(c, pid, ChunkStart, v, sel)
    BY <1>4, <2>1, ShapeAssumption DEF StoreResiduals
  <2>3. \E start, n, s : n <= v /\ SetMeta(c, pid, start, n, s)
    BY <2>2
  <2> QED
    BY <1>1, <1>2, <1>3, <1>5, <2>1, <2>3, MetaMoves
<1> QED
  BY <1>1, <1>8, <1>9 DEF SlotInv

(* A page of the prompt whose residuals found no slot: it has no metadata, *)
(* so nothing refers to the slots that were taken for it.                  *)
LEMMA PrefillNoSlotArenas == SlotInv /\ PrefillNoSlot => SlotInv'
<1> SUFFICES ASSUME SlotInv, PrefillNoSlot PROVE SlotInv'
  OBVIOUS
<1>1. /\ TypeInv /\ TypeOK /\ TypeInv' /\ ArenasOK /\ MetaBehindRows /\ Lane \in Lanes
      /\ call.phase = "prefill"
  BY TypeInvStep, LaneType DEF SlotInv, TypeInv, PrefillNoSlot, Next
<1>2. PICK c, pid : c \in Lanes /\ c = Lane /\ pid = next_page[c]
  BY <1>1
<1>lane. c \in Lanes
  BY <1>2
<1> USE <1>lane
<1>3. /\ WriteChunk(c, pid)
      /\ next_page' = [next_page EXCEPT ![c] = pid + 1]
      /\ valid_tokens' = [valid_tokens EXCEPT ![c][pid] = ChunkLen]
      /\ \E page : rows' = [rows EXCEPT ![c][pid] = page]
  BY <1>2 DEF PrefillNoSlot, WriteChunk
<1>4. /\ meta_table' = meta_table
      /\ \E d, q, n, sel : \E i \in Nat, j \in Nat : TakeSlots(d, q, n, sel, i, j)
  BY <1>2 DEF PrefillNoSlot, StoreFails
<1>5. pid \in Nat /\ pid \in Pages /\ ChunkLen \in 0 .. PageSize
  <2>1. pid \in Nat
    BY <1>1, <1>2, ShapeAssumption DEF TypeOK
  <2> QED
    BY <1>1, <1>3, <2>1, WriteChunkType
<1>6. meta_table[c][pid] = NoMeta /\ NoMeta.num_tokens = 0
  BY <1>1, <1>2, <1>5 DEF MetaBehindRows, NoMeta
<1>7. \A d \in Lanes, q \in Pages : d # c \/ q # pid => rows'[d][q] = rows[d][q]
  BY <1>1, <1>3 DEF TypeOK
<1>8. \A d \in Lanes, q \in Pages :
        meta_table[d][q] = NoMeta \/ Content'[d][q] = Content[d][q]
  BY <1>4, <1>6, <1>7 DEF Content
<1>9. ArenasOK'
  BY <1>1, <1>4, <1>8, NoMetaKeepsArenas
<1>10. MetaBehindRows'
  <2>1. PICK v \in 0 .. PageSize : v = ChunkLen
    BY <1>5
  <2>2. meta_table[c][pid].num_tokens <= v
    BY <1>6, <2>1, ShapeAssumption
  <2> QED
    BY <1>1, <1>2, <1>3, <1>4, <1>5, <2>1, <2>2, MetaMoves
<1> QED
  BY <1>1, <1>9, <1>10 DEF SlotInv

(* A decode step appends after the rows the metadata of the page speaks of.*)
LEMMA AppendBehindMeta ==
  ASSUME TypeInv, MetaBehindRows, call.phase = "decode", NEW c \in Lanes, NEW p, NEW o,
         p = DecodePage(c), o = DecodeOffset(c), AppendRow(c, p, o)
  PROVE  /\ p \in Pages /\ o \in 0 .. PageSize - 1 /\ next_page[c] \in {p, p + 1}
         /\ next_page' = [next_page EXCEPT ![c] = p + 1]
         /\ valid_tokens' = [valid_tokens EXCEPT ![c][p] = o + 1]
         /\ meta_table[c][p].num_tokens <= o
         /\ \A d \in Lanes, q \in Pages : d # c \/ q # p => rows'[d][q] = rows[d][q]
         /\ PageContent(rows'[c][p], meta_table[c][p].num_tokens)
              = PageContent(rows[c][p], meta_table[c][p].num_tokens)
<1>1. /\ rows \in [Lanes -> [Pages -> [Rows -> Token \cup {Zero}]]]
      /\ next_page[c] \in 0 .. MaxPages /\ MaxPages \in Nat /\ PageSize \in Nat \ {0}
      /\ meta_table \in [Lanes -> [Pages -> PageMeta]]
  BY ShapeAssumption DEF TypeInv, TypeOK
<1>2. p \in Pages /\ o \in Rows /\ p \in Nat
  <2>1. p \in Pages /\ o \in Rows
    BY AppendRowType
  <2> QED
    BY <2>1 DEF Pages
<1>3. next_page[c] \in {p, p + 1} /\ meta_table[c][p].num_tokens <= o
  <2>1. CASE get_open_page(c) = Unused
    <3>1. p = next_page[c] /\ o = 0
      BY <2>1 DEF DecodePage, DecodeOffset
    <3>2. meta_table[c][p] = NoMeta
      BY <1>2, <3>1 DEF MetaBehindRows
    <3> QED
      BY <3>1, <3>2 DEF NoMeta
  <2>2. CASE get_open_page(c) # Unused
    <3>1. p = next_page[c] - 1 /\ o = valid_tokens[c][p]
      BY <2>2 DEF DecodePage, DecodeOffset, get_open_page
    <3>2. meta_table[c][p].num_tokens <= o
      BY <1>2, <3>1 DEF MetaBehindRows
    <3> QED
      BY <1>1, <3>1, <3>2
  <2> QED
    BY <2>1, <2>2
<1>4. /\ next_page' = [next_page EXCEPT ![c] = p + 1]
      /\ valid_tokens' = [valid_tokens EXCEPT ![c][p] = o + 1]
      /\ \E x : rows' = [rows EXCEPT ![c][p][o] = x]
  BY DEF AppendRow
<1>5. PICK x : rows' = [rows EXCEPT ![c][p][o] = x]
  BY <1>4
<1>6. \A d \in Lanes, q \in Pages : d # c \/ q # p => rows'[d][q] = rows[d][q]
  BY <1>1, <1>5
<1>7. PICK n \in 0 .. PageSize : n = meta_table[c][p].num_tokens
  BY <1>1, <1>2 DEF PageMeta
<1>8. rows'[c][p] = [rows[c][p] EXCEPT ![o] = x]
  BY <1>1, <1>2, <1>5
<1>9. \A t \in Nat : t < n => rows'[c][p][t] = rows[c][p][t]
  <2> SUFFICES ASSUME NEW t \in Nat, t < n PROVE rows'[c][p][t] = rows[c][p][t]
    OBVIOUS
  <2>1. t \in Rows /\ t # o
    BY <1>1, <1>2, <1>3, <1>7 DEF Rows
  <2>2. rows[c][p] \in [Rows -> Token \cup {Zero}]
    BY <1>1, <1>2
  <2> QED
    BY <1>8, <2>1, <2>2
<1>10. PageContent(rows'[c][p], n) = PageContent(rows[c][p], n)
  <2>1. n \in Nat
    BY <1>1
  <2>2. PICK page, page2 : page = rows[c][p] /\ page2 = rows'[c][p]
    OBVIOUS
  <2>3. PageContent(page2, n) = PageContent(page, n)
    BY <1>9, <2>1, <2>2, ContentSame
  <2> QED
    BY <2>2, <2>3
<1> QED
  BY <1>2, <1>3, <1>4, <1>6, <1>7, <1>10 DEF Rows

(* A decode step on a lane. *)
LEMMA DecodeHeadArenas == SlotInv /\ DecodeHead => SlotInv'
<1> SUFFICES ASSUME SlotInv, DecodeHead PROVE SlotInv'
  OBVIOUS
<1>1. /\ TypeInv /\ TypeOK /\ TypeInv' /\ ArenasOK /\ MetaBehindRows /\ Lane \in Lanes
      /\ call.phase = "decode" /\ call.layer \in Layers /\ call.pos \in Nat
      /\ PageSize \in Nat \ {0}
  BY TypeInvStep, LaneType, ShapeAssumption
     DEF SlotInv, TypeInv, TypeOK, DecodeHead, Next
<1>2. PICK c, p, o : c \in Lanes /\ c = Lane /\ p = DecodePage(c) /\ o = DecodeOffset(c)
  BY <1>1
<1>lane. c \in Lanes
  BY <1>2
<1> USE <1>lane
<1>3. AppendRow(c, p, o)
  BY <1>2 DEF DecodeHead
<1>4. /\ p \in Pages /\ o \in 0 .. PageSize - 1 /\ next_page[c] \in {p, p + 1}
      /\ next_page' = [next_page EXCEPT ![c] = p + 1]
      /\ valid_tokens' = [valid_tokens EXCEPT ![c][p] = o + 1]
      /\ meta_table[c][p].num_tokens <= o
      /\ \A d \in Lanes, q \in Pages : d # c \/ q # p => rows'[d][q] = rows[d][q]
      /\ PageContent(rows'[c][p], meta_table[c][p].num_tokens)
           = PageContent(rows[c][p], meta_table[c][p].num_tokens)
  BY <1>1, <1>2, <1>3, AppendBehindMeta
<1>5. PICK v \in 0 .. PageSize : v = o + 1
  BY <1>1, <1>4
<1>6. CASE PageFilled(o)
  <2>1. PICK sel \in DecodeSelections(call.layer) :
          StoreResiduals(c, p, call.pos + 1 - PageSize, PageSize, sel)
    BY <1>2, <1>6 DEF DecodeHead
  <2>2. /\ sel[1] \in Seq(CGroups) /\ sel[2] \in Seq(VBlocks)
        /\ IsInjective(sel[1]) /\ IsInjective(sel[2])
    BY <1>1, DecodeSelectionsType, DecodeSelectionsInjective
  <2>3. call.pos + 1 - PageSize \in Int /\ PageSize \in 0 .. PageSize
    BY <1>1
  <2>4. ArenasOK'
    BY <1>1, <1>4, <2>1, <2>2, <2>3, StoreKeepsArenas
  <2>5. \E start, n, s : n <= v /\ SetMeta(c, p, start, n, s)
    <3>1. PageSize <= v
      BY <1>1, <1>5, <1>6 DEF PageFilled
    <3> QED
      BY <2>1, <3>1 DEF StoreResiduals
  <2>6. MetaBehindRows'
    BY <1>1, <1>4, <1>5, <2>5, MetaMoves
  <2> QED
    BY <1>1, <2>4, <2>6 DEF SlotInv
<1>7. CASE ~ PageFilled(o)
  <2>1. meta_table' = meta_table /\ UNCHANGED <<k_free, v_free, k_buf, v_buf>>
    BY <1>2, <1>7 DEF DecodeHead, KeepResiduals
  <2>2. \A d \in Lanes, q \in Pages : Content'[d][q] = Content[d][q]
    BY <1>4, <2>1 DEF Content
  <2>3. ArenasOK'
    BY <1>1, <2>1, <2>2, NoMetaKeepsArenas
  <2>4. meta_table[c][p].num_tokens <= v
    <3>1. meta_table[c][p].num_tokens \in 0 .. PageSize
      BY <1>1, <1>4 DEF TypeOK, PageMeta
    <3> QED
      BY <1>1, <1>4, <1>5, <3>1
  <2>5. MetaBehindRows'
    BY <1>1, <1>4, <1>5, <2>1, <2>4, MetaMoves
  <2> QED
    BY <1>1, <2>3, <2>5 DEF SlotInv
<1> QED
  BY <1>6, <1>7

(* A decode step that filled a page and found no slot for its residuals:   *)
(* the metadata the page got from the prefill still holds.                 *)
LEMMA DecodeNoSlotArenas == SlotInv /\ DecodeNoSlot => SlotInv'
<1> SUFFICES ASSUME SlotInv, DecodeNoSlot PROVE SlotInv'
  OBVIOUS
<1>1. /\ TypeInv /\ TypeOK /\ TypeInv' /\ ArenasOK /\ MetaBehindRows /\ Lane \in Lanes
      /\ call.phase = "decode" /\ PageSize \in Nat \ {0}
  BY TypeInvStep, LaneType, ShapeAssumption
     DEF SlotInv, TypeInv, TypeOK, DecodeNoSlot, Next
<1>2. PICK c, p, o : c \in Lanes /\ c = Lane /\ p = DecodePage(c) /\ o = DecodeOffset(c)
  BY <1>1
<1>lane. c \in Lanes
  BY <1>2
<1> USE <1>lane
<1>3. AppendRow(c, p, o)
  BY <1>2 DEF DecodeNoSlot
<1>4. /\ p \in Pages /\ o \in 0 .. PageSize - 1 /\ next_page[c] \in {p, p + 1}
      /\ next_page' = [next_page EXCEPT ![c] = p + 1]
      /\ valid_tokens' = [valid_tokens EXCEPT ![c][p] = o + 1]
      /\ meta_table[c][p].num_tokens <= o
      /\ \A d \in Lanes, q \in Pages : d # c \/ q # p => rows'[d][q] = rows[d][q]
      /\ PageContent(rows'[c][p], meta_table[c][p].num_tokens)
           = PageContent(rows[c][p], meta_table[c][p].num_tokens)
  BY <1>1, <1>2, <1>3, AppendBehindMeta
<1>5. PICK v \in 0 .. PageSize : v = o + 1
  BY <1>1, <1>4
<1>6. /\ meta_table' = meta_table
      /\ \E d, q, n, sel : \E i \in Nat, j \in Nat : TakeSlots(d, q, n, sel, i, j)
  BY <1>2 DEF DecodeNoSlot, StoreFails
<1>7. \A d \in Lanes, q \in Pages : Content'[d][q] = Content[d][q]
  BY <1>4, <1>6 DEF Content
<1>8. ArenasOK'
  BY <1>1, <1>6, <1>7, NoMetaKeepsArenas
<1>9. meta_table[c][p].num_tokens <= v
  <2>1. meta_table[c][p].num_tokens \in 0 .. PageSize
    BY <1>1, <1>4 DEF TypeOK, PageMeta
  <2> QED
    BY <1>1, <1>4, <1>5, <2>1
<1>10. MetaBehindRows'
  BY <1>1, <1>4, <1>5, <1>6, <1>9, MetaMoves
<1> QED
  BY <1>1, <1>8, <1>10 DEF SlotInv

(* The invariant is inductive. *)
LEMMA SlotInvStep == SlotInv /\ [Next]_vars => SlotInv'
<1>1. SlotInv /\ UNCHANGED store /\ TypeInv' => SlotInv'
  <2> SUFFICES ASSUME SlotInv, UNCHANGED store, TypeInv' PROVE SlotInv'
    OBVIOUS
  <2>1. /\ next_page' = next_page /\ valid_tokens' = valid_tokens /\ rows' = rows
        /\ meta_table' = meta_table /\ k_free' = k_free /\ v_free' = v_free
        /\ k_buf' = k_buf /\ v_buf' = v_buf
    BY DEF store
  <2>2. KSlot' = KSlot /\ VSlot' = VSlot /\ Content' = Content
    BY <2>1 DEF KSlot, VSlot, Content
  <2> QED
    BY <2>1, <2>2 DEF SlotInv, ArenasOK, MetaBehindRows
<1>2. SlotInv /\ (BeginDecode \/ CacheFull \/ UNCHANGED vars) => SlotInv'
  <2> SUFFICES ASSUME SlotInv, BeginDecode \/ CacheFull \/ UNCHANGED vars PROVE SlotInv'
    OBVIOUS
  <2>1. UNCHANGED store
    BY DEF BeginDecode, CacheFull, store, vars
  <2>2. TypeInv'
    BY TypeInvStep DEF SlotInv, Next
  <2> QED
    BY <1>1, <2>1, <2>2
<1> QED
  BY <1>2, BeginPrefillArenas, PrefillPageArenas, PrefillNoSlotArenas, DecodeHeadArenas,
     DecodeNoSlotArenas DEF Next

(* It holds in every reachable state. *)
LEMMA SlotsCorrect == Spec => []SlotInv
  BY SlotInvInit, SlotInvStep, PTL DEF Spec

-------------------------------------------------------------------------------
(* The theorems *)

(* No residual slot serves two pages, groups or lanes, and no slot in use  *)
(* is handed out again, however passes end.                                *)
THEOREM SlotsNeverShared == Spec => []SlotsExclusive
<1>1. SlotInv => SlotsExclusive
  <2> SUFFICES ASSUME SlotInv PROVE SlotsExclusive
    OBVIOUS
  <2>1. Exclusive(k_free, KSlot, CGroups) /\ Exclusive(v_free, VSlot, VBlocks)
    BY DEF SlotInv, ArenasOK
  <2>2. /\ \A r \in Refs(CGroups) : KSlot[r] = KSlotAt(r)
        /\ \A r \in Refs(VBlocks) : VSlot[r] = VSlotAt(r)
    BY DEF KSlot, VSlot, KSlotAt, VSlotAt
  <2>3. /\ \A r \in KRefs : r \in Refs(CGroups) /\ KSlotAt(r) # Unused
        /\ \A r \in VRefs : r \in Refs(VBlocks) /\ VSlotAt(r) # Unused
    BY DEF KRefs, VRefs, Refs, KSlotAt, VSlotAt
  <2> QED
    BY <2>1, <2>2, <2>3 DEF SlotsExclusive, Exclusive
<1> QED
  BY <1>1, SlotsCorrect, PTL

(* What the invariant says of the payloads. *)
LEMMA SlotsMatchBase == SlotInv => ResidualsMatchBase
<1> SUFFICES ASSUME SlotInv PROVE ResidualsMatchBase
  OBVIOUS
<1>1. Matches(k_buf, KSlot, CGroups, Content) /\ Matches(v_buf, VSlot, VBlocks, Content)
  BY DEF SlotInv, ArenasOK
<1>2. /\ \A r \in Refs(CGroups) : KSlot[r] = KSlotAt(r)
      /\ \A r \in Refs(VBlocks) : VSlot[r] = VSlotAt(r)
  BY DEF KSlot, VSlot, KSlotAt, VSlotAt
<1>3. /\ \A r \in KRefs : r \in Refs(CGroups) /\ KSlotAt(r) # Unused
      /\ \A r \in VRefs : r \in Refs(VBlocks) /\ VSlotAt(r) # Unused
  BY DEF KRefs, VRefs, Refs, KSlotAt, VSlotAt
<1>4. \A r : r \in Refs(CGroups) \/ r \in Refs(VBlocks) =>
        Content[r[1]][r[2]]
          = PageContent(rows[r[1]][r[2]], meta_table[r[1]][r[2]].num_tokens)
  BY DEF Content, Refs
<1> QED
  BY <1>1, <1>2, <1>3, <1>4 DEF ResidualsMatchBase, Matches

(* The residual a page refers to was computed from the rows it still holds.*)
THEOREM ResidualsStayRight == Spec => []ResidualsMatchBase
  BY SlotsMatchBase, SlotsCorrect, PTL

-------------------------------------------------------------------------------
(* Positions *)

Full(c, p) == valid_tokens[c][p] = PageSize /\ HasMeta(meta_table[c][p])

(* Every page before the last is full and processed, and a processed page  *)
(* records the position at which it begins.                                *)
LaneInOrder(c) ==
  /\ \A p \in 0 .. next_page[c] - 2 : Full(c, p)
  /\ \A p \in Pages : HasMeta(meta_table[c][p]) =>
                        meta_table[c][p].token_start = p * PageSize

(* The lane holds n tokens, and its last page was processed if it is full. *)
Holds(c, n) ==
  /\ n = IF next_page[c] = 0 THEN 0
         ELSE (next_page[c] - 1) * PageSize + valid_tokens[c][next_page[c] - 1]
  /\ next_page[c] > 0 /\ valid_tokens[c][next_page[c] - 1] = PageSize =>
       HasMeta(meta_table[c][next_page[c] - 1])

(* The lanes a running pass has already written. *)
Visited(c) == c[1] < call.layer \/ (c[1] = call.layer /\ c[2] < call.head)

PrefillInv ==
  /\ \A c \in Lanes : Visited(c) => Holds(c, Len(input_ids))
  /\ \A c \in Lanes : ~ Visited(c) /\ c # Lane => next_page[c] = 0
  /\ next_page[Lane] = call.page
  /\ \A p \in 0 .. call.page - 1 : Full(Lane, p)

DecodeInv ==
  /\ call.pos = Len(input_ids) - 1
  /\ \A c \in Lanes : Holds(c, IF Visited(c) THEN Len(input_ids) ELSE Len(input_ids) - 1)

PositionInv ==
  /\ TypeInv
  /\ \A c \in Lanes : LaneInOrder(c)
  /\ call.phase = "idle" => \A c \in Lanes : Holds(c, Len(input_ids))
  /\ call.phase = "prefill" => PrefillInv
  /\ call.phase = "decode" => DecodeInv

-------------------------------------------------------------------------------
(* Counting tokens *)

(* When the first p pages are full they hold p * PageSize tokens. *)
LEMMA FullPagesCount ==
  ASSUME TypeOK, NEW c \in Lanes, NEW p \in Nat,
         \A q \in 0 .. p - 1 : valid_tokens[c][q] = PageSize
  PROVE  /\ ValidRows(c, 0 .. p - 1) = (0 .. p - 1) \X Rows
         /\ IsFiniteSet(ValidRows(c, 0 .. p - 1))
         /\ TokensBefore(c, p) = p * PageSize
<1>1. PageSize \in Nat \ {0}
  BY ShapeAssumption
<1>2. /\ IsFiniteSet(0 .. p - 1) /\ Cardinality(0 .. p - 1) = p
      /\ IsFiniteSet(Rows) /\ Cardinality(Rows) = PageSize
  <2>1. /\ IsFiniteSet(0 .. p - 1)
        /\ Cardinality(0 .. p - 1) = IF 0 > p - 1 THEN 0 ELSE (p - 1) - 0 + 1
    BY FS_Interval
  <2>2. /\ IsFiniteSet(0 .. PageSize - 1)
        /\ Cardinality(0 .. PageSize - 1)
             = IF 0 > PageSize - 1 THEN 0 ELSE (PageSize - 1) - 0 + 1
    BY <1>1, FS_Interval
  <2> QED
    BY <1>1, <2>1, <2>2 DEF Rows
<1>3. ValidRows(c, 0 .. p - 1) = (0 .. p - 1) \X Rows
  <2>1. \A x \in (0 .. p - 1) \X Rows : x[2] < valid_tokens[c][x[1]]
    BY <1>1 DEF Rows
  <2> QED
    BY <2>1 DEF ValidRows
<1>4. /\ IsFiniteSet((0 .. p - 1) \X Rows)
      /\ Cardinality((0 .. p - 1) \X Rows) = p * PageSize
  <2>1. PICK S, T : S = 0 .. p - 1 /\ T = Rows
    OBVIOUS
  <2>2. IsFiniteSet(S \X T) /\ Cardinality(S \X T) = Cardinality(S) * Cardinality(T)
    BY <1>2, <2>1, FS_Product, Zenon
  <2> QED
    BY <1>2, <2>1, <2>2
<1> QED
  BY <1>3, <1>4 DEF TokensBefore

(* The tokens of a lane: its full pages and the rows of the last one. *)
Tokens(c) == IF next_page[c] = 0 THEN 0
             ELSE (next_page[c] - 1) * PageSize + valid_tokens[c][next_page[c] - 1]

LEMMA LaneTokens ==
  ASSUME TypeOK, NEW c \in Lanes, LaneInOrder(c)
  PROVE  total_valid_tokens(c) = Tokens(c) /\ Tokens(c) \in Nat
<1>1. PageSize \in Nat \ {0} /\ next_page[c] \in 0 .. MaxPages /\ MaxPages \in Nat
  BY ShapeAssumption DEF TypeOK
<1>2. CASE next_page[c] = 0
  <2>1. \A q \in 0 .. 0 - 1 : valid_tokens[c][q] = PageSize
    OBVIOUS
  <2>2. TokensBefore(c, 0) = 0 * PageSize
    BY <2>1, FullPagesCount
  <2> QED
    BY <1>1, <1>2, <2>2 DEF total_valid_tokens, Tokens
<1>3. CASE next_page[c] # 0
  <2> DEFINE last == next_page[c] - 1
             v == valid_tokens[c][last]
             before == ValidRows(c, 0 .. last - 1)
             open == {last} \X (0 .. v - 1)
  <2>0. last \in Nat /\ last \in Pages /\ next_page[c] - 2 = last - 1
    BY <1>1, <1>3 DEF Pages
  <2>1. last \in Nat /\ last \in Pages /\ v \in 0 .. PageSize /\ next_page[c] - 2 = last - 1
    <3>1. valid_tokens \in [Lanes -> [Pages -> 0 .. PageSize]]
      BY DEF TypeOK
    <3> QED
      BY <2>0, <3>1
  <2>2. \A q \in 0 .. last - 1 : valid_tokens[c][q] = PageSize
    BY <2>1 DEF LaneInOrder, Full
  <2>3. /\ before = (0 .. last - 1) \X Rows
        /\ IsFiniteSet(before) /\ Cardinality(before) = last * PageSize
    BY <2>1, <2>2, FullPagesCount DEF TokensBefore
  <2>4. IsFiniteSet(open) /\ Cardinality(open) = v
    <3>0. v \in Nat
      BY <1>1, <2>1
    <3> HIDE DEF v, last
    <3>1. IsFiniteSet({last}) /\ Cardinality({last}) = 1
      BY FS_Singleton
    <3>2. /\ IsFiniteSet(0 .. v - 1)
          /\ Cardinality(0 .. v - 1) = IF 0 > v - 1 THEN 0 ELSE (v - 1) - 0 + 1
      BY <3>0, FS_Interval
    <3>3. Cardinality(0 .. v - 1) = v
      BY <3>0, <3>2
    <3>4. /\ IsFiniteSet({last} \X (0 .. v - 1))
          /\ Cardinality({last} \X (0 .. v - 1)) = Cardinality({last}) * Cardinality(0 .. v - 1)
      BY <3>1, <3>2, FS_Product
    <3>5. IsFiniteSet(open) /\ Cardinality(open) = 1 * v
      BY <3>1, <3>3, <3>4
    <3> HIDE DEF open
    <3> QED
      BY <3>0, <3>5
  <2>5. before \cap open = {}
    BY <2>1, <2>3
  <2>6. ValidRows(c, 0 .. next_page[c] - 1) = before \cup open
    <3>1. 0 .. next_page[c] - 1 = (0 .. last - 1) \cup {last}
      BY <2>1
    <3>2. open \subseteq {last} \X Rows
      BY <1>1, <2>1 DEF Rows
    <3>3. \A x \in {last} \X Rows : x[2] < v <=> x \in open
      BY <1>1, <2>1 DEF Rows
    <3>4. ValidRows(c, {last}) = open
      BY <3>2, <3>3 DEF ValidRows
    <3>5. ValidRows(c, (0 .. last - 1) \cup {last})
            = ValidRows(c, 0 .. last - 1) \cup ValidRows(c, {last})
      BY DEF ValidRows
    <3> QED
      BY <3>1, <3>4, <3>5
  <2>7. Cardinality(before \cup open)
          = Cardinality(before) + Cardinality(open) - Cardinality(before \cap open)
    BY <2>3, <2>4, FS_Union
  <2>8. Cardinality(before \cap open) = 0
    BY <2>5, FS_EmptySet
  <2>9. total_valid_tokens(c) = Cardinality(before \cup open)
    BY <2>6 DEF total_valid_tokens, TokensBefore
  <2>10. Tokens(c) = last * PageSize + v
    BY <1>3 DEF Tokens
  <2> HIDE DEF before, open, v, last
  <2>11. last * PageSize \in Nat
    BY <1>1, <2>1
  <2> QED
    BY <2>1, <2>3, <2>4, <2>7, <2>8, <2>9, <2>10, <2>11
<1> QED
  BY <1>2, <1>3

LEMMA HeldTokens ==
  ASSUME TypeOK, NEW c \in Lanes, NEW n \in Nat, LaneInOrder(c), Holds(c, n)
  PROVE  total_valid_tokens(c) = n
<1> QED
  BY LaneTokens DEF Tokens, Holds

-------------------------------------------------------------------------------
(* What a step does to the lanes *)

Untouched(c) == /\ next_page'[c] = next_page[c]
                /\ valid_tokens'[c] = valid_tokens[c]
                /\ meta_table'[c] = meta_table[c]

(* A lane that a step leaves alone keeps its tokens and its order. *)
LEMMA UntouchedLane ==
  ASSUME NEW c, Untouched(c)
  PROVE  /\ LaneInOrder(c) => LaneInOrder(c)'
         /\ \A n : Holds(c, n) => Holds(c, n)'
<1> QED
  BY DEF Untouched, LaneInOrder, Holds, Full, HasMeta

(* Writing the page after the full ones of a lane. *)
LEMMA PageWritten ==
  ASSUME TypeOK, NEW c \in Lanes, NEW p \in Pages, NEW v \in 1 .. PageSize,
         LaneInOrder(c), \A q \in 0 .. p - 1 : Full(c, q),
         next_page' = [next_page EXCEPT ![c] = p + 1],
         valid_tokens' = [valid_tokens EXCEPT ![c][p] = v],
         \A q \in Pages \ {p} : meta_table'[c][q] = meta_table[c][q],
         HasMeta(meta_table'[c][p]) => meta_table'[c][p].token_start = p * PageSize
  PROVE  /\ LaneInOrder(c)'
         /\ next_page'[c] = p + 1 /\ valid_tokens'[c][p] = v
         /\ \A q \in 0 .. p - 1 : Full(c, q)'
         /\ (v = PageSize => HasMeta(meta_table'[c][p])) => Holds(c, p * PageSize + v)'
<1>1. /\ PageSize \in Nat \ {0} /\ MaxPages \in Nat /\ p \in Nat /\ p < MaxPages
      /\ next_page \in [Lanes -> 0 .. MaxPages]
      /\ valid_tokens \in [Lanes -> [Pages -> 0 .. PageSize]]
  <2>1. /\ next_page \in [Lanes -> 0 .. MaxPages]
        /\ valid_tokens \in [Lanes -> [Pages -> 0 .. PageSize]]
    BY DEF TypeOK
  <2> QED
    BY <2>1, ShapeAssumption DEF Pages
<1>2. /\ next_page'[c] = p + 1 /\ valid_tokens'[c][p] = v
      /\ \A q \in Pages \ {p} : valid_tokens'[c][q] = valid_tokens[c][q]
  BY <1>1
<1>3. \A q \in 0 .. p - 1 : Full(c, q)'
  <2> SUFFICES ASSUME NEW q \in 0 .. p - 1 PROVE Full(c, q)'
    OBVIOUS
  <2>1. q \in Pages \ {p}
    <3>1. q \in Nat /\ q < p
      BY <1>1
    <3>2. q \in 0 .. MaxPages - 1 /\ q # p
      BY <1>1, <3>1
    <3> QED
      BY <3>2 DEF Pages
  <2>2. valid_tokens'[c][q] = valid_tokens[c][q]
    BY <1>2, <2>1
  <2>3. meta_table'[c][q] = meta_table[c][q]
    BY <2>1
  <2>4. Full(c, q)
    OBVIOUS
  <2> QED
    BY <2>2, <2>3, <2>4 DEF Full, HasMeta
<1>4. LaneInOrder(c)'
  <2>1. next_page'[c] - 2 = p - 1
    BY <1>1, <1>2
  <2>2. \A q \in 0 .. next_page'[c] - 2 : Full(c, q)'
    BY <1>3, <2>1
  <2>3. \A q \in Pages : HasMeta(meta_table'[c][q]) =>
                           meta_table'[c][q].token_start = q * PageSize
    <3> SUFFICES ASSUME NEW q \in Pages, HasMeta(meta_table'[c][q])
                 PROVE  meta_table'[c][q].token_start = q * PageSize
      OBVIOUS
    <3>1. CASE q = p
      BY <3>1
    <3>2. CASE q # p
      BY <3>2 DEF LaneInOrder
    <3> QED
      BY <3>1, <3>2
  <2> QED
    BY <2>2, <2>3 DEF LaneInOrder, Full, HasMeta
<1>5. ASSUME v = PageSize => HasMeta(meta_table'[c][p])
      PROVE  Holds(c, p * PageSize + v)'
  <2>1. next_page'[c] - 1 = p /\ next_page'[c] > 0
    BY <1>1, <1>2
  <2> QED
    BY <1>2, <1>5, <2>1 DEF Holds, HasMeta
<1> QED
  BY <1>2, <1>3, <1>4, <1>5

(* A step that writes page p of lane c leaves the other lanes alone when   *)
(* it touches the metadata of no other lane.                               *)
LEMMA OtherLanes ==
  ASSUME TypeOK, NEW c \in Lanes, NEW d \in Lanes, d # c, NEW p, NEW v, NEW k,
         next_page' = [next_page EXCEPT ![c] = k],
         valid_tokens' = [valid_tokens EXCEPT ![c][p] = v],
         \/ meta_table' = meta_table
         \/ \E m : meta_table' = [meta_table EXCEPT ![c][p] = m]
  PROVE  Untouched(d)
<1> QED
  BY DEF TypeOK, Untouched

(* The lane a decode step writes to: all pages before it are full, and the *)
(* row it appends is the lane's next.                                      *)
LEMMA DecodeTarget ==
  ASSUME TypeOK, NEW c \in Lanes, NEW n \in Nat, LaneInOrder(c), Holds(c, n)
  PROVE  /\ \A q \in 0 .. DecodePage(c) - 1 : Full(c, q)
         /\ DecodePage(c) * PageSize + DecodeOffset(c) = n
<1>1. /\ PageSize \in Nat \ {0} /\ MaxPages \in Nat /\ next_page[c] \in 0 .. MaxPages
      /\ valid_tokens[c] \in [Pages -> 0 .. PageSize]
  BY ShapeAssumption DEF TypeOK
<1> DEFINE last == next_page[c] - 1
<1>2. CASE next_page[c] = 0
  BY <1>1, <1>2 DEF DecodePage, DecodeOffset, get_open_page, Holds
<1>3. CASE next_page[c] > 0 /\ valid_tokens[c][last] < PageSize
  <2>1. get_open_page(c) = last /\ last # Unused
    BY <1>1, <1>3 DEF get_open_page, Unused
  <2>2. DecodePage(c) = last /\ DecodeOffset(c) = valid_tokens[c][last]
    BY <2>1 DEF DecodePage, DecodeOffset
  <2>3. next_page[c] - 2 = last - 1
    BY <1>1
  <2> QED
    BY <1>1, <1>3, <2>2, <2>3 DEF LaneInOrder, Holds
<1>4. CASE next_page[c] > 0 /\ ~ (valid_tokens[c][last] < PageSize)
  <2>1. last \in Pages /\ last \in Nat
    BY <1>1, <1>4 DEF Pages
  <2>2. valid_tokens[c][last] = PageSize
    BY <1>1, <1>4, <2>1
  <2>3. get_open_page(c) = Unused
    BY <1>4 DEF get_open_page
  <2>4. DecodePage(c) = next_page[c] /\ DecodeOffset(c) = 0
    BY <2>3 DEF DecodePage, DecodeOffset
  <2>5. n = last * PageSize + PageSize /\ HasMeta(meta_table[c][last])
    BY <1>4, <2>2 DEF Holds
  <2>6. Full(c, last)
    BY <2>2, <2>5 DEF Full
  <2>7. \A q \in 0 .. next_page[c] - 1 : q = last \/ q \in 0 .. next_page[c] - 2
    BY <1>1
  <2>8. \A q \in 0 .. next_page[c] - 1 : Full(c, q)
    BY <2>6, <2>7 DEF LaneInOrder
  <2>9. next_page[c] * PageSize = last * PageSize + PageSize
    BY <1>1, <2>1
  <2>10. next_page[c] * PageSize + 0 = n
    BY <1>1, <2>5, <2>9
  <2> QED
    BY <2>4, <2>8, <2>10
<1> QED
  BY <1>1, <1>2, <1>3, <1>4

(* process_page changes the metadata of its own page only. *)
LEMMA MetaWritten ==
  ASSUME TypeOK, NEW c \in Lanes, NEW p \in Pages, NEW start, NEW n \in Nat \ {0},
         NEW sel, SetMeta(c, p, start, n, sel)
  PROVE  /\ \E m : meta_table' = [meta_table EXCEPT ![c][p] = m]
         /\ \A q \in Pages \ {p} : meta_table'[c][q] = meta_table[c][q]
         /\ HasMeta(meta_table'[c][p]) /\ meta_table'[c][p].token_start = start
<1> DEFINE m == [token_start |-> start, num_tokens |-> n,
                 k_slots |-> SlotOf(CGroups, sel[1], k_free),
                 v_slots |-> SlotOf(VBlocks, sel[2], v_free)]
<1>1. meta_table' = [meta_table EXCEPT ![c][p] = m]
  BY DEF SetMeta
<1>2. m.num_tokens = n /\ m.token_start = start
  OBVIOUS
<1>3. meta_table \in [Lanes -> [Pages -> PageMeta]]
  BY DEF TypeOK
<1> HIDE DEF m
<1>4. meta_table'[c][p] = m
  BY <1>1, <1>3
<1>5. \A q \in Pages \ {p} : meta_table'[c][q] = meta_table[c][q]
  BY <1>1, <1>3
<1>6. HasMeta(m)
  BY <1>2 DEF HasMeta
<1> QED
  BY <1>1, <1>2, <1>4, <1>5, <1>6

(* The pass moves on to a lane it has not visited; what was visited and    *)
(* the lane just left are visited from then on.                            *)
LEMMA NextLaneVisits ==
  ASSUME TypeOK, call.phase \in {"prefill", "decode"},
         call'.phase = NextLane.phase, call'.layer = NextLane.layer,
         call'.head = NextLane.head
  PROVE  \/ call'.phase = "idle" /\ \A c \in Lanes : Visited(c) \/ c = Lane
         \/ /\ call'.phase = call.phase /\ NextLane.page = 0
            /\ \A c \in Lanes : Visited(c)' <=> Visited(c) \/ c = Lane
<1>1. /\ NumLayers \in Nat \ {0} /\ NumKvHeads \in Nat \ {0}
      /\ call \in [phase : Phases, layer : Layers, head : Heads, page : Nat, pos : Nat]
  BY ShapeAssumption DEF TypeOK
<1> DEFINE l == call.layer
           h == call.head
<1>2. l \in 0 .. NumLayers - 1 /\ h \in 0 .. NumKvHeads - 1
  BY <1>1 DEF Layers, Heads
<1>3. \A c \in Lanes : /\ c[1] \in 0 .. NumLayers - 1 /\ c[2] \in 0 .. NumKvHeads - 1
                       /\ c = Lane <=> c[1] = l /\ c[2] = h
  BY DEF Lanes, Layers, Heads, Lane
<1>4. CASE h < NumKvHeads - 1
  <2>1. /\ NextLane.phase = call.phase /\ NextLane.layer = l
        /\ NextLane.head = h + 1 /\ NextLane.page = 0
    BY <1>1, <1>4 DEF NextLane
  <2>2. \A c \in Lanes : Visited(c)' <=> c[1] < l \/ (c[1] = l /\ c[2] < h + 1)
    BY <2>1 DEF Visited
  <2>3. \A c \in Lanes : c[2] < h + 1 <=> c[2] < h \/ c[2] = h
    BY <1>2, <1>3
  <2> QED
    BY <1>3, <2>1, <2>2, <2>3 DEF Visited
<1>5. CASE ~ (h < NumKvHeads - 1) /\ l < NumLayers - 1
  <2>1. /\ NextLane.phase = call.phase /\ NextLane.layer = l + 1
        /\ NextLane.head = 0 /\ NextLane.page = 0
    BY <1>1, <1>5 DEF NextLane
  <2>2. \A c \in Lanes : Visited(c)' <=> c[1] < l + 1 \/ (c[1] = l + 1 /\ c[2] < 0)
    BY <2>1 DEF Visited
  <2>3. \A c \in Lanes : (c[2] < h \/ c[2] = h) /\ ~ (c[2] < 0)
    BY <1>1, <1>2, <1>3, <1>5
  <2>4. \A c \in Lanes : c[1] < l + 1 <=> c[1] < l \/ c[1] = l
    BY <1>2, <1>3
  <2> QED
    BY <1>3, <2>1, <2>2, <2>3, <2>4 DEF Visited
<1>6. CASE ~ (h < NumKvHeads - 1) /\ ~ (l < NumLayers - 1)
  <2>1. NextLane.phase = "idle"
    BY <1>1, <1>6 DEF NextLane
  <2>2. \A c \in Lanes : (c[1] < l \/ c[1] = l) /\ (c[2] < h \/ c[2] = h)
    BY <1>1, <1>2, <1>3, <1>6
  <2> QED
    BY <1>3, <2>1, <2>2 DEF Visited
<1> QED
  BY <1>4, <1>5, <1>6

-------------------------------------------------------------------------------
(* The invariant *)

(* A new model has empty lanes and no token. *)
LEMMA PositionInvInit == Init => PositionInv
<1> SUFFICES ASSUME Init PROVE PositionInv
  OBVIOUS
<1>1. TypeInv
  BY TypeInvInit
<1>2. \A c \in Lanes : next_page[c] = 0 /\ \A p \in Pages : meta_table[c][p] = NoMeta
  BY DEF Init, EmptyCache
<1>3. ~ HasMeta(NoMeta)
  BY DEF NoMeta, HasMeta
<1>4. call.phase = "idle" /\ Len(input_ids) = 0
  BY DEF Init
<1>5. \A c \in Lanes : LaneInOrder(c) /\ Holds(c, 0)
  BY <1>2, <1>3 DEF LaneInOrder, Holds
<1> QED
  BY <1>1, <1>4, <1>5 DEF PositionInv

(* A new prefill: every lane is empty and none is visited. *)
LEMMA BeginPrefillStep == PositionInv /\ BeginPrefill => PositionInv'
<1> SUFFICES ASSUME PositionInv, BeginPrefill PROVE PositionInv'
  OBVIOUS
<1>1. TypeInv'
  BY TypeInvStep DEF PositionInv, Next
<1>2. \A c \in Lanes : next_page'[c] = 0 /\ \A p \in Pages : meta_table'[c][p] = NoMeta
  BY DEF BeginPrefill, NewCache, EmptyCache
<1>3. ~ HasMeta(NoMeta)
  BY DEF NoMeta, HasMeta
<1>4. \A c \in Lanes : LaneInOrder(c)'
  <2> SUFFICES ASSUME NEW c \in Lanes PROVE LaneInOrder(c)'
    OBVIOUS
  <2>1. \A p \in Pages : ~ HasMeta(meta_table'[c][p])
    BY <1>2, <1>3
  <2>2. 0 .. next_page'[c] - 2 = {}
    BY <1>2
  <2> QED
    BY <2>1, <2>2 DEF LaneInOrder, HasMeta
<1>5. /\ call'.phase = "prefill" /\ call'.layer = 0 /\ call'.head = 0 /\ call'.page = 0
  BY DEF BeginPrefill
<1>6. PrefillInv'
  <2>1. Lane' \in Lanes
    BY <1>1, LaneType, ShapeAssumption, <1>5 DEF Lane, Lanes, Layers, Heads
  <2>2. \A c \in Lanes : ~ Visited(c)'
    BY <1>5 DEF Visited, Lanes, Layers, Heads
  <2>3. next_page'[Lane'] = call'.page
    BY <1>2, <1>5, <2>1
  <2>4. 0 .. call'.page - 1 = {}
    BY <1>5
  <2> QED
    BY <1>2, <2>2, <2>3, <2>4 DEF PrefillInv
<1> QED
  BY <1>1, <1>4, <1>5, <1>6 DEF PositionInv

(* A write to one page of a lane, whose process_page then succeeded or not.*)
PageWrite(c, p, v, start, processed) ==
  /\ next_page' = [next_page EXCEPT ![c] = p + 1]
  /\ valid_tokens' = [valid_tokens EXCEPT ![c][p] = v]
  /\ IF processed THEN \E sel : \E n \in Nat \ {0} : SetMeta(c, p, start, n, sel)
     ELSE meta_table' = meta_table

(* It keeps every lane in order and the other lanes as they are. *)
LEMMA WriteKeepsOrder ==
  ASSUME TypeOK, NEW c \in Lanes, NEW p \in Pages, NEW v \in 1 .. PageSize,
         \A d \in Lanes : LaneInOrder(d), \A q \in 0 .. p - 1 : Full(c, q),
         NEW start, NEW processed \in BOOLEAN, processed => start = p * PageSize,
         PageWrite(c, p, v, start, processed)
  PROVE  /\ \A d \in Lanes : LaneInOrder(d)'
         /\ \A d \in Lanes : d # c => Untouched(d)
         /\ next_page'[c] = p + 1
         /\ processed \/ v # PageSize => Holds(c, p * PageSize + v)'
         /\ processed /\ v = PageSize => \A q \in 0 .. p : Full(c, q)'
<1>1. /\ next_page' = [next_page EXCEPT ![c] = p + 1]
      /\ valid_tokens' = [valid_tokens EXCEPT ![c][p] = v]
  BY DEF PageWrite
<1>2. /\ \A q \in Pages \ {p} : meta_table'[c][q] = meta_table[c][q]
      /\ HasMeta(meta_table'[c][p]) => meta_table'[c][p].token_start = p * PageSize
      /\ processed => HasMeta(meta_table'[c][p])
      /\ meta_table' = meta_table \/ \E m : meta_table' = [meta_table EXCEPT ![c][p] = m]
  <2>1. CASE processed
    <3>1. PICK sel : \E n \in Nat \ {0} : SetMeta(c, p, start, n, sel)
      BY <2>1 DEF PageWrite
    <3> QED
      BY <2>1, <3>1, MetaWritten
  <2>2. CASE ~ processed
    <3>1. meta_table' = meta_table
      BY <2>2 DEF PageWrite
    <3> QED
      BY <2>2, <3>1 DEF LaneInOrder
  <2> QED
    BY <2>1, <2>2
<1>3. /\ LaneInOrder(c)' /\ next_page'[c] = p + 1 /\ valid_tokens'[c][p] = v
      /\ \A q \in 0 .. p - 1 : Full(c, q)'
      /\ (v = PageSize => HasMeta(meta_table'[c][p])) => Holds(c, p * PageSize + v)'
  <2>1. LaneInOrder(c)
    OBVIOUS
  <2> QED
    BY <1>1, <1>2, <2>1, PageWritten
<1>4. ASSUME NEW d \in Lanes, d # c PROVE Untouched(d)
  BY <1>1, <1>2, <1>4, OtherLanes
<1>5. \A d \in Lanes : LaneInOrder(d)'
  BY <1>3, <1>4, UntouchedLane
<1>6. ASSUME processed, v = PageSize PROVE \A q \in 0 .. p : Full(c, q)'
  <2>1. Full(c, p)'
    BY <1>2, <1>3, <1>6 DEF Full, HasMeta
  <2>2. \A q \in 0 .. p : q = p \/ q \in 0 .. p - 1
    BY DEF Pages
  <2> QED
    BY <1>3, <2>1, <2>2
<1> QED
  BY <1>2, <1>3, <1>4, <1>5, <1>6

(* A page of the prompt, processed or not. *)
LEMMA PrefillWrites ==
  ASSUME PositionInv, call.phase = "prefill", WriteChunk(Lane, next_page[Lane]),
         NEW processed \in BOOLEAN,
         IF processed
         THEN \E sel : SetMeta(Lane, next_page[Lane], ChunkStart, ChunkLen, sel)
         ELSE meta_table' = meta_table,
         NEW c, c = Lane, NEW p, p = call.page, NEW n, n = ChunkStart + ChunkLen
  PROVE  /\ \A d \in Lanes : LaneInOrder(d)'
         /\ \A d \in Lanes : d # c => Untouched(d)
         /\ next_page'[c] = p + 1
         /\ processed => Holds(c, n)'
         /\ processed /\ ChunkLen = PageSize => \A q \in 0 .. p : Full(c, q)'
<1>1. /\ TypeOK /\ TypeInv /\ c \in Lanes /\ PrefillInv
      /\ \A d \in Lanes : LaneInOrder(d)
  BY LaneType DEF PositionInv, TypeInv
<1>2. p = next_page[c] /\ p \in Nat /\ \A q \in 0 .. p - 1 : Full(c, q)
  BY <1>1 DEF PrefillInv, TypeOK
<1>3. p \in Pages
  BY <1>1, <1>2, WriteChunkType
<1>4. PICK v, start : v = ChunkLen /\ start = ChunkStart
  OBVIOUS
<1>5. v \in 1 .. PageSize /\ start = p * PageSize
  <2>1. PageSize \in Nat \ {0} /\ call.page \in Nat /\ Len(input_ids) \in Nat
    BY <1>1, ShapeAssumption DEF TypeOK
  <2>2. ChunkStart \in Nat /\ ChunkStart < Len(input_ids)
    BY <1>1, <2>1 DEF TypeInv, InPrompt, ChunkStart
  <2>3. start = p * PageSize
    BY <1>2, <1>4 DEF ChunkStart
  <2>4. ChunkLen \in 1 .. PageSize
    BY <2>1, <2>2 DEF ChunkLen
  <2> QED
    BY <1>4, <2>3, <2>4
<1>6. PageWrite(c, p, v, start, processed)
  <2>1. v \in Nat \ {0}
    BY <1>5, ShapeAssumption
  <2>2. /\ next_page' = [next_page EXCEPT ![c] = p + 1]
        /\ valid_tokens' = [valid_tokens EXCEPT ![c][p] = v]
    BY <1>2, <1>4 DEF WriteChunk
  <2>3. IF processed THEN \E sel : SetMeta(c, p, start, v, sel)
        ELSE meta_table' = meta_table
    BY <1>2, <1>4
  <2> QED
    BY <2>1, <2>2, <2>3 DEF PageWrite
<1>7. /\ \A d \in Lanes : LaneInOrder(d)'
      /\ \A d \in Lanes : d # c => Untouched(d)
      /\ next_page'[c] = p + 1
      /\ processed \/ v # PageSize => Holds(c, p * PageSize + v)'
      /\ processed /\ v = PageSize => \A q \in 0 .. p : Full(c, q)'
  BY <1>1, <1>2, <1>3, <1>5, <1>6, WriteKeepsOrder
<1>8. n = p * PageSize + v
  BY <1>4, <1>5
<1> QED
  BY <1>4, <1>7, <1>8

(* A page of the prompt extends its lane by the chunk it holds. *)
LEMMA PrefillPageStep == PositionInv /\ PrefillPage => PositionInv'
<1> SUFFICES ASSUME PositionInv, PrefillPage PROVE PositionInv'
  OBVIOUS
<1>1. TypeInv' /\ TypeOK /\ Lane \in Lanes /\ PrefillInv /\ call.phase = "prefill"
  BY TypeInvStep, LaneType DEF PositionInv, TypeInv, PrefillPage, Next
<1>2. /\ WriteChunk(Lane, next_page[Lane]) /\ input_ids' = input_ids
      /\ \E sel : SetMeta(Lane, next_page[Lane], ChunkStart, ChunkLen, sel)
  BY DEF PrefillPage, StoreResiduals
<1>0. PICK c, p, n : c = Lane /\ p = call.page /\ n = ChunkStart + ChunkLen
  OBVIOUS
<1>3. /\ \A d \in Lanes : LaneInOrder(d)'
      /\ \A d \in Lanes : d # c => Untouched(d)
      /\ next_page'[c] = p + 1
      /\ Holds(c, n)'
      /\ ChunkLen = PageSize => \A q \in 0 .. p : Full(c, q)'
  BY <1>0, <1>1, <1>2, PrefillWrites
<1>4. PageSize \in Nat /\ call.page \in Nat /\ Len(input_ids) \in Nat /\ ChunkStart \in Nat
  BY <1>1, ShapeAssumption DEF TypeOK, ChunkStart
<1>5. \A d \in Lanes : d # c => (\A k : Holds(d, k) => Holds(d, k)')
                                   /\ next_page'[d] = next_page[d]
  BY <1>3, UntouchedLane DEF Untouched
<1>6. CASE ChunkStart + PageSize < Len(input_ids)
  <2>1. call' = [call EXCEPT !.page = @ + 1]
    BY <1>6 DEF PrefillPage
  <2>2. /\ call'.phase = "prefill" /\ call'.layer = call.layer /\ call'.head = call.head
        /\ call'.page = call.page + 1
    BY <1>1, <2>1 DEF TypeOK
  <2>3. ChunkLen = PageSize
    BY <1>4, <1>6 DEF ChunkLen
  <2>4. Lane' = Lane /\ \A d \in Lanes : Visited(d)' <=> Visited(d)
    BY <2>2 DEF Lane, Visited
  <2>5. ~ Visited(Lane)
    BY <1>1 DEF Visited, Lane, TypeOK, Layers, Heads
  <2>6. \A d \in Lanes : Visited(d)' => Holds(d, Len(input_ids))'
    <3>1. PICK k : k = Len(input_ids)
      OBVIOUS
    <3>2. \A d \in Lanes : Visited(d)' => Holds(d, k)'
      BY <1>0, <1>1, <1>5, <2>4, <2>5, <3>1 DEF PrefillInv
    <3> QED
      BY <1>2, <3>1, <3>2 DEF Holds, HasMeta
  <2>7. \A q \in 0 .. call'.page - 1 : Full(c, q)'
    BY <1>0, <1>3, <1>4, <2>2, <2>3
  <2>8. PrefillInv'
    <3>1. \A d \in Lanes : ~ Visited(d)' /\ d # Lane' => next_page'[d] = 0
      BY <1>0, <1>1, <1>5, <2>4 DEF PrefillInv
    <3>2. next_page'[Lane'] = call'.page
      BY <1>0, <1>3, <2>2, <2>4
    <3>3. \A q \in 0 .. call'.page - 1 : Full(Lane, q)'
      BY <1>0, <2>4, <2>7 DEF Full, HasMeta
    <3> QED
      BY <2>6, <3>1, <3>2, <3>3 DEF PrefillInv
  <2> QED
    BY <1>1, <1>3, <2>2, <2>8 DEF PositionInv
<1>7. CASE ~ (ChunkStart + PageSize < Len(input_ids))
  <2>1. call' = NextLane
    BY <1>7 DEF PrefillPage
  <2>2. ChunkStart + ChunkLen = Len(input_ids)
    <3>1. Len(input_ids) - ChunkStart <= PageSize
      BY <1>4, <1>7
    <3>2. ChunkLen = Len(input_ids) - ChunkStart
      BY <1>4, <3>1 DEF ChunkLen
    <3> QED
      BY <1>4, <3>2
  <2>3. \A d \in Lanes : Visited(d) \/ d = Lane => Holds(d, Len(input_ids))'
    <3>1. \A d \in Lanes : Visited(d) \/ d = Lane => Holds(d, n)'
      BY <1>0, <1>1, <1>3, <1>5, <2>2 DEF PrefillInv
    <3> QED
      BY <1>0, <1>2, <2>2, <3>1 DEF Holds, HasMeta
  <2>4. \/ call'.phase = "idle" /\ \A d \in Lanes : Visited(d) \/ d = Lane
        \/ /\ call'.phase = call.phase /\ NextLane.page = 0
           /\ \A d \in Lanes : Visited(d)' <=> Visited(d) \/ d = Lane
    BY <1>1, <2>1, NextLaneVisits
  <2>5. CASE call'.phase = "idle" /\ \A d \in Lanes : Visited(d) \/ d = Lane
    BY <1>1, <1>2, <1>3, <2>3, <2>5 DEF PositionInv
  <2>6. CASE /\ call'.phase = call.phase /\ NextLane.page = 0
             /\ \A d \in Lanes : Visited(d)' <=> Visited(d) \/ d = Lane
    <3>1. Lane' \in Lanes /\ ~ Visited(Lane)'
      <4>1. /\ call'.layer \in Layers /\ call'.head \in Heads
        BY <1>1 DEF TypeInv, TypeOK
      <4>2. Lane' = <<call'.layer, call'.head>>
        BY DEF Lane
      <4>3. Lane' \in Lanes
        BY <4>1, <4>2 DEF Lanes
      <4>4. ~ (call'.layer < call'.layer) /\ ~ (call'.head < call'.head)
        BY <4>1, ShapeAssumption DEF Layers, Heads
      <4>5. ~ Visited(Lane)'
        BY <4>2, <4>4 DEF Visited
      <4> QED
        BY <4>3, <4>5
    <3>2. \A d \in Lanes : ~ Visited(d)' => next_page'[d] = 0
      BY <1>0, <1>1, <1>5, <2>6 DEF PrefillInv
    <3>3. next_page'[Lane'] = call'.page /\ call'.page = 0
      BY <2>1, <2>6, <3>1, <3>2 DEF Visited, Lane
    <3>4. 0 .. call'.page - 1 = {}
      BY <3>3
    <3>5. PrefillInv'
      BY <1>2, <2>3, <2>6, <3>2, <3>3, <3>4 DEF PrefillInv
    <3> QED
      BY <1>1, <1>3, <2>6, <3>5 DEF PositionInv
  <2> QED
    BY <2>4, <2>5, <2>6
<1> QED
  BY <1>6, <1>7

(* A page whose residuals found no slot is the last of its lane. *)
LEMMA PrefillNoSlotStep == PositionInv /\ PrefillNoSlot => PositionInv'
<1> SUFFICES ASSUME PositionInv, PrefillNoSlot PROVE PositionInv'
  OBVIOUS
<1>1. TypeInv' /\ call.phase = "prefill" /\ call'.phase = "slots_full"
  BY TypeInvStep DEF PositionInv, TypeInv, TypeOK, PrefillNoSlot, Raise, Next
<1>2. WriteChunk(Lane, next_page[Lane]) /\ meta_table' = meta_table
  BY DEF PrefillNoSlot, StoreFails
<1>3. \A d \in Lanes : LaneInOrder(d)'
  BY <1>1, <1>2, PrefillWrites
<1> QED
  BY <1>1, <1>3 DEF PositionInv

(* The position a decode step begins with is the length of the context. *)
LEMMA BeginDecodeStep == PositionInv /\ BeginDecode => PositionInv'
<1> SUFFICES ASSUME PositionInv, BeginDecode PROVE PositionInv'
  OBVIOUS
<1>1. TypeInv' /\ TypeOK /\ call.phase = "idle" /\ \A c \in Lanes : Holds(c, Len(input_ids))
  BY TypeInvStep DEF PositionInv, TypeInv, BeginDecode, Next
<1>2. \A c \in Lanes : Untouched(c)
  BY DEF BeginDecode, store, Untouched
<1>3. /\ call'.phase = "decode" /\ call'.layer = 0 /\ call'.head = 0
      /\ call'.pos = total_valid_tokens(<<0, 0>>)
  BY DEF BeginDecode
<1>4. Len(input_ids') - 1 = Len(input_ids) /\ Len(input_ids) \in Nat
  <2>1. PICK tok \in Token : input_ids' = Append(input_ids, tok)
    BY DEF BeginDecode
  <2> QED
    BY <1>1, <2>1 DEF TypeOK
<1>5. <<0, 0>> \in Lanes
  BY ShapeAssumption DEF Lanes, Layers, Heads
<1>6. call'.pos = Len(input_ids') - 1
  BY <1>1, <1>3, <1>4, <1>5, HeldTokens DEF PositionInv
<1>7. \A c \in Lanes : ~ Visited(c)'
  BY <1>3 DEF Visited, Lanes, Layers, Heads
<1>8. \A c \in Lanes : Holds(c, Len(input_ids) - 1)'
  <2>1. PICK n : n = Len(input_ids)
    OBVIOUS
  <2>2. \A c \in Lanes : Holds(c, n)'
    BY <1>1, <1>2, <2>1, UntouchedLane
  <2> QED
    BY <1>4, <2>1, <2>2 DEF Holds, HasMeta
<1>9. \A c \in Lanes : LaneInOrder(c)'
  BY <1>2, UntouchedLane DEF PositionInv
<1>10. DecodeInv'
  BY <1>6, <1>7, <1>8 DEF DecodeInv
<1> QED
  BY <1>1, <1>3, <1>9, <1>10 DEF PositionInv

(* A decode step on one lane, processed or not. *)
LEMMA DecodeWrites ==
  ASSUME PositionInv, call.phase = "decode",
         AppendRow(Lane, DecodePage(Lane), DecodeOffset(Lane)),
         NEW processed \in BOOLEAN,
         IF processed
         THEN /\ PageFilled(DecodeOffset(Lane))
              /\ \E sel : SetMeta(Lane, DecodePage(Lane), call.pos + 1 - PageSize,
                                  PageSize, sel)
         ELSE meta_table' = meta_table,
         NEW c, c = Lane, NEW n, n = Len(input_ids)
  PROVE  /\ \A d \in Lanes : LaneInOrder(d)'
         /\ \A d \in Lanes : d # c => Untouched(d)
         /\ processed \/ ~ PageFilled(DecodeOffset(c)) => Holds(c, n)'
<1>0. PICK p, o, start : /\ p = DecodePage(c) /\ o = DecodeOffset(c)
                         /\ start = call.pos + 1 - PageSize
  OBVIOUS
<1>1. /\ TypeOK /\ TypeInv /\ c \in Lanes /\ DecodeInv
      /\ \A d \in Lanes : LaneInOrder(d)
  BY LaneType DEF PositionInv, TypeInv
<1>2. /\ PageSize \in Nat \ {0} /\ n \in Nat /\ n - 1 \in Nat
      /\ p \in Pages /\ p \in Nat /\ o \in 0 .. PageSize - 1
  <2>1. input_ids \in Seq(Token) /\ input_ids # <<>>
    BY <1>1 DEF TypeInv, TypeOK, InPrompt
  <2>2. p \in Pages /\ o \in Rows
    BY <1>0, <1>1, AppendRowType
  <2>3. PageSize \in Nat \ {0}
    BY ShapeAssumption
  <2> QED
    BY <2>1, <2>2, <2>3 DEF Pages, Rows
<1>3. ~ Visited(c)
  BY <1>1 DEF Visited, Lane, TypeOK, Layers, Heads
<1>4. /\ \A q \in 0 .. p - 1 : Full(c, q)
      /\ p * PageSize + o = n - 1
  <2>1. Holds(c, n - 1)
    BY <1>1, <1>3 DEF DecodeInv
  <2> QED
    BY <1>0, <1>1, <1>2, <2>1, DecodeTarget
<1>5. PageWrite(c, p, o + 1, start, processed)
  <2>1. /\ next_page' = [next_page EXCEPT ![c] = p + 1]
        /\ valid_tokens' = [valid_tokens EXCEPT ![c][p] = o + 1]
    BY <1>0 DEF AppendRow
  <2>2. IF processed THEN \E sel : SetMeta(c, p, start, PageSize, sel)
        ELSE meta_table' = meta_table
    BY <1>0
  <2> QED
    BY <1>2, <2>1, <2>2 DEF PageWrite
<1>6. /\ processed => o + 1 = PageSize
      /\ o + 1 = PageSize <=> PageFilled(DecodeOffset(c))
  BY <1>0 DEF PageFilled
<1>7. PICK before \in Nat : before = p * PageSize
  BY <1>2
<1>8. o + 1 \in 1 .. PageSize /\ before + (o + 1) = n
  BY <1>2, <1>4, <1>7
<1>9. processed => start = before
  <2>1. call.pos = n - 1
    BY <1>1 DEF DecodeInv
  <2>2. before + o = n - 1
    BY <1>4, <1>7
  <2> QED
    BY <1>0, <1>2, <1>6, <2>1, <2>2
<1>10. /\ \A d \in Lanes : LaneInOrder(d)'
       /\ \A d \in Lanes : d # c => Untouched(d)
       /\ processed \/ o + 1 # PageSize => Holds(c, p * PageSize + (o + 1))'
  BY <1>1, <1>2, <1>4, <1>5, <1>7, <1>8, <1>9, WriteKeepsOrder
<1> QED
  BY <1>6, <1>7, <1>8, <1>10

(* A decode step moves one lane from the old context to the new one. *)
LEMMA DecodeHeadStep == PositionInv /\ DecodeHead => PositionInv'
<1> SUFFICES ASSUME PositionInv, DecodeHead PROVE PositionInv'
  OBVIOUS
<1>0. PICK c, n : c = Lane /\ n = Len(input_ids)
  OBVIOUS
<1>1. /\ TypeInv' /\ TypeOK /\ c \in Lanes /\ DecodeInv /\ call.phase = "decode"
      /\ \A d \in Lanes : LaneInOrder(d)
  BY <1>0, TypeInvStep, LaneType DEF PositionInv, TypeInv, DecodeHead, Next
<1>2. /\ AppendRow(Lane, DecodePage(Lane), DecodeOffset(Lane))
      /\ input_ids' = input_ids /\ call' = AfterDecode
  BY DEF DecodeHead
<1>3. /\ \A d \in Lanes : LaneInOrder(d)'
      /\ \A d \in Lanes : d # c => Untouched(d)
      /\ Holds(c, n)'
  <2>1. CASE PageFilled(DecodeOffset(Lane))
    <3>1. \E sel : SetMeta(Lane, DecodePage(Lane), call.pos + 1 - PageSize, PageSize, sel)
      BY <2>1 DEF DecodeHead, StoreResiduals
    <3> QED
      BY <1>0, <1>1, <1>2, <2>1, <3>1, DecodeWrites
  <2>2. CASE ~ PageFilled(DecodeOffset(Lane))
    <3>1. meta_table' = meta_table
      BY <2>2 DEF DecodeHead, KeepResiduals
    <3> QED
      BY <1>0, <1>1, <1>2, <2>2, <3>1, DecodeWrites
  <2> QED
    BY <2>1, <2>2
<1>4. /\ n - 1 \in Nat
      /\ \A d \in Lanes : d # c =>
           /\ Visited(d) => Holds(d, n)'
           /\ ~ Visited(d) => Holds(d, n - 1) /\ Holds(d, n - 1)'
  <2>1. input_ids \in Seq(Token) /\ input_ids # <<>>
    BY <1>1 DEF PositionInv, TypeInv, TypeOK, InPrompt
  <2> QED
    BY <1>0, <1>1, <1>3, <2>1, UntouchedLane DEF DecodeInv
<1>5. NextLane \in [phase : Phases, layer : Layers, head : Heads, page : Nat, pos : Nat]
  BY <1>1, NextLaneType
<1>6. /\ call'.phase = NextLane.phase /\ call'.layer = NextLane.layer
      /\ call'.head = NextLane.head
  BY <1>2, <1>5 DEF AfterDecode
<1>7. \/ call'.phase = "idle" /\ \A d \in Lanes : Visited(d) \/ d = c
      \/ /\ call'.phase = call.phase /\ NextLane.page = 0
         /\ \A d \in Lanes : Visited(d)' <=> Visited(d) \/ d = c
  BY <1>0, <1>1, <1>6, NextLaneVisits
<1>8. CASE call'.phase = "idle" /\ \A d \in Lanes : Visited(d) \/ d = c
  <2>1. \A d \in Lanes : Holds(d, n)'
    BY <1>3, <1>4, <1>8
  <2>2. \A d \in Lanes : Holds(d, Len(input_ids))'
    BY <1>0, <1>2, <2>1 DEF Holds, HasMeta
  <2> QED
    BY <1>1, <1>3, <1>8, <2>2 DEF PositionInv
<1>9. CASE /\ call'.phase = call.phase /\ NextLane.page = 0
           /\ \A d \in Lanes : Visited(d)' <=> Visited(d) \/ d = c
  <2>1. call'.pos = n - 1
    <3>1. CASE NextLane.layer = call.layer
      BY <1>0, <1>1, <1>2, <3>1 DEF AfterDecode, NextLane, DecodeInv, TypeOK
    <3>2. CASE NextLane.layer # call.layer
      <4>1. PICK e : e = <<NextLane.layer, 0>>
        OBVIOUS
      <4>2. call'.pos = total_valid_tokens(e) /\ call'.head = 0 /\ call'.layer # call.layer
        BY <1>2, <1>5, <1>6, <3>2, <4>1 DEF AfterDecode, NextLane
      <4>3. e \in Lanes /\ e # c
        BY <1>0, <1>5, <3>2, <4>1, ShapeAssumption DEF Lanes, Heads, Lane
      <4>4. ~ Visited(e)'
        BY <1>5, <1>6, <4>1, <4>2, ShapeAssumption DEF Heads, Layers, Visited
      <4>5. Holds(e, n - 1)
        BY <1>4, <1>9, <4>3, <4>4
      <4> QED
        BY <1>1, <1>4, <4>2, <4>3, <4>5, HeldTokens
    <3> QED
      BY <3>1, <3>2
  <2>2. \A d \in Lanes : /\ Visited(d)' => Holds(d, n)'
                         /\ ~ Visited(d)' => Holds(d, n - 1)'
    BY <1>3, <1>4, <1>9
  <2>3. DecodeInv'
    BY <1>0, <1>2, <2>1, <2>2 DEF DecodeInv, Holds, HasMeta
  <2> QED
    BY <1>1, <1>3, <1>9, <2>3 DEF PositionInv
<1> QED
  BY <1>7, <1>8, <1>9

(* A filled page whose residuals found no slot is the last of its lane. *)
LEMMA DecodeNoSlotStep == PositionInv /\ DecodeNoSlot => PositionInv'
<1> SUFFICES ASSUME PositionInv, DecodeNoSlot PROVE PositionInv'
  OBVIOUS
<1>1. TypeInv' /\ call.phase = "decode" /\ call'.phase = "slots_full"
  BY TypeInvStep DEF PositionInv, TypeInv, TypeOK, DecodeNoSlot, Raise, Next
<1>2. /\ AppendRow(Lane, DecodePage(Lane), DecodeOffset(Lane))
      /\ meta_table' = meta_table
  BY DEF DecodeNoSlot, StoreFails
<1>3. \A d \in Lanes : LaneInOrder(d)'
  BY <1>1, <1>2, DecodeWrites
<1> QED
  BY <1>1, <1>3 DEF PositionInv

(* A full lane is left as it is. *)
LEMMA CacheFullStep == PositionInv /\ CacheFull => PositionInv'
<1> SUFFICES ASSUME PositionInv, CacheFull PROVE PositionInv'
  OBVIOUS
<1>1. TypeInv' /\ call'.phase = "pages_full"
  BY TypeInvStep DEF PositionInv, TypeInv, TypeOK, CacheFull, Raise, Next
<1>2. \A c \in Lanes : Untouched(c)
  BY DEF CacheFull, store, Untouched
<1>3. \A c \in Lanes : LaneInOrder(c)'
  BY <1>2, UntouchedLane DEF PositionInv
<1> QED
  BY <1>1, <1>3 DEF PositionInv

(* The invariant is inductive. *)
LEMMA PositionInvStep == PositionInv /\ [Next]_vars => PositionInv'
<1>1. PositionInv /\ UNCHANGED vars => PositionInv'
  <2> SUFFICES ASSUME PositionInv, UNCHANGED vars PROVE PositionInv'
    OBVIOUS
  <2>1. TypeInv'
    BY TypeInvStep DEF PositionInv
  <2>2. /\ call' = call /\ input_ids' = input_ids /\ next_page' = next_page
        /\ valid_tokens' = valid_tokens /\ meta_table' = meta_table
    BY DEF vars
  <2> QED
    BY <2>1, <2>2 DEF PositionInv, PrefillInv, DecodeInv, LaneInOrder, Holds, Full,
                      HasMeta, Visited, Lane
<1> QED
  BY <1>1, BeginPrefillStep, PrefillPageStep, PrefillNoSlotStep, BeginDecodeStep,
     DecodeHeadStep, DecodeNoSlotStep, CacheFullStep DEF Next

-------------------------------------------------------------------------------
(* The theorems *)

(* It holds in every reachable state. *)
LEMMA PositionCorrect == Spec => []PositionInv
  BY PositionInvInit, PositionInvStep, PTL DEF Spec

(* Only the last page of a lane is ever open or unprocessed, so that the     *)
(* next decode step finds the open page by looking at the last one.        *)
THEOREM OnlyLastOpen == Spec => []OnlyLastPageOpen
<1>1. PositionInv => OnlyLastPageOpen
  BY DEF PositionInv, LaneInOrder, Full, OnlyLastPageOpen
<1> QED
  BY <1>1, PositionCorrect, PTL

(* The pages before a page of a lane are full. *)
LEMMA EarlierPagesFull ==
  ASSUME PositionInv, NEW c \in Lanes, NEW p \in all_page_ids(c)
  PROVE  p \in Nat /\ p \in Pages /\ \A q \in 0 .. p - 1 : Full(c, q)
<1>1. TypeOK /\ LaneInOrder(c)
  BY DEF PositionInv, TypeInv
<1>2. next_page[c] \in 0 .. MaxPages /\ MaxPages \in Nat
  BY <1>1, ShapeAssumption DEF TypeOK
<1>3. p \in 0 .. next_page[c] - 1
  BY DEF all_page_ids
<1> QED
  BY <1>1, <1>2, <1>3 DEF LaneInOrder, Pages

(* The router counts what its lane holds before a page: all full pages. *)
LEMMA PageOffset ==
  ASSUME PositionInv, NEW c \in Lanes, NEW p \in all_page_ids(c)
  PROVE  /\ TokensBefore(c, p) = p * PageSize
         /\ router_token_offset(c, p) = p * PageSize
<1>1. p \in Nat /\ \A q \in 0 .. p - 1 : valid_tokens[c][q] = PageSize /\ HasMeta(meta_table[c][q])
  BY EarlierPagesFull DEF Full
<1>2. {q \in 0 .. p - 1 : valid_tokens[c][q] > 0 /\ HasMeta(meta_table[c][q])} = 0 .. p - 1
  BY <1>1, ShapeAssumption
<1>3. TokensBefore(c, p) = p * PageSize
  BY <1>1, FullPagesCount DEF PositionInv, TypeInv
<1> QED
  BY <1>2, <1>3 DEF router_token_offset, TokensBefore

(* token_start, whether it was computed by the page loop of a prefill or   *)
(* from the position of head 0 in a decode step, is the lane's own count.  *)
THEOREM PositionsExact == Spec => []TokenStartExact
<1>1. PositionInv => TokenStartExact
  <2> SUFFICES ASSUME PositionInv, NEW c \in Lanes, NEW p \in all_page_ids(c),
                      HasMeta(meta_table[c][p])
               PROVE  meta_table[c][p].token_start = TokensBefore(c, p)
    BY DEF TokenStartExact
  <2>1. LaneInOrder(c) /\ p \in Pages
    BY EarlierPagesFull DEF PositionInv
  <2> QED
    BY <2>1, PageOffset DEF LaneInOrder
<1> QED
  BY <1>1, PositionCorrect, PTL

(* The router's running offset, which skips pages without metadata, is the *)
(* page's offset in the attention weights.                                 *)
THEOREM RouterAligned == Spec => []RouterOffsetsAligned
<1>1. PositionInv => RouterOffsetsAligned
  <2> SUFFICES ASSUME PositionInv, NEW c \in Lanes, NEW p \in all_page_ids(c)
               PROVE  router_token_offset(c, p) = TokensBefore(c, p)
    BY DEF RouterOffsetsAligned
  <2> QED
    BY PageOffset
<1> QED
  BY <1>1, PositionCorrect, PTL

-------------------------------------------------------------------------------
(* Reading a lane *)

(* Row t of page p is read at its own place. *)
ReadAt(c, all, p, t) ==
  /\ p * PageSize + t + 1 \in 1 .. Len(all)
  /\ all[p * PageSize + t + 1] = rows[c][p][t]

(* The rows that hold a token are read in order, and nothing else is. *)
Reads(c, all) ==
  /\ all \in Seq(Token \cup {Zero})
  /\ Len(all) = Tokens(c)
  /\ \A p \in all_page_ids(c) : \A t \in 0 .. valid_tokens[c][p] - 1 : ReadAt(c, all, p, t)
  /\ \A k \in 1 .. Len(all) :
       \E p \in all_page_ids(c) : \E t \in 0 .. valid_tokens[c][p] - 1 :
         k = p * PageSize + t + 1

LEMMA ReadLane ==
  ASSUME TypeOK, NEW c \in Lanes, LaneInOrder(c)
  PROVE  Reads(c, read_base_concat(c))
<1> DEFINE np == next_page[c]
           page(i) == [t \in 1 .. valid_tokens[c][i - 1] |-> rows[c][i - 1][t - 1]]
           seqs == [i \in 1 .. np |-> page(i)]
           all == FlattenSeq(seqs)
<1>1. /\ PageSize \in Nat \ {0} /\ MaxPages \in Nat /\ np \in 0 .. MaxPages /\ np \in Nat
      /\ valid_tokens[c] \in [Pages -> 0 .. PageSize]
      /\ rows[c] \in [Pages -> [Rows -> Token \cup {Zero}]]
  BY ShapeAssumption DEF TypeOK
<1>2. read_base_concat(c) = all /\ Len(seqs) = np
  BY <1>1 DEF read_base_concat
<1>3. ASSUME NEW i \in 1 .. np
      PROVE  /\ i - 1 \in Pages /\ i - 1 \in all_page_ids(c)
             /\ seqs[i] = page(i) /\ Len(seqs[i]) = valid_tokens[c][i - 1]
             /\ valid_tokens[c][i - 1] \in Nat
             /\ seqs[i] \in Seq(Token \cup {Zero})
  <2>1. i - 1 \in Pages /\ i - 1 \in all_page_ids(c)
    BY <1>1 DEF Pages, all_page_ids
  <2>2. PICK v \in 0 .. PageSize : v = valid_tokens[c][i - 1]
    BY <1>1, <2>1
  <2>3. \A t \in 1 .. v : t - 1 \in Rows
    BY <1>1 DEF Rows
  <2>4. page(i) \in [1 .. v -> Token \cup {Zero}]
    BY <1>1, <2>1, <2>2, <2>3
  <2>5. v \in Nat
    BY <1>1
  <2> HIDE DEF page
  <2>6. page(i) \in Seq(Token \cup {Zero}) /\ Len(page(i)) = v
    BY <2>4, <2>5
  <2> QED
    BY <2>1, <2>2, <2>5, <2>6
<1>4. CASE np = 0
  <2>1. Len(seqs) = 0 /\ all = seqs
    BY <1>2, <1>4 DEF FlattenSeq
  <2>2. seqs = <<>>
    BY <1>4
  <2>3. all_page_ids(c) = {} /\ Tokens(c) = 0
    BY <1>4 DEF all_page_ids, Tokens
  <2>4. all = <<>>
    BY <2>1, <2>2
  <2> HIDE DEF all, seqs
  <2>5. all \in Seq(Token \cup {Zero}) /\ Len(all) = 0
    BY <2>4
  <2> QED
    BY <1>2, <2>3, <2>5 DEF Reads
<1>5. CASE np # 0
  <2>1. \A i \in 1 .. np - 1 : Len(seqs[i]) = PageSize
    <3> SUFFICES ASSUME NEW i \in 1 .. np - 1 PROVE Len(seqs[i]) = PageSize
      OBVIOUS
    <3>1. i \in 1 .. np /\ i - 1 \in 0 .. next_page[c] - 2
      BY <1>1
    <3> QED
      BY <1>3, <3>1 DEF LaneInOrder, Full
  <2>2. /\ all \in Seq(Token \cup {Zero})
        /\ Laid(all, seqs, PageSize, np)
    <3>1. \A i \in 1 .. np : seqs[i] \in Seq(Token \cup {Zero})
      BY <1>3
    <3>2. Len(seqs) \in Nat \ {0} /\ Len(seqs) = np
      BY <1>1, <1>2, <1>5
    <3> HIDE DEF seqs, np, page
    <3>3. /\ \A i \in 1 .. Len(seqs) : seqs[i] \in Seq(Token \cup {Zero})
          /\ \A i \in 1 .. Len(seqs) - 1 : Len(seqs[i]) = PageSize
      BY <2>1, <3>1, <3>2
    <3>4. PageSize \in Nat
      BY <1>1
    <3>5. /\ FlattenSeq(seqs) \in Seq(Token \cup {Zero})
          /\ Laid(FlattenSeq(seqs), seqs, PageSize, Len(seqs))
      BY <3>2, <3>3, <3>4, FlattenLaid
    <3> QED
      BY <3>2, <3>5
  <2>3. np \in 1 .. np
    BY <1>1, <1>5
  <2>4. Len(all) = Tokens(c)
    BY <1>3, <1>5, <2>2, <2>3 DEF Laid, Tokens
  <2> HIDE DEF all, seqs
  <2>5. ASSUME NEW p \in all_page_ids(c), NEW t \in 0 .. valid_tokens[c][p] - 1
        PROVE  ReadAt(c, all, p, t)
    <3>1. p + 1 \in 1 .. np /\ (p + 1) - 1 = p
      BY <1>1 DEF all_page_ids
    <3>2. t + 1 \in 1 .. Len(seqs[p + 1]) /\ (t + 1) - 1 = t
      <4>1. Len(seqs[p + 1]) = valid_tokens[c][p] /\ valid_tokens[c][p] \in Nat
        BY <1>3, <3>1
      <4> QED
        BY <4>1
    <3>3. InPlace(all, seqs, PageSize, p + 1, t + 1)
      BY <2>2, <3>1, <3>2 DEF Laid
    <3>4. seqs[p + 1][t + 1] = rows[c][p][t]
      <4>1. seqs[p + 1] = page(p + 1)
        BY <1>3, <3>1
      <4>2. t + 1 \in 1 .. valid_tokens[c][(p + 1) - 1]
        BY <1>3, <3>1, <3>2
      <4>3. page(p + 1)[t + 1] = rows[c][(p + 1) - 1][(t + 1) - 1]
        BY <4>2
      <4> QED
        BY <3>1, <3>2, <4>1, <4>3
    <3>5. p * PageSize + (t + 1) = p * PageSize + t + 1
      <4>1. p * PageSize \in Int /\ t \in Int
        BY <1>1, <3>1, <3>2
      <4>2. \A a, b \in Int : a + (b + 1) = a + b + 1
        OBVIOUS
      <4> QED
        BY <4>1, <4>2
    <3> QED
      BY <3>1, <3>3, <3>4, <3>5 DEF InPlace, ReadAt
  <2>6. ASSUME NEW k \in 1 .. Len(all)
        PROVE  \E p \in all_page_ids(c) : \E t \in 0 .. valid_tokens[c][p] - 1 :
                 k = p * PageSize + t + 1
    <3>1. PICK i \in 1 .. np : \E u \in 1 .. Len(seqs[i]) : k = (i - 1) * PageSize + u
      BY <2>2 DEF Laid
    <3>2. PICK u \in 1 .. Len(seqs[i]) : k = (i - 1) * PageSize + u
      BY <3>1
    <3>3. i - 1 \in all_page_ids(c) /\ u - 1 \in 0 .. valid_tokens[c][i - 1] - 1
      <4>1. /\ i - 1 \in all_page_ids(c) /\ Len(seqs[i]) = valid_tokens[c][i - 1]
            /\ valid_tokens[c][i - 1] \in Nat
        BY <1>3
      <4>2. \A v \in Nat : \A x \in 1 .. v : x - 1 \in 0 .. v - 1
        OBVIOUS
      <4> QED
        BY <3>2, <4>1, <4>2
    <3>4. k = (i - 1) * PageSize + (u - 1) + 1
      <4>1. PICK a \in Int : a = (i - 1) * PageSize
        BY <1>1
      <4>2. u \in Nat
        BY <1>3
      <4> QED
        BY <3>2, <4>1, <4>2
    <3> QED
      BY <3>3, <3>4
  <2> QED
    BY <1>2, <2>2, <2>4, <2>5, <2>6 DEF Reads, all
<1> QED
  BY <1>4, <1>5

(* A lane holds the tokens of the context at their positions. *)
RowsMatch(c) ==
  \A p \in all_page_ids(c) : \A t \in 0 .. valid_tokens[c][p] - 1 :
    rows[c][p][t] = input_ids[p * PageSize + t + 1]

(* Such a lane is read as a prefix of the context. *)
LEMMA ReadPrefix ==
  ASSUME TypeOK, NEW c \in Lanes, LaneInOrder(c), RowsMatch(c),
         Tokens(c) <= Len(input_ids)
  PROVE  read_base_concat(c) = SubSeq(input_ids, 1, Tokens(c))
<1> DEFINE all == read_base_concat(c)
           n == Tokens(c)
<1>1. Reads(c, all)
  BY ReadLane
<1>2. n \in Nat /\ input_ids \in Seq(Token) /\ n <= Len(input_ids)
  BY LaneTokens DEF TypeOK
<1> HIDE DEF all, n
<1>3. /\ SubSeq(input_ids, 1, n) \in Seq(Token \cup {Zero})
      /\ Len(SubSeq(input_ids, 1, n)) = n
      /\ \A k \in 1 .. n : SubSeq(input_ids, 1, n)[k] = input_ids[k]
  <2>1. input_ids \in Seq(Token \cup {Zero})
    BY <1>2
  <2> QED
    BY <1>2, <2>1
<1>4. all \in Seq(Token \cup {Zero}) /\ Len(all) = n
  BY <1>1 DEF Reads, n
<1>5. \A k \in 1 .. n : all[k] = input_ids[k]
  <2> SUFFICES ASSUME NEW k \in 1 .. n PROVE all[k] = input_ids[k]
    OBVIOUS
  <2>1. PICK p \in all_page_ids(c) : \E t \in 0 .. valid_tokens[c][p] - 1 :
                                       k = p * PageSize + t + 1
    BY <1>1, <1>4 DEF Reads
  <2>2. PICK t \in 0 .. valid_tokens[c][p] - 1 : k = p * PageSize + t + 1
    BY <2>1
  <2>3. all[k] = rows[c][p][t]
    BY <1>1, <2>2 DEF Reads, ReadAt
  <2> QED
    BY <2>2, <2>3 DEF RowsMatch
<1>6. all = SubSeq(input_ids, 1, n)
  BY <1>3, <1>4, <1>5, SeqEqual
<1> QED
  BY <1>6 DEF all, n
-------------------------------------------------------------------------------
(* The context invariant *)

(* While the cache is usable, every lane holds what its position says. *)
ContextInv ==
  /\ PositionInv
  /\ call.phase \in {"idle", "prefill", "decode"} => \A c \in Lanes : RowsMatch(c)

(* A lane that is left alone is read as before. *)
LEMMA SameRead ==
  ASSUME NEW c, next_page'[c] = next_page[c], valid_tokens'[c] = valid_tokens[c],
         rows'[c] = rows[c]
  PROVE  read_base_concat(c)' = read_base_concat(c)
<1> QED
  BY DEF read_base_concat

(* So are the positions of its tokens. *)
LEMMA SameRows ==
  ASSUME NEW c, next_page'[c] = next_page[c], valid_tokens'[c] = valid_tokens[c],
         rows'[c] = rows[c], input_ids' = input_ids, RowsMatch(c)
  PROVE  RowsMatch(c)'
<1> QED
  BY DEF RowsMatch, all_page_ids

(* The first p pages of lane c hold the context up to there, and p gets v    *)
(* rows of it.                                                             *)
RowsWritten(c, p, v) ==
  /\ next_page' = [next_page EXCEPT ![c] = p + 1]
  /\ valid_tokens' = [valid_tokens EXCEPT ![c][p] = v]
  /\ \A q \in Pages : q < p => rows'[c][q] = rows[c][q]
  /\ \A t \in 0 .. v - 1 : rows'[c][p][t] = input_ids[p * PageSize + t + 1]
  /\ \A d \in Lanes : d # c => rows'[d] = rows[d]
  /\ input_ids' = input_ids

LEMMA WriteMatches ==
  ASSUME TypeOK, NEW c \in Lanes, NEW p \in Pages, NEW v \in 0 .. PageSize,
         next_page[c] \in {p, p + 1}, \A d \in Lanes : RowsMatch(d),
         RowsWritten(c, p, v)
  PROVE  /\ \A d \in Lanes : RowsMatch(d)'
         /\ \A d \in Lanes : d # c => read_base_concat(d)' = read_base_concat(d)
         /\ Tokens(c)' = p * PageSize + v
<1>1. /\ next_page \in [Lanes -> 0 .. MaxPages] /\ MaxPages \in Nat /\ p \in Nat
      /\ valid_tokens \in [Lanes -> [Pages -> 0 .. PageSize]]
      /\ PageSize \in Nat \ {0}
  <2>1. /\ next_page \in [Lanes -> 0 .. MaxPages]
        /\ valid_tokens \in [Lanes -> [Pages -> 0 .. PageSize]]
    BY DEF TypeOK
  <2> QED
    BY <2>1, ShapeAssumption DEF Pages
<1>2. \A d \in Lanes : d # c => /\ next_page'[d] = next_page[d] /\ rows'[d] = rows[d]
                               /\ valid_tokens'[d] = valid_tokens[d]
  BY DEF RowsWritten, TypeOK
<1>3. /\ next_page'[c] = p + 1 /\ valid_tokens'[c][p] = v
      /\ \A q \in Pages : q # p => valid_tokens'[c][q] = valid_tokens[c][q]
  BY <1>1 DEF RowsWritten
<1>4. \A d \in Lanes : d # c => read_base_concat(d)' = read_base_concat(d) /\ RowsMatch(d)'
  BY <1>2, SameRead, SameRows DEF RowsWritten
<1>5. Tokens(c)' = p * PageSize + v
  <2>1. next_page'[c] # 0 /\ next_page'[c] - 1 = p
    BY <1>1, <1>3
  <2> QED
    BY <1>3, <2>1 DEF Tokens
<1>6. RowsMatch(c)'
  <2> SUFFICES ASSUME NEW q \in all_page_ids(c)', NEW t \in 0 .. valid_tokens'[c][q] - 1
               PROVE  rows'[c][q][t] = input_ids[q * PageSize + t + 1]
    BY DEF RowsMatch, RowsWritten
  <2>1. q \in Pages /\ q \in Nat /\ q <= p
    BY <1>1, <1>3 DEF all_page_ids, Pages
  <2>2. CASE q = p
    BY <1>3, <2>2 DEF RowsWritten
  <2>3. CASE q # p
    <3>1. q < p /\ q \in all_page_ids(c) /\ valid_tokens'[c][q] = valid_tokens[c][q]
      BY <1>1, <1>3, <2>1, <2>3 DEF all_page_ids
    <3>2. rows'[c][q] = rows[c][q]
      BY <2>1, <3>1 DEF RowsWritten
    <3> QED
      BY <3>1, <3>2 DEF RowsMatch
  <2> QED
    BY <2>2, <2>3
<1> QED
  BY <1>4, <1>5, <1>6

(* What one lane holds during a prefill, between two of its pages. *)
LEMMA PrefillTokens ==
  ASSUME PositionInv, call.phase = "prefill"
  PROVE  /\ next_page[Lane] = call.page /\ Tokens(Lane) = ChunkStart
         /\ ChunkStart \in Nat /\ ChunkStart < Len(input_ids)
<1>1. /\ TypeOK /\ PrefillInv /\ Lane \in Lanes /\ call.page \in Nat
      /\ PageSize \in Nat \ {0} /\ Len(input_ids) \in Nat
      /\ call.page * PageSize < Len(input_ids)
  <2>1. TypeOK /\ PrefillInv /\ Lane \in Lanes /\ call.page * PageSize < Len(input_ids)
    BY LaneType DEF PositionInv, TypeInv, InPrompt
  <2>2. input_ids \in Seq(Token) /\ call.page \in Nat
    BY <2>1 DEF TypeOK
  <2> QED
    BY <2>1, <2>2, ShapeAssumption
<1>2. next_page[Lane] = call.page /\ \A q \in 0 .. call.page - 1 : Full(Lane, q)
  BY <1>1 DEF PrefillInv
<1>3. CASE call.page = 0
  BY <1>1, <1>2, <1>3 DEF Tokens, ChunkStart
<1>4. CASE call.page # 0
  <2>1. call.page - 1 \in 0 .. call.page - 1
    BY <1>1, <1>4
  <2>2. valid_tokens[Lane][call.page - 1] = PageSize
    BY <1>2, <2>1 DEF Full
  <2>3. (call.page - 1) * PageSize + PageSize = call.page * PageSize
    BY <1>1
  <2> QED
    BY <1>1, <1>2, <1>4, <2>2, <2>3 DEF Tokens, ChunkStart
<1> QED
  BY <1>3, <1>4

(* One page of the prompt. *)
LEMMA ChunkMatches ==
  ASSUME ContextInv, call.phase = "prefill", WriteChunk(Lane, next_page[Lane]),
         input_ids' = input_ids
  PROVE  /\ \A d \in Lanes : RowsMatch(d)'
         /\ \A d \in Lanes : d # Lane => read_base_concat(d)' = read_base_concat(d)
         /\ \A c \in {Lane} : Tokens(c)' = ChunkStart + ChunkLen
         /\ ChunkStart + ChunkLen \in ChunkStart + 1 .. Len(input_ids)
<1>1. /\ TypeOK /\ TypeInv /\ Lane \in Lanes /\ PositionInv /\ PageSize \in Nat \ {0}
      /\ \A d \in Lanes : RowsMatch(d)
  BY LaneType, ShapeAssumption DEF ContextInv, PositionInv, TypeInv
<1>2. PICK c, p : c = Lane /\ p = next_page[Lane]
  OBVIOUS
<1>3. /\ p = call.page /\ ChunkStart \in Nat /\ ChunkStart < Len(input_ids)
      /\ ChunkStart = p * PageSize /\ Len(input_ids) \in Nat /\ p \in Nat
  BY <1>1, <1>2, PrefillTokens DEF ChunkStart, TypeOK
<1>4. p \in Pages /\ ChunkLen \in 0 .. PageSize
  BY <1>1, <1>2, <1>3, WriteChunkType
<1>5. ChunkStart + ChunkLen \in ChunkStart + 1 .. Len(input_ids)
  <2>1. PICK s \in Nat : s = ChunkStart
    BY <1>3
  <2>2. PICK l \in Nat : l = Len(input_ids)
    BY <1>3
  <2>3. ChunkLen = IF l - s < PageSize THEN l - s ELSE PageSize
    BY <2>1, <2>2 DEF ChunkLen
  <2>4. s < l
    BY <1>3, <2>1, <2>2
  <2>5. s + ChunkLen \in s + 1 .. l
    BY <1>1, <2>3, <2>4
  <2> QED
    BY <2>1, <2>2, <2>5
<1>6. PICK v \in 0 .. PageSize : v = ChunkLen
  BY <1>4
<1> DEFINE page == [t \in Rows |-> IF t < v THEN input_ids[ChunkStart + t + 1] ELSE Zero]
<1>7. /\ next_page' = [next_page EXCEPT ![c] = p + 1]
      /\ valid_tokens' = [valid_tokens EXCEPT ![c][p] = v]
      /\ rows' = [rows EXCEPT ![c][p] = page]
  BY <1>2, <1>6 DEF WriteChunk
<1>8. \A t \in 0 .. v - 1 : page[t] = input_ids[p * PageSize + t + 1]
  BY <1>1, <1>3 DEF Rows
<1> HIDE DEF page
<1>9. /\ rows'[c][p] = page
      /\ \A q \in Pages : q # p => rows'[c][q] = rows[c][q]
      /\ \A d \in Lanes : d # c => rows'[d] = rows[d]
  BY <1>1, <1>2, <1>4, <1>7 DEF TypeOK
<1>10. RowsWritten(c, p, v)
  BY <1>3, <1>7, <1>8, <1>9 DEF RowsWritten
<1>11. /\ \A d \in Lanes : RowsMatch(d)'
       /\ \A d \in Lanes : d # c => read_base_concat(d)' = read_base_concat(d)
       /\ Tokens(c)' = p * PageSize + v
  BY <1>1, <1>2, <1>4, <1>10, WriteMatches
<1> QED
  BY <1>2, <1>3, <1>5, <1>6, <1>11

(* One token appended to a lane. *)
LEMMA AppendMatches ==
  ASSUME ContextInv, call.phase = "decode",
         AppendRow(Lane, DecodePage(Lane), DecodeOffset(Lane)), input_ids' = input_ids
  PROVE  /\ \A d \in Lanes : RowsMatch(d)'
         /\ \A d \in Lanes : d # Lane => read_base_concat(d)' = read_base_concat(d)
         /\ \A c \in {Lane} : Tokens(c)' = Len(input_ids)
         /\ Tokens(Lane) = Len(input_ids) - 1
<1>1. /\ TypeOK /\ TypeInv /\ Lane \in Lanes /\ PositionInv /\ PageSize \in Nat \ {0}
      /\ DecodeInv /\ \A d \in Lanes : RowsMatch(d) /\ LaneInOrder(d)
  BY LaneType, ShapeAssumption DEF ContextInv, PositionInv, TypeInv
<1>2. PICK c, p, o : c = Lane /\ p = DecodePage(Lane) /\ o = DecodeOffset(Lane)
  OBVIOUS
<1>3. /\ p \in Pages /\ o \in Rows /\ c \in Lanes
  BY <1>1, <1>2, AppendRowType
<1>4. /\ p \in Nat /\ o \in 0 .. PageSize - 1 /\ o + 1 \in 0 .. PageSize
      /\ Len(input_ids) \in Nat /\ Len(input_ids) - 1 \in Nat
  <2>1. input_ids \in Seq(Token) /\ input_ids # <<>>
    BY <1>1 DEF TypeInv, TypeOK, InPrompt
  <2> QED
    BY <1>1, <1>3, <2>1 DEF Pages, Rows
<1>5. Holds(c, Len(input_ids) - 1)
  <2>1. ~ Visited(c)
    BY <1>1, <1>2 DEF Visited, Lane, TypeOK, Layers, Heads
  <2> QED
    BY <1>1, <1>3, <2>1 DEF DecodeInv
<1>6. p * PageSize + o = Len(input_ids) - 1
  BY <1>1, <1>2, <1>3, <1>4, <1>5, DecodeTarget
<1>7. Tokens(c) = Len(input_ids) - 1
  BY <1>5 DEF Holds, Tokens
<1>8. PICK x : x = input_ids[Len(input_ids)]
  OBVIOUS
<1>9. /\ next_page' = [next_page EXCEPT ![c] = p + 1]
      /\ valid_tokens' = [valid_tokens EXCEPT ![c][p] = o + 1]
      /\ rows' = [rows EXCEPT ![c][p][o] = x]
  BY <1>2, <1>8 DEF AppendRow
<1>10. rows \in [Lanes -> [Pages -> [Rows -> Token \cup {Zero}]]]
  BY <1>1 DEF TypeOK
<1>11. /\ rows'[c][p] = [rows[c][p] EXCEPT ![o] = x]
       /\ \A q \in Pages : q # p => rows'[c][q] = rows[c][q]
       /\ \A d \in Lanes : d # c => rows'[d] = rows[d]
  BY <1>3, <1>9, <1>10
<1>12. rows[c][p] \in [Rows -> Token \cup {Zero}]
  BY <1>3, <1>10
<1>13. /\ next_page[c] \in {p, p + 1}
       /\ o > 0 => p \in all_page_ids(c) /\ valid_tokens[c][p] = o
  <2>0. next_page[c] \in Nat
    BY <1>1, <1>3, ShapeAssumption DEF TypeOK
  <2>1. CASE get_open_page(c) = Unused
    BY <1>2, <2>0, <2>1 DEF DecodePage, DecodeOffset
  <2>2. CASE get_open_page(c) # Unused
    <3>1. next_page[c] > 0 /\ p = next_page[c] - 1 /\ valid_tokens[c][p] = o
      BY <1>2, <2>2 DEF DecodePage, DecodeOffset, get_open_page
    <3> QED
      BY <2>0, <3>1 DEF all_page_ids
  <2> QED
    BY <2>1, <2>2
<1>14. \A t \in 0 .. o : rows'[c][p][t] = input_ids[p * PageSize + t + 1]
  <2> SUFFICES ASSUME NEW t \in 0 .. o
               PROVE  rows'[c][p][t] = input_ids[p * PageSize + t + 1]
    OBVIOUS
  <2>1. t \in Rows
    BY <1>1, <1>4 DEF Rows
  <2>2. CASE t = o
    <3>1. p * PageSize + t + 1 = Len(input_ids)
      BY <1>4, <1>6, <2>2
    <3> QED
      BY <1>8, <1>11, <1>12, <2>1, <2>2, <3>1
  <2>3. CASE t # o
    <3>1. rows'[c][p][t] = rows[c][p][t]
      BY <1>11, <1>12, <2>1, <2>3
    <3>2. t \in 0 .. o - 1 /\ o > 0
      BY <1>4, <2>3
    <3> QED
      BY <1>1, <1>3, <1>13, <3>1, <3>2 DEF RowsMatch
  <2> QED
    BY <2>2, <2>3
<1>15. RowsWritten(c, p, o + 1)
  <2>1. 0 .. (o + 1) - 1 = 0 .. o
    BY <1>4
  <2> QED
    BY <1>4, <1>9, <1>11, <1>14, <2>1 DEF RowsWritten, Pages
<1>16. /\ \A d \in Lanes : RowsMatch(d)'
       /\ \A d \in Lanes : d # c => read_base_concat(d)' = read_base_concat(d)
       /\ Tokens(c)' = p * PageSize + (o + 1)
  BY <1>1, <1>3, <1>4, <1>13, <1>15, WriteMatches
<1>17. Tokens(c)' = Len(input_ids)
  <2>1. p * PageSize \in Nat /\ o \in Nat
    BY <1>1, <1>4
  <2> QED
    BY <1>4, <1>6, <1>16, <2>1
<1> QED
  BY <1>2, <1>7, <1>16, <1>17

(* The longer context says the same of the tokens the lanes hold. *)
LEMMA BeginDecodeMatches ==
  ASSUME ContextInv, BeginDecode
  PROVE  \A c \in Lanes : RowsMatch(c)'
<1>1. /\ TypeOK /\ \A c \in Lanes : /\ RowsMatch(c) /\ LaneInOrder(c)
                                    /\ Holds(c, Len(input_ids))
  BY DEF ContextInv, PositionInv, TypeInv, BeginDecode
<1>2. PICK tok \in Token : input_ids' = Append(input_ids, tok)
  BY DEF BeginDecode
<1>3. UNCHANGED <<next_page, valid_tokens, rows>>
  BY DEF BeginDecode, store
<1> SUFFICES ASSUME NEW c \in Lanes, NEW p \in all_page_ids(c),
                    NEW t \in 0 .. valid_tokens[c][p] - 1
             PROVE  rows[c][p][t] = input_ids'[p * PageSize + t + 1]
  BY <1>3 DEF RowsMatch, all_page_ids
<1>4. Reads(c, read_base_concat(c)) /\ Tokens(c) = Len(input_ids)
  BY <1>1, ReadLane DEF Holds, Tokens
<1>5. p * PageSize + t + 1 \in 1 .. Len(input_ids)
  BY <1>4 DEF Reads, ReadAt
<1>6. input_ids'[p * PageSize + t + 1] = input_ids[p * PageSize + t + 1]
  BY <1>1, <1>2, <1>5 DEF TypeOK
<1> QED
  BY <1>1, <1>6 DEF RowsMatch

LEMMA ContextInvInit == Init => ContextInv
<1> SUFFICES ASSUME Init PROVE ContextInv
  OBVIOUS
<1>1. \A c \in Lanes : next_page[c] = 0
  BY DEF Init, EmptyCache
<1>2. \A c \in Lanes : RowsMatch(c)
  BY <1>1 DEF RowsMatch, all_page_ids
<1> QED
  BY <1>2, PositionInvInit DEF ContextInv

(* The invariant is inductive. *)
LEMMA ContextInvStep == ContextInv /\ [Next]_vars => ContextInv'
<1> SUFFICES ASSUME ContextInv, [Next]_vars PROVE ContextInv'
  OBVIOUS
<1>1. PositionInv /\ PositionInv' /\ call \in [phase : Phases, layer : Layers, head : Heads, page : Nat, pos : Nat]
  BY PositionInvStep DEF ContextInv, PositionInv, TypeInv, TypeOK
<1>2. CASE BeginPrefill
  <2>1. \A c \in Lanes : next_page'[c] = 0
    BY <1>2 DEF BeginPrefill, NewCache, EmptyCache
  <2>2. \A c \in Lanes : RowsMatch(c)'
    BY <2>1 DEF RowsMatch, all_page_ids
  <2> QED
    BY <1>1, <2>2 DEF ContextInv
<1>3. CASE PrefillPage \/ PrefillNoSlot
  <2>1. call.phase = "prefill" /\ WriteChunk(Lane, next_page[Lane]) /\ input_ids' = input_ids
    BY <1>3 DEF PrefillPage, PrefillNoSlot
  <2>2. \A c \in Lanes : RowsMatch(c)'
    BY <2>1, ChunkMatches
  <2> QED
    BY <1>1, <2>2 DEF ContextInv
<1>4. CASE BeginDecode
  BY <1>1, <1>4, BeginDecodeMatches DEF ContextInv
<1>5. CASE DecodeHead \/ DecodeNoSlot
  <2>1. /\ call.phase = "decode" /\ input_ids' = input_ids
        /\ AppendRow(Lane, DecodePage(Lane), DecodeOffset(Lane))
    BY <1>5 DEF DecodeHead, DecodeNoSlot
  <2>2. \A c \in Lanes : RowsMatch(c)'
    BY <2>1, AppendMatches
  <2> QED
    BY <1>1, <2>2 DEF ContextInv
<1>6. CASE CacheFull
  <2>1. call'.phase = "pages_full"
    BY <1>1, <1>6 DEF CacheFull, Raise
  <2> QED
    BY <1>1, <2>1 DEF ContextInv
<1>7. CASE UNCHANGED vars
  BY <1>1, <1>7 DEF vars, ContextInv, RowsMatch, all_page_ids
<1> QED
  BY <1>2, <1>3, <1>4, <1>5, <1>6, <1>7 DEF Next

(* It holds in every reachable state. *)
LEMMA ContextCorrect == Spec => []ContextInv
  BY ContextInvInit, ContextInvStep, PTL DEF Spec

-------------------------------------------------------------------------------
(* The cache implements KVContext *)

(* What the promise is about: every lane, as it is read. *)
Seen == [c \in Lanes |-> read_base_concat(c)]

(* A lane in order is read as the part of the context it holds. *)
PrefixRead(c) ==
  TypeOK /\ LaneInOrder(c) /\ RowsMatch(c) /\ Tokens(c) <= Len(input_ids)
    => read_base_concat(c) = SubSeq(input_ids, 1, Tokens(c))

AllPrefixesRead == \A c \in Lanes : PrefixRead(c)

LEMMA PrefixesRead == AllPrefixesRead
  BY ReadPrefix DEF PrefixRead, AllPrefixesRead

(* A lane that takes in tokens absorbs a part of the context. *)
LEMMA AbsorbStep ==
  ASSUME TypeOK, NEW c \in Lanes, LaneInOrder(c), TypeOK', LaneInOrder(c)', RowsMatch(c)',
         NEW n \in Tokens(c) + 1 .. Len(input_ids), Tokens(c)' = n,
         \A d \in Lanes : d # c => read_base_concat(d)' = read_base_concat(d),
         input_ids' = input_ids
  PROVE  Context!Absorb(c)
<1>1. PrefixRead(c)'
  <2>1. AllPrefixesRead'
    BY PrefixesRead, PTL
  <2> QED
    BY <2>1 DEF AllPrefixesRead
<1>2. n \in Int /\ Len(input_ids) \in Nat /\ Tokens(c) \in Nat
  BY LaneTokens DEF TypeOK
<1>3. read_base_concat(c)' = SubSeq(input_ids, 1, n)
  BY <1>1, <1>2 DEF PrefixRead
<1>4. Len(read_base_concat(c)) = Tokens(c)
  BY ReadLane DEF Reads
<1>5. Len(Seen[c]) < Len(input_ids) /\ n \in Len(Seen[c]) + 1 .. Len(input_ids)
  <2>1. Len(Seen[c]) = Tokens(c)
    BY <1>4 DEF Seen
  <2> QED
    BY <1>2, <2>1
<1>6. Seen' = [Seen EXCEPT ![c] = SubSeq(input_ids, 1, n)]
  <2>1. \A d \in Lanes : read_base_concat(d)' = IF d = c THEN SubSeq(input_ids, 1, n)
                                                ELSE read_base_concat(d)
    BY <1>3
  <2>2. Seen' = [d \in Lanes |-> read_base_concat(d)']
    BY DEF Seen
  <2>3. [Seen EXCEPT ![c] = SubSeq(input_ids, 1, n)]
          = [d \in Lanes |-> IF d = c THEN SubSeq(input_ids, 1, n) ELSE read_base_concat(d)]
    BY DEF Seen
  <2> QED
    BY <2>1, <2>2, <2>3
<1> QED
  BY <1>5, <1>6 DEF Context!Absorb, Seen

LEMMA ContextInit == Init => Context!Init
<1> SUFFICES ASSUME Init PROVE Context!Init
  OBVIOUS
<1>1. /\ TypeOK /\ input_ids = <<>>
      /\ \A c \in Lanes : next_page[c] = 0 /\ LaneInOrder(c)
  BY PositionInvInit DEF Init, EmptyCache, PositionInv, TypeInv
<1>2. \A c \in Lanes : read_base_concat(c) = <<>>
  <2> SUFFICES ASSUME NEW c \in Lanes PROVE read_base_concat(c) = <<>>
    OBVIOUS
  <2>1. Len(read_base_concat(c)) = 0 /\ read_base_concat(c) \in Seq(Token \cup {Zero})
    BY <1>1, ReadLane DEF Reads, Tokens
  <2> QED
    BY <2>1
<1> QED
  BY <1>1, <1>2 DEF Context!Init

(* Every step of the cache is a step the promise allows, or none. *)
LEMMA ContextStep == ContextInv /\ ContextInv' /\ [Next]_vars => [Context!Next]_(Context!vars)
<1> SUFFICES ASSUME ContextInv, ContextInv', [Next]_vars
             PROVE  [Context!Next]_(Context!vars)
  OBVIOUS
<1>1. /\ PositionInv /\ TypeOK /\ TypeInv /\ \A c \in Lanes : LaneInOrder(c)
      /\ TypeOK' /\ \A c \in Lanes : LaneInOrder(c)'
      /\ Lane \in Lanes
  BY LaneType DEF ContextInv, PositionInv, TypeInv
<1>2. CASE BeginPrefill
  <2>1. input_ids' \in Seq(Token) \ {<<>>}
    <3>1. PICK n \in 1 .. MaxPrompt : input_ids' \in [1 .. n -> Token]
      BY <1>2 DEF BeginPrefill
    <3>2. n \in Nat \ {0}
      BY ShapeAssumption
    <3> QED
      BY <3>1, <3>2
  <2>2. \A c \in Lanes : next_page'[c] = 0
    BY <1>2 DEF BeginPrefill, NewCache, EmptyCache
  <2>3. \A c \in Lanes : read_base_concat(c)' = <<>>
    <3> SUFFICES ASSUME NEW c \in Lanes PROVE read_base_concat(c)' = <<>>
      OBVIOUS
    <3>1. 1 .. next_page'[c] = {}
      BY <2>2
    <3> DEFINE none == [i \in 1 .. next_page'[c] |->
                  [t \in 1 .. valid_tokens'[c][i - 1] |-> rows'[c][i - 1][t - 1]]]
    <3>2. none = <<>>
      BY <3>1
    <3>3. read_base_concat(c)' = FlattenSeq(none)
      BY DEF read_base_concat
    <3> HIDE DEF none
    <3> QED
      BY <3>2, <3>3 DEF FlattenSeq
  <2>4. Context!NewPrompt
    BY <2>1, <2>3 DEF Context!NewPrompt
  <2> QED
    BY <2>4 DEF Context!Next
<1>3. CASE PrefillPage \/ PrefillNoSlot
  <2>1. call.phase = "prefill" /\ WriteChunk(Lane, next_page[Lane]) /\ input_ids' = input_ids
    BY <1>3 DEF PrefillPage, PrefillNoSlot
  <2>2. PICK c \in {Lane}, n \in {ChunkStart + ChunkLen} : TRUE
    OBVIOUS
  <2>3. /\ c \in Lanes /\ Tokens(c) = ChunkStart /\ Tokens(c)' = n
        /\ n \in ChunkStart + 1 .. Len(input_ids) /\ RowsMatch(c)'
        /\ \A d \in Lanes : d # c => read_base_concat(d)' = read_base_concat(d)
    BY <1>1, <2>1, PrefillTokens, ChunkMatches
  <2>4. Context!Absorb(c)
    BY <1>1, <2>1, <2>3, AbsorbStep
  <2> QED
    BY <2>3, <2>4 DEF Context!Next
<1>4. CASE BeginDecode
  <2>1. /\ input_ids # <<>> /\ \A c \in Lanes : RowsMatch(c) /\ Holds(c, Len(input_ids))
        /\ \E tok \in Token : input_ids' = Append(input_ids, tok)
        /\ UNCHANGED <<next_page, valid_tokens, rows>>
    BY <1>1, <1>4 DEF BeginDecode, ContextInv, PositionInv, store
  <2>2. \A c \in Lanes : read_base_concat(c) = input_ids
    <3> SUFFICES ASSUME NEW c \in Lanes PROVE read_base_concat(c) = input_ids
      OBVIOUS
    <3>1. Tokens(c) = Len(input_ids) /\ Len(input_ids) \in Nat /\ input_ids \in Seq(Token)
      BY <1>1, <2>1 DEF Holds, Tokens, TypeOK
    <3>2. read_base_concat(c) = SubSeq(input_ids, 1, Len(input_ids))
      BY <1>1, <2>1, <3>1, ReadPrefix
    <3> QED
      BY <3>1, <3>2, SubSeqFull
  <2>3. \A c \in Lanes : read_base_concat(c)' = read_base_concat(c)
    BY <2>1, SameRead
  <2>4. Context!NextToken
    BY <2>1, <2>2, <2>3 DEF Context!NextToken
  <2> QED
    BY <2>4 DEF Context!Next
<1>5. CASE DecodeHead \/ DecodeNoSlot
  <2>1. /\ call.phase = "decode" /\ input_ids' = input_ids
        /\ AppendRow(Lane, DecodePage(Lane), DecodeOffset(Lane))
    BY <1>5 DEF DecodeHead, DecodeNoSlot
  <2>2. PICK c \in {Lane}, n \in {Len(input_ids)} : TRUE
    OBVIOUS
  <2>3. /\ c \in Lanes /\ Tokens(c) = n - 1 /\ Tokens(c)' = n /\ RowsMatch(c)'
        /\ \A d \in Lanes : d # c => read_base_concat(d)' = read_base_concat(d)
    BY <1>1, <2>1, AppendMatches
  <2>4. n \in Tokens(c) + 1 .. Len(input_ids)
    BY <1>1, <2>3 DEF TypeOK
  <2>5. Context!Absorb(c)
    BY <1>1, <2>1, <2>3, <2>4, AbsorbStep
  <2> QED
    BY <2>3, <2>5 DEF Context!Next
<1>6. CASE CacheFull \/ UNCHANGED vars
  <2>1. UNCHANGED <<next_page, valid_tokens, rows, input_ids>>
    BY <1>6 DEF CacheFull, store, vars
  <2>2. \A c \in Lanes : read_base_concat(c)' = read_base_concat(c)
    BY <2>1, SameRead
  <2> QED
    BY <2>1, <2>2 DEF Context!vars
<1> QED
  BY <1>2, <1>3, <1>4, <1>5, <1>6 DEF Next

(* Whatever the page size, the arenas, the budgets and the outcome of the  *)
(* residual filter, the cache keeps its promise to the model: reading a    *)
(* lane yields the tokens fed so far, in order and without a hole, a lane  *)
(* only grows, and a token is only fed when all lanes have caught up.      *)
THEOREM CacheKeepsContext == Spec => ImplementsContext
<1>1. ContextInv /\ ContextInv' /\ [Next]_vars => [Context!Next]_(Context!vars)
  BY ContextStep
<1> QED
  BY <1>1, ContextInit, ContextCorrect, PTL DEF Spec, ImplementsContext, Context!Spec

-------------------------------------------------------------------------------
(* Where the corrections are added *)

(* A number lies in one interval of the given size only. *)
LEMMA IntervalUnique ==
  ASSUME NEW size \in Nat \ {0}, NEW p \in Nat, NEW q \in Nat, NEW j \in Int,
         p * size <= j, j < p * size + size, q * size <= j, j < q * size + size
  PROVE  p = q
<1>1. ASSUME NEW a \in Nat, NEW b \in Nat, a < b PROVE a * size + size <= b * size
  <2>1. PICK d \in Nat : b = a + 1 + d
    <3>1. b - a - 1 \in Nat /\ b = a + 1 + (b - a - 1)
      BY <1>1
    <3> QED
      BY <3>1
  <2>2. b * size = a * size + size + d * size
    BY <2>1
  <2>3. d * size \in Nat /\ a * size \in Nat
    OBVIOUS
  <2> QED
    BY <2>2, <2>3
<1>2. PICK x \in Nat : x = p * size
  OBVIOUS
<1>3. PICK y \in Nat : y = q * size
  OBVIOUS
<1>4. ~ (p < q)
  <2> SUFFICES ASSUME p < q PROVE FALSE
    OBVIOUS
  <2>1. x + size <= y
    BY <1>1, <1>2, <1>3
  <2> QED
    BY <1>2, <1>3, <2>1
<1>5. ~ (q < p)
  <2> SUFFICES ASSUME q < p PROVE FALSE
    OBVIOUS
  <2>1. y + size <= x
    BY <1>1, <1>2, <1>3
  <2> QED
    BY <1>2, <1>3, <2>1
<1> QED
  BY <1>4, <1>5

(* The terms of the V slots of a lane that were selected. *)
VTerm(r, t) == <<r, r[2] * PageSize + (r[3] * VTokenBlock + t),
                 Source(v_buf[VSlotAt(r)], r[3] * VTokenBlock + t)>>

Selected(c, refs, sel) == {r \in refs : r \in sel /\ valid_tokens[c][r[2]] > 0}

VTerms(c, sel) ==
  UNION {{VTerm(r, t) : t \in 0 .. BlockLen(c, r) - 1} : r \in Selected(c, LaneV(c), sel)}

(* The block of a V slot lies in the valid rows of its page. *)
BlockInPage(c, r) ==
  /\ r[1] = c /\ r \in VRefs /\ r = <<r[1], r[2], r[3]>>
  /\ r[2] \in all_page_ids(c) /\ r[2] \in Nat /\ r[2] \in Pages /\ r[3] \in Nat
  /\ r[3] * VTokenBlock \in Nat /\ BlockLen(c, r) \in Int
  /\ BlockLen(c, r) <= VTokenBlock
  /\ r[3] * VTokenBlock + BlockLen(c, r) <= valid_tokens[c][r[2]]
  /\ valid_tokens[c][r[2]] \in 0 .. PageSize

LEMMA VBlock ==
  ASSUME TypeOK, NEW c \in Lanes, NEW r \in LaneV(c)
  PROVE  BlockInPage(c, r)
<1>1. /\ r \in VRefs /\ r[1] = c /\ r[2] < next_page[c] /\ r[2] \in Pages
      /\ r[3] \in VBlocks /\ r = <<r[1], r[2], r[3]>>
  BY DEF LaneV, VRefs
<1>2. /\ next_page[c] \in Nat /\ PageSize \in Nat \ {0} /\ VTokenBlock \in Nat \ {0}
      /\ valid_tokens[c] \in [Pages -> 0 .. PageSize]
  BY ShapeAssumption DEF TypeOK
<1>3. r[2] \in Nat /\ r[2] \in all_page_ids(c) /\ r[3] \in Nat
  BY <1>1, <1>2 DEF Pages, VBlocks, all_page_ids
<1>4. PICK v \in 0 .. PageSize : v = valid_tokens[c][r[2]]
  BY <1>1, <1>2
<1>5. PICK m \in Nat : m = r[3] * VTokenBlock
  BY <1>2, <1>3
<1>6. (r[3] + 1) * VTokenBlock = m + VTokenBlock
  BY <1>2, <1>3, <1>5
<1>7. BlockLen(c, r) = MinOf(m + VTokenBlock, v) - m
  BY <1>4, <1>5, <1>6 DEF BlockLen
<1>8. /\ MinOf(m + VTokenBlock, v) - m \in Int
      /\ MinOf(m + VTokenBlock, v) - m <= VTokenBlock
      /\ m + (MinOf(m + VTokenBlock, v) - m) <= v
  BY <1>2, <1>4 DEF MinOf
<1> QED
  BY <1>1, <1>3, <1>4, <1>5, <1>7, <1>8 DEF BlockInPage

(* Where a page begins and ends for the slot-by-slot form. *)
LEMMA PageRange ==
  ASSUME PositionInv, NEW c \in Lanes, NEW p \in all_page_ids(c), valid_tokens[c][p] > 0
  PROVE  /\ p \in DOMAIN _page_token_offsets(c)
         /\ _page_token_offsets(c)[p] = <<p * PageSize, p * PageSize + valid_tokens[c][p]>>
<1>1. TokensBefore(c, p) = p * PageSize
  BY PageOffset
<1> QED
  BY <1>1 DEF _page_token_offsets

(* The slots of a selection that have a page to correct. *)
LEMMA ReadableRefs ==
  ASSUME PositionInv, NEW c \in Lanes, NEW sel, sel \subseteq LaneK(c) \cup LaneV(c)
  PROVE  /\ Readable(c, sel \intersect VRefs) = Selected(c, LaneV(c), sel)
         /\ Readable(c, sel \intersect KRefs) = Selected(c, LaneK(c), sel)
<1>1. next_page[c] \in Nat
  <2>1. next_page \in [Lanes -> 0 .. MaxPages]
    BY DEF PositionInv, TypeInv, TypeOK
  <2> QED
    BY <2>1, ShapeAssumption
<1>2. \A r \in LaneK(c) \cup LaneV(c) : r[1] = c /\ r[2] < next_page[c] /\ r[2] \in Nat
  <2>1. \A p \in Pages : p \in Nat
    BY DEF Pages
  <2>2. \A r \in LaneK(c) : r[1] = c /\ r[2] < next_page[c] /\ r[2] \in Pages
    BY DEF LaneK, KRefs
  <2>3. \A r \in LaneV(c) : r[1] = c /\ r[2] < next_page[c] /\ r[2] \in Pages
    BY DEF LaneV, VRefs
  <2> QED
    BY <2>1, <2>2, <2>3
<1>3. /\ sel \intersect VRefs = LaneV(c) \intersect sel
      /\ sel \intersect KRefs = LaneK(c) \intersect sel
  BY <1>2 DEF LaneK, LaneV
<1>4. DOMAIN _page_token_offsets(c) = {q \in all_page_ids(c) : valid_tokens[c][q] > 0}
  BY DEF _page_token_offsets
<1>5. \A r \in LaneK(c) \cup LaneV(c) : r[2] \in all_page_ids(c)
  BY <1>1, <1>2 DEF all_page_ids
<1> QED
  BY <1>3, <1>4, <1>5 DEF Readable, Selected

(* Slot by slot, V. *)
LEMMA ApplyVTerms ==
  ASSUME PositionInv, NEW c \in Lanes, NEW sel, sel \subseteq LaneK(c) \cup LaneV(c)
  PROVE  UNION {ApplyV(c, r) : r \in Readable(c, sel \intersect VRefs)} = VTerms(c, sel)
<1>1. ASSUME NEW r \in Selected(c, LaneV(c), sel)
      PROVE  ApplyV(c, r) = {VTerm(r, t) : t \in 0 .. BlockLen(c, r) - 1}
  <2>1. BlockInPage(c, r) /\ valid_tokens[c][r[2]] > 0
    BY VBlock DEF PositionInv, TypeInv, Selected
  <2>2. PICK a \in Nat, b \in Nat : a = r[2] * PageSize /\ b = r[3] * VTokenBlock
    BY <2>1, ShapeAssumption DEF BlockInPage
  <2>3. _page_token_offsets(c)[r[2]][1] = a
    BY <2>1, <2>2, PageRange DEF BlockInPage
  <2>4. PICK n \in Int : n = BlockLen(c, r)
    BY <2>1 DEF BlockInPage
  <2>5. \A t \in 0 .. n - 1 : (a + b) + t = a + (b + t)
    OBVIOUS
  <2>6. ApplyV(c, r) = {<<r, (a + b) + t, Source(v_buf[VSlotAt(r)], b + t)>> : t \in 0 .. n - 1}
    BY <2>2, <2>3, <2>4 DEF ApplyV
  <2>7. {VTerm(r, t) : t \in 0 .. BlockLen(c, r) - 1}
          = {<<r, a + (b + t), Source(v_buf[VSlotAt(r)], b + t)>> : t \in 0 .. n - 1}
    BY <2>2, <2>4 DEF VTerm
  <2> QED
    BY <2>5, <2>6, <2>7
<1>2. Readable(c, sel \intersect VRefs) = Selected(c, LaneV(c), sel)
  BY ReadableRefs
<1> QED
  BY <1>1, <1>2 DEF VTerms

(* What the index says of a V slot. *)
VEntry(c, r) == [ref |-> r, start |-> router_token_offset(c, r[2]) + r[3] * VTokenBlock,
                 len |-> BlockLen(c, r)]

LEMMA VEntryStart ==
  ASSUME PositionInv, NEW c \in Lanes, NEW r \in LaneV(c)
  PROVE  /\ VEntry(c, r).ref = r /\ VEntry(c, r).len = BlockLen(c, r)
         /\ VEntry(c, r).start = r[2] * PageSize + r[3] * VTokenBlock
<1>1. BlockInPage(c, r)
  BY VBlock DEF PositionInv, TypeInv
<1>2. router_token_offset(c, r[2]) = r[2] * PageSize
  BY <1>1, PageOffset DEF BlockInPage
<1> QED
  BY <1>2 DEF VEntry

(* At most one V slot of a lane covers a position. *)
LEMMA OneSlotCovers ==
  ASSUME PositionInv, NEW c \in Lanes, NEW r \in LaneV(c), NEW q \in LaneV(c), NEW j \in Int,
         VEntry(c, r).start <= j, j < VEntry(c, r).start + VEntry(c, r).len,
         VEntry(c, q).start <= j, j < VEntry(c, q).start + VEntry(c, q).len
  PROVE  q = r
<1>1. BlockInPage(c, r) /\ BlockInPage(c, q)
  BY VBlock DEF PositionInv, TypeInv
<1>2. PageSize \in Nat \ {0} /\ VTokenBlock \in Nat \ {0}
  BY ShapeAssumption
<1> DEFINE pr == r[2]  br == r[3]  pq == q[2]  bq == q[3]
<1>3. pr \in Nat /\ br \in Nat /\ pq \in Nat /\ bq \in Nat
  BY <1>1 DEF BlockInPage
<1>4. PICK a \in Nat, b \in Nat : a = pr * PageSize /\ b = br * VTokenBlock
  BY <1>2, <1>3
<1>5. PICK x \in Nat, y \in Nat : x = pq * PageSize /\ y = bq * VTokenBlock
  BY <1>2, <1>3
<1>6. /\ a + b <= j /\ j < a + b + BlockLen(c, r)
      /\ x + y <= j /\ j < x + y + BlockLen(c, q)
  BY <1>4, <1>5, VEntryStart
<1>7. /\ BlockLen(c, r) \in Int /\ BlockLen(c, r) <= VTokenBlock
      /\ valid_tokens[c][pr] \in 0 .. PageSize
      /\ b + BlockLen(c, r) <= valid_tokens[c][pr]
      /\ BlockLen(c, q) \in Int /\ BlockLen(c, q) <= VTokenBlock
      /\ valid_tokens[c][pq] \in 0 .. PageSize
      /\ y + BlockLen(c, q) <= valid_tokens[c][pq]
  BY <1>1, <1>4, <1>5 DEF BlockInPage
<1> HIDE DEF pr, br, pq, bq
<1>8. /\ a <= j /\ j < a + PageSize /\ x <= j /\ j < x + PageSize
  BY <1>2, <1>6, <1>7
<1>9. pr = pq
  BY <1>2, <1>3, <1>4, <1>5, <1>8, IntervalUnique
<1>10. a = x
  BY <1>4, <1>5, <1>9
<1>11. /\ b <= j - a /\ j - a < b + VTokenBlock /\ y <= j - a /\ j - a < y + VTokenBlock
       /\ j - a \in Int
  BY <1>2, <1>6, <1>7, <1>10
<1>12. br = bq
  BY <1>2, <1>3, <1>4, <1>5, <1>11, IntervalUnique
<1> QED
  BY <1>1, <1>9, <1>12 DEF BlockInPage, pr, br, pq, bq

(* So the batched form reads the slot that covers it. *)
LEMMA CoveringSlot ==
  ASSUME PositionInv, NEW c \in Lanes, NEW r \in LaneV(c), valid_tokens[c][r[2]] > 0,
         NEW j \in Int,
         VEntry(c, r).start <= j, j < VEntry(c, r).start + VEntry(c, r).len
  PROVE  VEntry(c, r) \in token_to_slot(_build_v_slot_index(c), j)
<1> DEFINE index == _build_v_slot_index(c)
           over == {s \in index : s.start <= j /\ j < s.start + s.len}
           e == VEntry(c, r)
<1>1. index = {VEntry(c, x) : x \in {x \in LaneV(c) : valid_tokens[c][x[2]] > 0 /\ BlockLen(c, x) > 0}}
  BY DEF _build_v_slot_index, VEntry
<1>2. BlockLen(c, r) > 0
  <2>1. BlockInPage(c, r)
    BY VBlock DEF PositionInv, TypeInv
  <2>2. r[2] * PageSize \in Int /\ r[3] * VTokenBlock \in Int /\ BlockLen(c, r) \in Int
    BY <2>1, ShapeAssumption DEF BlockInPage
  <2> QED
    BY <2>2, VEntryStart
<1>3. e \in over
  BY <1>1, <1>2
<1>4. ASSUME NEW o \in over PROVE o = e
  <2>1. PICK q \in LaneV(c) : o = VEntry(c, q)
    BY <1>1
  <2>2. q = r
    BY <2>1, OneSlotCovers
  <2> QED
    BY <2>1, <2>2
<1>5. token_to_slot(index, j)
        = {s \in over : \A o \in over : <<s.ref[2], s.ref[3]>> = <<o.ref[2], o.ref[3]>>
                                     \/ s.ref[2] < o.ref[2]
                                     \/ (s.ref[2] = o.ref[2] /\ s.ref[3] < o.ref[3])}
  BY DEF token_to_slot
<1> HIDE DEF over, e, index
<1> QED
  BY <1>3, <1>4, <1>5 DEF e, index

(* A row that holds a token is inside the attention vector. *)
LEMMA InsideRead ==
  ASSUME PositionInv, NEW c \in Lanes, NEW p \in all_page_ids(c),
         NEW t \in 0 .. valid_tokens[c][p] - 1
  PROVE  /\ p * PageSize + t \in 0 .. total_valid_tokens(c) - 1
         /\ p * PageSize + t < Len(read_base_concat(c))
         /\ read_base_concat(c)[p * PageSize + t + 1] = rows[c][p][t]
<1>1. TypeOK /\ LaneInOrder(c)
  BY DEF PositionInv, TypeInv
<1>2. Reads(c, read_base_concat(c)) /\ total_valid_tokens(c) = Tokens(c)
  BY <1>1, ReadLane, LaneTokens
<1>3. p * PageSize + t + 1 \in 1 .. Tokens(c) /\ Tokens(c) \in Nat
  BY <1>1, <1>2, LaneTokens DEF Reads, ReadAt
<1>4. p * PageSize \in Int /\ t \in Int
  <2>1. p \in Int /\ PageSize \in Int /\ valid_tokens[c][p] \in Nat
    BY <1>1, EarlierPagesFull, ShapeAssumption DEF TypeOK
  <2> QED
    BY <2>1
<1>5. p * PageSize + t \in 0 .. Tokens(c) - 1 /\ p * PageSize + t < Tokens(c)
  BY <1>3, <1>4
<1> QED
  BY <1>2, <1>5 DEF Reads, ReadAt

(* All queries at once, V. *)
LEMMA BatchedVTerms ==
  ASSUME PositionInv, NEW c \in Lanes, NEW sel
  PROVE  vectorized_v_correction(c, sel) = VTerms(c, sel)
<1> DEFINE index == _build_v_slot_index(c)
<1>0. PageSize \in Nat \ {0} /\ VTokenBlock \in Nat \ {0} /\ TypeOK
  BY ShapeAssumption DEF PositionInv, TypeInv
<1>1. ASSUME NEW j \in 0 .. total_valid_tokens(c) - 1, NEW s \in token_to_slot(index, j),
             s.ref \in sel
      PROVE  <<s.ref, j, Source(v_buf[VSlotAt(s.ref)],
                               s.ref[3] * VTokenBlock + local_pos(s, j))>> \in VTerms(c, sel)
  <2>1. s \in index /\ s.start <= j /\ j < s.start + s.len
    BY DEF token_to_slot
  <2>2. PICK r \in LaneV(c) : s = VEntry(c, r) /\ valid_tokens[c][r[2]] > 0
    BY <2>1 DEF _build_v_slot_index, VEntry
  <2>3. r \in Selected(c, LaneV(c), sel)
    BY <1>1, <2>2, VEntryStart DEF Selected
  <2>4. BlockInPage(c, r)
    BY <1>0, VBlock
  <2>5. PICK a \in Nat, b \in Nat : a = r[2] * PageSize /\ b = r[3] * VTokenBlock
    BY <1>0, <2>4 DEF BlockInPage
  <2>6. PICK n \in Int : n = BlockLen(c, r)
    BY <2>4 DEF BlockInPage
  <2>7. s.ref = r /\ s.start = a + b /\ s.len = n
    BY <2>2, <2>5, <2>6, VEntryStart
  <2>8. total_valid_tokens(c) \in Nat
    BY <1>0, TotalType
  <2>9. PICK t \in 0 .. n - 1 : t = j - (a + b)
    BY <2>1, <2>6, <2>7, <2>8
  <2>10. local_pos(s, j) = t /\ j = a + (b + t)
    BY <2>7, <2>8, <2>9 DEF local_pos
  <2>11. <<s.ref, j, Source(v_buf[VSlotAt(s.ref)],
                          s.ref[3] * VTokenBlock + local_pos(s, j))>> = VTerm(r, t)
    BY <2>5, <2>7, <2>10 DEF VTerm
  <2> QED
    BY <2>3, <2>6, <2>9, <2>11 DEF VTerms
<1>2. ASSUME NEW r \in Selected(c, LaneV(c), sel), NEW t \in 0 .. BlockLen(c, r) - 1
      PROVE  VTerm(r, t) \in vectorized_v_correction(c, sel)
  <2>1. r \in LaneV(c) /\ r \in sel /\ valid_tokens[c][r[2]] > 0
    BY DEF Selected
  <2>2. BlockInPage(c, r)
    BY <1>0, <2>1, VBlock
  <2>3. PICK a \in Nat, b \in Nat : a = r[2] * PageSize /\ b = r[3] * VTokenBlock
    BY <1>0, <2>2 DEF BlockInPage
  <2>4. PICK n \in Int : n = BlockLen(c, r)
    BY <2>2 DEF BlockInPage
  <2>5. PICK v \in 0 .. PageSize : v = valid_tokens[c][r[2]]
    BY <2>2 DEF BlockInPage
  <2>6. b + n <= v
    BY <2>2, <2>3, <2>4, <2>5 DEF BlockInPage
  <2>7. b + t \in 0 .. valid_tokens[c][r[2]] - 1
    BY <1>0, <2>4, <2>5, <2>6
  <2>8. a + (b + t) \in 0 .. total_valid_tokens(c) - 1
    BY <2>2, <2>3, <2>7, InsideRead DEF BlockInPage
  <2>9. PICK j \in 0 .. total_valid_tokens(c) - 1 : j = a + (b + t)
    BY <2>8
  <2>10. /\ VEntry(c, r).start <= j /\ j < VEntry(c, r).start + VEntry(c, r).len /\ j \in Int
         /\ j - (a + b) = t
    BY <2>1, <2>3, <2>4, <2>9, VEntryStart
  <2>11. VEntry(c, r) \in token_to_slot(index, j)
    BY <2>1, <2>10, CoveringSlot
  <2>12. PICK s \in token_to_slot(index, j) : s = VEntry(c, r)
    BY <2>11
  <2>13. s.ref = r /\ local_pos(s, j) = t
    BY <2>1, <2>3, <2>10, <2>12, VEntryStart DEF local_pos
  <2>14. VTerm(r, t) = <<s.ref, j, Source(v_buf[VSlotAt(s.ref)],
                                        s.ref[3] * VTokenBlock + local_pos(s, j))>>
    BY <2>3, <2>9, <2>13 DEF VTerm
  <2> HIDE DEF index
  <2>15. s.ref \in sel
    BY <2>1, <2>13
  <2> QED
    BY <2>12, <2>14, <2>15 DEF vectorized_v_correction, index
<1>3. vectorized_v_correction(c, sel) \subseteq VTerms(c, sel)
  BY <1>1 DEF vectorized_v_correction
<1>4. VTerms(c, sel) \subseteq vectorized_v_correction(c, sel)
  BY <1>2 DEF VTerms
<1> QED
  BY <1>3, <1>4

(* The terms of the K slots; both forms count the page's first position. *)
KTerm(r, t) == <<r, r[2] * PageSize + t, Source(k_buf[KSlotAt(r)], t)>>

KTerms(c, sel) ==
  UNION {{KTerm(r, t) : t \in 0 .. valid_tokens[c][r[2]] - 1} : r \in Selected(c, LaneK(c), sel)}

LEMMA KPage ==
  ASSUME PositionInv, NEW c \in Lanes, NEW r \in LaneK(c)
  PROVE  /\ r[1] = c /\ r \in KRefs /\ r = <<r[1], r[2], r[3]>>
         /\ r[2] \in all_page_ids(c) /\ r[2] \in Nat /\ r[2] \in Pages
         /\ r[2] * PageSize \in Nat
         /\ valid_tokens[c][r[2]] \in 0 .. PageSize /\ valid_tokens[c][r[2]] \in Nat
<1>1. /\ next_page[c] \in Nat /\ PageSize \in Nat
      /\ valid_tokens[c] \in [Pages -> 0 .. PageSize]
  BY ShapeAssumption DEF PositionInv, TypeInv, TypeOK
<1>2. /\ r[1] = c /\ r \in KRefs /\ r[2] \in Pages /\ r[2] < next_page[c]
      /\ r = <<r[1], r[2], r[3]>>
  BY DEF LaneK, KRefs
<1>3. r[2] \in Nat /\ r[2] \in all_page_ids(c)
  BY <1>1, <1>2 DEF Pages, all_page_ids
<1> QED
  BY <1>1, <1>2, <1>3

LEMMA ApplyKTerms ==
  ASSUME PositionInv, NEW c \in Lanes, NEW sel, sel \subseteq LaneK(c) \cup LaneV(c)
  PROVE  UNION {ApplyK(c, r) : r \in Readable(c, sel \intersect KRefs)} = KTerms(c, sel)
<1>1. ASSUME NEW r \in Selected(c, LaneK(c), sel)
      PROVE  ApplyK(c, r) = {KTerm(r, t) : t \in 0 .. valid_tokens[c][r[2]] - 1}
  <2>1. r \in LaneK(c) /\ valid_tokens[c][r[2]] > 0
    BY DEF Selected
  <2>2. r[2] \in all_page_ids(c) /\ r[2] * PageSize \in Nat /\ valid_tokens[c][r[2]] \in Nat
    BY <2>1, KPage
  <2>3. PICK a \in Nat, v \in Nat : a = r[2] * PageSize /\ v = valid_tokens[c][r[2]]
    BY <2>2
  <2>4. _page_token_offsets(c)[r[2]] = <<a, a + v>>
    BY <2>1, <2>2, <2>3, PageRange
  <2>5. (a + v) - a - 1 = v - 1
    OBVIOUS
  <2>6. ApplyK(c, r) = {<<r, a + t, Source(k_buf[KSlotAt(r)], t)>> : t \in 0 .. v - 1}
    BY <2>4, <2>5 DEF ApplyK
  <2> QED
    BY <2>3, <2>6 DEF KTerm
<1>2. Readable(c, sel \intersect KRefs) = Selected(c, LaneK(c), sel)
  BY ReadableRefs
<1> QED
  BY <1>1, <1>2 DEF KTerms

LEMMA BatchedKTerms ==
  ASSUME PositionInv, NEW c \in Lanes, NEW sel
  PROVE  vectorized_k_terms(c, sel) = KTerms(c, sel)
<1> DEFINE entry(r) == [ref |-> r, start |-> KCursor(c, r[2]), len |-> valid_tokens[c][r[2]]]
<1>1. _build_k_slot_index(c) = {entry(r) : r \in {x \in LaneK(c) : valid_tokens[c][x[2]] > 0}}
  BY DEF _build_k_slot_index
<1>2. {x \in _build_k_slot_index(c) : x.ref \in sel} = {entry(r) : r \in Selected(c, LaneK(c), sel)}
  BY <1>1 DEF Selected
<1>3. ASSUME NEW r \in Selected(c, LaneK(c), sel)
      PROVE  /\ entry(r).ref = r /\ entry(r).start = r[2] * PageSize
             /\ entry(r).len = valid_tokens[c][r[2]]
  <2>1. r[2] \in all_page_ids(c)
    BY KPage DEF Selected
  <2> QED
    BY <2>1, PageOffset DEF KCursor, TokensBefore
<1> HIDE DEF entry
<1>4. vectorized_k_terms(c, sel)
        = UNION {{<<s.ref, s.start + t, Source(k_buf[KSlotAt(s.ref)], t)>> : t \in 0 .. s.len - 1} :
                   s \in {entry(r) : r \in Selected(c, LaneK(c), sel)}}
  BY <1>2 DEF vectorized_k_terms
<1> QED
  BY <1>3, <1>4 DEF KTerms, KTerm

(* Whatever slots are selected, and whichever of them lie on open or       *)
(* reprocessed pages, both forms of the correction add the same residual   *)
(* rows at the same positions.                                             *)
THEOREM FormsAgree == Spec => []BatchedAddsTheSame
<1>1. PositionInv => BatchedAddsTheSame
  <2> SUFFICES ASSUME PositionInv, NEW c \in Lanes, NEW sel \in Selectable(c)
               PROVE  apply_slot_corrections(c, sel) = vectorized_joint_correction(c, sel)
    BY DEF BatchedAddsTheSame
  <2>1. sel \subseteq LaneK(c) \cup LaneV(c)
    BY DEF Selectable
  <2> QED
    BY <2>1, ApplyVTerms, ApplyKTerms, BatchedVTerms, BatchedKTerms
       DEF apply_slot_corrections, vectorized_joint_correction
<1> QED
  BY <1>1, PositionCorrect, PTL

(* A term is added at the token its row was computed from, if it still is  *)
(* the token of that row.                                                  *)
AtItsToken(c, term) ==
  LET p == term[1][2]  t == term[2] - TokensBefore(c, p) IN
  /\ term[2] < Len(read_base_concat(c))
  /\ term[3] = IF t < meta_table[c][p].num_tokens
               THEN <<p, t, read_base_concat(c)[term[2] + 1]>> ELSE Zero

LEMMA TermRight ==
  ASSUME PositionInv, NEW c \in Lanes, NEW r, NEW p \in all_page_ids(c), r[2] = p, NEW g,
         NEW t \in 0 .. valid_tokens[c][p] - 1,
         NEW payload,
         payload = <<c, p, g, PageContent(rows[c][p], meta_table[c][p].num_tokens)>>
  PROVE  AtItsToken(c, <<r, p * PageSize + t, Source(payload, t)>>)
<1>1. /\ p \in Pages /\ p \in Nat /\ PageSize \in Nat
      /\ valid_tokens[c][p] \in 0 .. PageSize /\ meta_table[c][p].num_tokens \in 0 .. PageSize
  <2>1. p \in Pages /\ p \in Nat /\ PageSize \in Nat
    BY EarlierPagesFull, ShapeAssumption DEF PositionInv, TypeInv
  <2>2. valid_tokens[c] \in [Pages -> 0 .. PageSize] /\ meta_table[c] \in [Pages -> PageMeta]
    BY DEF PositionInv, TypeInv, TypeOK
  <2>3. meta_table[c][p] \in PageMeta
    BY <2>1, <2>2
  <2> QED
    BY <2>1, <2>2, <2>3 DEF PageMeta
<1>2. PICK a \in Nat, n \in Nat : a = p * PageSize /\ n = meta_table[c][p].num_tokens
  BY <1>1
<1>3. TokensBefore(c, p) = a /\ t \in Nat /\ (a + t) - a = t
  BY <1>1, <1>2, PageOffset
<1>4. /\ a + t < Len(read_base_concat(c))
      /\ read_base_concat(c)[a + t + 1] = rows[c][p][t]
  BY <1>2, InsideRead
<1> DEFINE content == PageContent(rows[c][p], n)
<1>5. Len(content) = n
  BY DEF PageContent
<1>6. t < n => content[t + 1] = rows[c][p][t]
  <2> SUFFICES ASSUME t < n PROVE content[t + 1] = rows[c][p][t]
    OBVIOUS
  <2>1. t + 1 \in 1 .. n /\ (t + 1) - 1 = t
    BY <1>3
  <2> QED
    BY <2>1 DEF PageContent
<1> HIDE DEF content
<1>7. payload[2] = p /\ payload[4] = content
  BY <1>2 DEF content
<1>8. Source(payload, t) = IF t < n THEN <<p, t, rows[c][p][t]>> ELSE Zero
  BY <1>5, <1>6, <1>7 DEF Source
<1>9. PICK term : term = <<r, a + t, Source(payload, t)>>
  OBVIOUS
<1>10. term[1][2] = p /\ term[2] = a + t /\ term[3] = Source(payload, t)
  BY <1>9
<1>11. AtItsToken(c, term)
  BY <1>2, <1>3, <1>4, <1>8, <1>10 DEF AtItsToken
<1> QED
  BY <1>2, <1>9, <1>11

(* Every residual row that a correction adds is added at the position of   *)
(* the token it was computed from, and adds nothing to a token that was    *)
(* appended to the page since.                                             *)
THEOREM CorrectionsLand == Spec => []CorrectsItsToken
<1>1. PositionInv /\ SlotInv => CorrectsItsToken
  <2> SUFFICES ASSUME PositionInv, SlotInv, NEW c \in Lanes,
                      NEW term \in vectorized_joint_correction(c, LaneK(c) \cup LaneV(c))
               PROVE  AtItsToken(c, term)
    BY DEF CorrectsItsToken, AtItsToken
  <2>1. PICK sel : sel = LaneK(c) \cup LaneV(c)
    OBVIOUS
  <2>2. term \in VTerms(c, sel) \/ term \in KTerms(c, sel)
    BY <2>1, BatchedVTerms, BatchedKTerms DEF vectorized_joint_correction
  <2>3. ResidualsMatchBase
    BY SlotsMatchBase
  <2>4. CASE term \in VTerms(c, sel)
    <3>1. PICK r \in Selected(c, LaneV(c), sel) :
            \E t \in 0 .. BlockLen(c, r) - 1 : term = VTerm(r, t)
      BY <2>4 DEF VTerms
    <3>2. PICK t \in 0 .. BlockLen(c, r) - 1 : term = VTerm(r, t)
      BY <3>1
    <3>3. BlockInPage(c, r)
      BY VBlock DEF Selected, PositionInv, TypeInv
    <3>4. PICK p, b : p = r[2] /\ b = r[3] * VTokenBlock
      OBVIOUS
    <3>5. /\ p \in all_page_ids(c) /\ b + t \in 0 .. valid_tokens[c][p] - 1
      <4>1. PICK v \in 0 .. PageSize : v = valid_tokens[c][p]
        BY <3>3, <3>4 DEF BlockInPage
      <4>2. b \in Nat /\ b + BlockLen(c, r) <= v /\ BlockLen(c, r) \in Int
        BY <3>3, <3>4, <4>1 DEF BlockInPage
      <4>3. PICK n \in Int : n = BlockLen(c, r)
        BY <4>2
      <4>4. b + t \in 0 .. v - 1
        BY <4>1, <4>2, <4>3, ShapeAssumption
      <4> QED
        BY <3>3, <3>4, <4>1, <4>4 DEF BlockInPage
    <3>6. v_buf[VSlotAt(r)]
            = <<c, p, r[3], PageContent(rows[c][p], meta_table[c][p].num_tokens)>>
      BY <2>3, <3>3, <3>4 DEF ResidualsMatchBase, BlockInPage
    <3>7. AtItsToken(c, <<r, p * PageSize + (b + t), Source(v_buf[VSlotAt(r)], b + t)>>)
      BY <3>4, <3>5, <3>6, TermRight
    <3> QED
      BY <3>2, <3>4, <3>7 DEF VTerm
  <2>5. CASE term \in KTerms(c, sel)
    <3>1. PICK r \in Selected(c, LaneK(c), sel) :
            \E t \in 0 .. valid_tokens[c][r[2]] - 1 : term = KTerm(r, t)
      BY <2>5 DEF KTerms
    <3>2. PICK t \in 0 .. valid_tokens[c][r[2]] - 1 : term = KTerm(r, t)
      BY <3>1
    <3>3. r[1] = c /\ r \in KRefs /\ r[2] \in all_page_ids(c)
      BY KPage DEF Selected
    <3>4. k_buf[KSlotAt(r)]
            = <<c, r[2], r[3], PageContent(rows[c][r[2]], meta_table[c][r[2]].num_tokens)>>
      BY <2>3, <3>3 DEF ResidualsMatchBase
    <3>5. AtItsToken(c, <<r, r[2] * PageSize + t, Source(k_buf[KSlotAt(r)], t)>>)
      BY <3>3, <3>4, TermRight
    <3> QED
      BY <3>2, <3>5 DEF KTerm
  <2> QED
    BY <2>2, <2>4, <2>5
<1> QED
  BY <1>1, PositionCorrect, SlotsCorrect, PTL
-------------------------------------------------------------------------------
(* Lost slots.  A slot that is neither free nor referred to is lost.         *)

Lost(Slots, free, slot, Groups) ==
  {s \in Slots : /\ \A i \in 1 .. Len(free) : free[i] # s
                 /\ \A r \in Refs(Groups) : slot[r] # s}

KLost == Lost(KSlots, k_free, KSlot, CGroups)
VLost == Lost(VSlots, v_free, VSlot, VBlocks)

(* Page p refers to residuals computed before the page was full. *)
ShortPage(c, p) ==
  /\ meta_table[c][p].num_tokens < PageSize
  /\ \/ \E r \in Refs(CGroups) : r[1] = c /\ r[2] = p /\ KSlot[r] # Unused
     \/ \E r \in Refs(VBlocks) : r[1] = c /\ r[2] = p /\ VSlot[r] # Unused

(* A slot was lost that held a residual of page p. *)
LostFrom(buf, lost, c, p) == \E s \in lost : buf[s][1] = c /\ buf[s][2] = p

Loses(c, p) == \/ ShortPage(c, p)
               \/ LostFrom(k_buf, KLost, c, p) \/ LostFrom(v_buf, VLost, c, p)

(* What was lost was computed before its page was full. *)
LostShort(buf, lost) == \A s \in lost : buf[s][2] \in Pages /\ Len(buf[s][4]) < PageSize

(* As long as no arena ran dry, at most one page of a lane has lost slots or *)
(* will lose some when it is processed again; a prefill loses none, and      *)
(* computes the residuals of a page from all its rows.                       *)
LossInv ==
  /\ call.phase # "slots_full" =>
       /\ LostShort(k_buf, KLost) /\ LostShort(v_buf, VLost)
       /\ \A c \in Lanes : \A p, q \in Pages : Loses(c, p) /\ Loses(c, q) => p = q
  /\ call.phase = "prefill" =>
       /\ KLost = {} /\ VLost = {}
       /\ \A c \in Lanes : \A p \in Pages :
            p < next_page[c] => meta_table[c][p].num_tokens = valid_tokens[c][p]

(* A page without metadata refers to no slot. *)
LEMMA NoMetaUnused ==
  ASSUME NEW c \in Lanes, NEW p \in Pages, meta_table[c][p] = NoMeta
  PROVE  /\ \A r \in Refs(CGroups) : r[1] = c /\ r[2] = p => KSlot[r] = Unused
         /\ \A r \in Refs(VBlocks) : r[1] = c /\ r[2] = p => VSlot[r] = Unused
<1>1. (\A g \in CGroups : NoMeta.k_slots[g] = Unused)
      /\ \A b \in VBlocks : NoMeta.v_slots[b] = Unused
  BY DEF NoMeta
<1>2. \A r : /\ r \in Refs(CGroups) => r[3] \in CGroups
             /\ r \in Refs(VBlocks) => r[3] \in VBlocks
  BY DEF Refs
<1> QED
  BY <1>1, <1>2 DEF KSlot, VSlot

LEMMA NoMetaNotShort ==
  ASSUME NEW c \in Lanes, NEW p \in Pages, meta_table[c][p] = NoMeta
  PROVE  ~ ShortPage(c, p)
  BY NoMetaUnused DEF ShortPage

(* Whether a page is short is written in its metadata. *)
LEMMA ShortFromMeta ==
  ASSUME NEW c \in Lanes, NEW p \in Pages, meta_table'[c][p] = meta_table[c][p],
         ShortPage(c, p)'
  PROVE  ShortPage(c, p)
<1>1. /\ \A r \in Refs(CGroups) : r[1] = c /\ r[2] = p => KSlot'[r] = KSlot[r]
      /\ \A r \in Refs(VBlocks) : r[1] = c /\ r[2] = p => VSlot'[r] = VSlot[r]
  BY DEF KSlot, VSlot
<1> QED
  BY <1>1 DEF ShortPage, Refs, CGroups, VBlocks, Unused

(* Handing out slots to the groups of page p loses only slots the page       *)
(* referred to before, and no lost slot is written.                          *)
LEMMA TakeLoses ==
  ASSUME NEW Slots, Unused \notin Slots, NEW Groups, NEW buf \in [Slots -> Payload],
         NEW free \in Seq(Slots), NEW picked \in Seq(Groups), IsInjective(picked),
         Len(picked) <= Len(free), NEW slot, Exclusive(free, slot, Groups),
         NEW c \in Lanes, NEW p \in Pages, NEW content, NEW slot2,
         slot2 = PageSlots(slot, c, p, SlotOf(Groups, picked, free), Groups),
         NEW s \in Lost(Slots, DropFirst(free, Len(picked)), slot2, Groups)
  PROVE  /\ \/ s \in Lost(Slots, free, slot, Groups)
            \/ \E r \in Refs(Groups) : r[1] = c /\ r[2] = p /\ slot[r] = s
         /\ Written(buf, free, picked, Len(picked), c, p, content)[s] = buf[s]
<1> DEFINE m == SlotOf(Groups, picked, free)
           n == Len(picked)
<1>1. /\ n \in Nat /\ n \in 0 .. Len(free) /\ Len(free) \in Nat
      /\ DOMAIN picked = 1 .. n
  OBVIOUS
<1>2. \A i \in 1 .. Len(free) - n : DropFirst(free, n)[i] = free[n + i]
  BY <1>1, DropFirstType
<1>3. Len(DropFirst(free, n)) = Len(free) - n
  BY <1>1, DropFirstType
<1>4. /\ s \in Slots /\ \A r \in Refs(Groups) : slot2[r] # s
      /\ \A i \in 1 .. Len(DropFirst(free, n)) : DropFirst(free, n)[i] # s
  BY DEF Lost
<1>5. \A r \in Refs(Groups) :
         slot2[r] = IF r[1] = c /\ r[2] = p THEN m[r[3]] ELSE slot[r]
  BY DEF PageSlots
<1>6. \A i \in 1 .. n : free[i] # s
  <2> SUFFICES ASSUME NEW i \in 1 .. n, free[i] = s PROVE FALSE
    OBVIOUS
  <2> DEFINE g == picked[i]
             k == CHOOSE j \in 1 .. Len(picked) : picked[j] = g
  <2>1. g \in Groups /\ i \in 1 .. Len(picked)
    BY <1>1
  <2>2. k \in 1 .. Len(picked) /\ picked[k] = g
    BY <2>1
  <2>3. k = i
    BY <1>1, <2>1, <2>2 DEF IsInjective
  <2>4. m[g] = free[k]
    BY <2>1 DEF SlotOf
  <2>5. <<c, p, g>> \in Refs(Groups)
    BY <2>1 DEF Refs
  <2>6. slot2[<<c, p, g>>] = m[g]
    BY <1>5, <2>5
  <2> QED
    BY <1>4, <2>3, <2>4, <2>5, <2>6
<1> HIDE DEF m, n
<1>7. \A i \in 1 .. Len(free) : free[i] # s
  <2> SUFFICES ASSUME NEW i \in 1 .. Len(free), free[i] = s PROVE FALSE
    OBVIOUS
  <2>1. i - n \in 1 .. Len(free) - n /\ n + (i - n) = i
    BY <1>1, <1>6
  <2> QED
    BY <1>2, <1>3, <1>4, <2>1
<1>8. Written(buf, free, picked, n, c, p, content)[s] = buf[s]
  BY <1>1, <1>4, <1>6, WrittenElsewhere
<1>9. ASSUME ~ \E r \in Refs(Groups) : r[1] = c /\ r[2] = p /\ slot[r] = s
      PROVE  s \in Lost(Slots, free, slot, Groups)
  <2>1. \A r \in Refs(Groups) : slot[r] # s
    BY <1>4, <1>5, <1>9
  <2> QED
    BY <1>4, <1>7, <2>1 DEF Lost
<1> QED
  BY <1>8, <1>9 DEF n

(* process_page loses only slots the page referred to before. *)
LEMMA StoreLoses ==
  ASSUME TypeOK, ArenasOK, NEW c \in Lanes, NEW pid \in Pages, NEW start \in Int,
         NEW n \in 0 .. PageSize, NEW sel,
         sel[1] \in Seq(CGroups), sel[2] \in Seq(VBlocks),
         IsInjective(sel[1]), IsInjective(sel[2]),
         StoreResiduals(c, pid, start, n, sel)
  PROVE  /\ \A s \in KLost' :
              /\ \/ s \in KLost
                 \/ \E r \in Refs(CGroups) : r[1] = c /\ r[2] = pid /\ KSlot[r] = s
              /\ k_buf'[s] = k_buf[s]
         /\ \A s \in VLost' :
              /\ \/ s \in VLost
                 \/ \E r \in Refs(VBlocks) : r[1] = c /\ r[2] = pid /\ VSlot[r] = s
              /\ v_buf'[s] = v_buf[s]
         /\ meta_table'[c][pid].num_tokens = n
         /\ \A d \in Lanes, q \in Pages : d # c \/ q # pid =>
              meta_table'[d][q] = meta_table[d][q]
<1> DEFINE page == PageContent(rows'[c][pid], n)
           km == SlotOf(CGroups, sel[1], k_free)
           vm == SlotOf(VBlocks, sel[2], v_free)
           m == [token_start |-> start, num_tokens |-> n, k_slots |-> km, v_slots |-> vm]
<1>1. /\ k_free \in Seq(KSlots) /\ v_free \in Seq(VSlots)
      /\ k_buf \in [KSlots -> Payload] /\ v_buf \in [VSlots -> Payload]
      /\ meta_table \in [Lanes -> [Pages -> PageMeta]]
  BY DEF TypeOK
<1>2. /\ Len(sel[1]) <= Len(k_free) /\ Len(sel[2]) <= Len(v_free)
      /\ k_buf' = Written(k_buf, k_free, sel[1], Len(sel[1]), c, pid, page)
      /\ v_buf' = Written(v_buf, v_free, sel[2], Len(sel[2]), c, pid, page)
      /\ k_free' = DropFirst(k_free, Len(sel[1]))
      /\ v_free' = DropFirst(v_free, Len(sel[2]))
  BY DEF StoreResiduals, TakeSlots
<1>3. meta_table' = [meta_table EXCEPT ![c][pid] = m]
  BY DEF StoreResiduals, SetMeta
<1>4. m.num_tokens = n /\ m.k_slots = km /\ m.v_slots = vm
  OBVIOUS
<1> HIDE DEF km, vm, m, page
<1>5. \A d \in Lanes, q \in Pages :
         meta_table'[d][q] = IF d = c /\ q = pid THEN m ELSE meta_table[d][q]
  BY <1>1, <1>3
<1>6. \A r : /\ r \in Refs(CGroups) => r[1] \in Lanes /\ r[2] \in Pages
             /\ r \in Refs(VBlocks) => r[1] \in Lanes /\ r[2] \in Pages
  BY DEF Refs
<1>7. KSlot' = PageSlots(KSlot, c, pid, km, CGroups)
  BY <1>4, <1>5, <1>6 DEF KSlot, PageSlots
<1>8. VSlot' = PageSlots(VSlot, c, pid, vm, VBlocks)
  BY <1>4, <1>5, <1>6 DEF VSlot, PageSlots
<1>9. ASSUME NEW s \in KLost'
      PROVE  /\ \/ s \in KLost
                \/ \E r \in Refs(CGroups) : r[1] = c /\ r[2] = pid /\ KSlot[r] = s
             /\ k_buf'[s] = k_buf[s]
  <2>1. PICK slot, slot2, content : slot = KSlot /\ slot2 = KSlot' /\ content = page
    OBVIOUS
  <2>2. /\ Unused \notin KSlots /\ Exclusive(k_free, slot, CGroups)
        /\ slot2 = PageSlots(slot, c, pid, SlotOf(CGroups, sel[1], k_free), CGroups)
    BY <1>7, <2>1, SlotType DEF ArenasOK, km
  <2>3. s \in Lost(KSlots, DropFirst(k_free, Len(sel[1])), slot2, CGroups)
    <3>1. KLost' = Lost(KSlots, k_free', KSlot', CGroups)
      BY DEF KLost, Lost
    <3> QED
      BY ONLY <1>2, <1>9, <2>1, <3>1
  <2>4. /\ \/ s \in Lost(KSlots, k_free, slot, CGroups)
           \/ \E r \in Refs(CGroups) : r[1] = c /\ r[2] = pid /\ slot[r] = s
        /\ Written(k_buf, k_free, sel[1], Len(sel[1]), c, pid, content)[s] = k_buf[s]
    <3>1. PICK picked : picked = sel[1]
      OBVIOUS
    <3>2. /\ k_free \in Seq(KSlots) /\ k_buf \in [KSlots -> Payload]
          /\ picked \in Seq(CGroups) /\ IsInjective(picked) /\ Len(picked) <= Len(k_free)
      BY <1>1, <1>2, <3>1
    <3>3. /\ Unused \notin KSlots /\ Exclusive(k_free, slot, CGroups)
          /\ slot2 = PageSlots(slot, c, pid, SlotOf(CGroups, picked, k_free), CGroups)
          /\ s \in Lost(KSlots, DropFirst(k_free, Len(picked)), slot2, CGroups)
      BY ONLY <2>2, <2>3, <3>1
    <3>4. c \in Lanes /\ pid \in Pages
      OBVIOUS
    <3>5. /\ \/ s \in Lost(KSlots, k_free, slot, CGroups)
             \/ \E r \in Refs(CGroups) : r[1] = c /\ r[2] = pid /\ slot[r] = s
          /\ Written(k_buf, k_free, picked, Len(picked), c, pid, content)[s] = k_buf[s]
      BY ONLY <3>2, <3>3, <3>4, TakeLoses
    <3> QED
      BY ONLY <3>1, <3>5
  <2> QED
    BY <1>2, <2>1, <2>4 DEF KLost
<1>10. ASSUME NEW s \in VLost'
       PROVE  /\ \/ s \in VLost
                 \/ \E r \in Refs(VBlocks) : r[1] = c /\ r[2] = pid /\ VSlot[r] = s
              /\ v_buf'[s] = v_buf[s]
  <2>1. PICK slot, slot2, content : slot = VSlot /\ slot2 = VSlot' /\ content = page
    OBVIOUS
  <2>2. /\ Unused \notin VSlots /\ Exclusive(v_free, slot, VBlocks)
        /\ slot2 = PageSlots(slot, c, pid, SlotOf(VBlocks, sel[2], v_free), VBlocks)
    BY <1>8, <2>1, SlotType DEF ArenasOK, vm
  <2>3. s \in Lost(VSlots, DropFirst(v_free, Len(sel[2])), slot2, VBlocks)
    <3>1. VLost' = Lost(VSlots, v_free', VSlot', VBlocks)
      BY DEF VLost, Lost
    <3> QED
      BY ONLY <1>2, <1>10, <2>1, <3>1
  <2>4. /\ \/ s \in Lost(VSlots, v_free, slot, VBlocks)
           \/ \E r \in Refs(VBlocks) : r[1] = c /\ r[2] = pid /\ slot[r] = s
        /\ Written(v_buf, v_free, sel[2], Len(sel[2]), c, pid, content)[s] = v_buf[s]
    <3>1. PICK picked : picked = sel[2]
      OBVIOUS
    <3>2. /\ v_free \in Seq(VSlots) /\ v_buf \in [VSlots -> Payload]
          /\ picked \in Seq(VBlocks) /\ IsInjective(picked) /\ Len(picked) <= Len(v_free)
      BY <1>1, <1>2, <3>1
    <3>3. /\ Unused \notin VSlots /\ Exclusive(v_free, slot, VBlocks)
          /\ slot2 = PageSlots(slot, c, pid, SlotOf(VBlocks, picked, v_free), VBlocks)
          /\ s \in Lost(VSlots, DropFirst(v_free, Len(picked)), slot2, VBlocks)
      BY ONLY <2>2, <2>3, <3>1
    <3>4. c \in Lanes /\ pid \in Pages
      OBVIOUS
    <3>5. /\ \/ s \in Lost(VSlots, v_free, slot, VBlocks)
             \/ \E r \in Refs(VBlocks) : r[1] = c /\ r[2] = pid /\ slot[r] = s
          /\ Written(v_buf, v_free, picked, Len(picked), c, pid, content)[s] = v_buf[s]
      BY ONLY <3>2, <3>3, <3>4, TakeLoses
    <3> QED
      BY ONLY <3>1, <3>5
  <2> QED
    BY <1>2, <2>1, <2>4 DEF VLost
<1> QED
  BY <1>4, <1>5, <1>9, <1>10

NothingLost == /\ KLost = {} /\ VLost = {}
               /\ \A c \in Lanes : \A p \in Pages : ~ Loses(c, p)

(* A new cache has lost nothing. *)
LEMMA EmptyLosesNothing == EmptyArenas => NothingLost
<1> SUFFICES ASSUME EmptyArenas PROVE NothingLost
  OBVIOUS
<1>1. k_free = [i \in 1 .. KArena |-> i - 1] /\ v_free = [i \in 1 .. VArena |-> i - 1]
  BY DEF EmptyArenas, EmptyCache
<1>2. KArena \in Nat /\ VArena \in Nat
  BY ShapeAssumption
<1>3. KLost = {}
  <2> SUFFICES ASSUME NEW s \in KLost PROVE FALSE
    OBVIOUS
  <2>1. s \in KSlots /\ \A i \in 1 .. Len(k_free) : k_free[i] # s
    BY DEF KLost, Lost
  <2>2. s + 1 \in 1 .. KArena /\ Len(k_free) = KArena /\ (s + 1) - 1 = s
    BY <1>1, <1>2, <2>1 DEF KSlots
  <2> QED
    BY <1>1, <2>1, <2>2
<1>4. VLost = {}
  <2> SUFFICES ASSUME NEW s \in VLost PROVE FALSE
    OBVIOUS
  <2>1. s \in VSlots /\ \A i \in 1 .. Len(v_free) : v_free[i] # s
    BY DEF VLost, Lost
  <2>2. s + 1 \in 1 .. VArena /\ Len(v_free) = VArena /\ (s + 1) - 1 = s
    BY <1>1, <1>2, <2>1 DEF VSlots
  <2> QED
    BY <1>1, <2>1, <2>2
<1>5. \A c \in Lanes : \A p \in Pages : meta_table[c][p] = NoMeta
  BY DEF EmptyArenas, EmptyCache
<1>6. \A c \in Lanes : \A p \in Pages : ~ ShortPage(c, p)
  BY <1>5, NoMetaNotShort
<1> QED
  BY <1>3, <1>4, <1>6 DEF NothingLost, Loses, LostFrom

(* A page whose metadata, and slots that were lost, are what they were. *)
LEMMA SameLosses ==
  ASSUME UNCHANGED <<meta_table, k_free, v_free, k_buf, v_buf>>
  PROVE  /\ KLost' = KLost /\ VLost' = VLost
         /\ LostShort(k_buf, KLost)' <=> LostShort(k_buf, KLost)
         /\ LostShort(v_buf, VLost)' <=> LostShort(v_buf, VLost)
         /\ \A c \in Lanes, p \in Pages : Loses(c, p)' <=> Loses(c, p)
<1>1. /\ meta_table' = meta_table /\ k_free' = k_free /\ v_free' = v_free
      /\ k_buf' = k_buf /\ v_buf' = v_buf
  OBVIOUS
<1>2. KSlot' = KSlot /\ VSlot' = VSlot
  BY <1>1 DEF KSlot, VSlot
<1>3. KLost' = KLost /\ VLost' = VLost
  BY <1>1, <1>2 DEF KLost, VLost, Lost
<1> QED
  BY <1>1, <1>2, <1>3 DEF LostShort, Loses, ShortPage, LostFrom

(* A page of the prompt: nothing is lost, and only the page just written can *)
(* be short.                                                                 *)
LEMMA PrefillPageLoses ==
  PositionInv /\ SlotInv /\ LossInv /\ PositionInv' /\ PrefillPage => LossInv'
<1> SUFFICES ASSUME PositionInv, SlotInv, LossInv, PositionInv', PrefillPage PROVE LossInv'
  OBVIOUS
<1>1. /\ TypeInv /\ TypeOK /\ ArenasOK /\ MetaBehindRows /\ Lane \in Lanes /\ PrefillInv
      /\ call.phase = "prefill" /\ call.layer \in Layers
      /\ PageSize \in Nat \ {0} /\ MaxPages \in Nat
  BY LaneType, ShapeAssumption DEF PositionInv, SlotInv, TypeInv, TypeOK, PrefillPage
<1>2. PICK c, pid : c \in Lanes /\ c = Lane /\ pid = next_page[c]
  BY <1>1
<1>lane. c \in Lanes
  BY <1>2
<1> USE <1>lane
<1>3. /\ WriteChunk(c, pid)
      /\ next_page' = [next_page EXCEPT ![c] = pid + 1]
      /\ valid_tokens' = [valid_tokens EXCEPT ![c][pid] = ChunkLen]
  BY <1>2 DEF PrefillPage, WriteChunk
<1>4. PICK sel \in Selections(call.layer, ChunkLen) :
        StoreResiduals(c, pid, ChunkStart, ChunkLen, sel)
  BY <1>2 DEF PrefillPage
<1>5. /\ pid \in Nat /\ pid \in Pages /\ ChunkLen \in 0 .. PageSize /\ ChunkStart \in Int
      /\ ChunkLen \in Nat
  <2>1. pid \in Nat
    BY <1>1, <1>2, ShapeAssumption DEF TypeOK
  <2>2. pid \in Pages /\ ChunkLen \in 0 .. PageSize /\ ChunkStart \in Nat
    BY <1>1, <1>3, <2>1, WriteChunkType
  <2> QED
    BY <2>1, <2>2, ShapeAssumption
<1>6. /\ sel[1] \in Seq(CGroups) /\ sel[2] \in Seq(VBlocks)
      /\ IsInjective(sel[1]) /\ IsInjective(sel[2])
  BY <1>1, <1>5, SelectionsType, SelectionsInjective
<1>7. PICK n \in 0 .. PageSize : n = ChunkLen
  BY <1>5
<1>8. /\ \A s \in KLost' :
           \/ s \in KLost
           \/ \E r \in Refs(CGroups) : r[1] = c /\ r[2] = pid /\ KSlot[r] = s
      /\ \A s \in VLost' :
           \/ s \in VLost
           \/ \E r \in Refs(VBlocks) : r[1] = c /\ r[2] = pid /\ VSlot[r] = s
      /\ meta_table'[c][pid].num_tokens = n
      /\ \A d \in Lanes, q \in Pages : d # c \/ q # pid =>
           meta_table'[d][q] = meta_table[d][q]
  BY <1>1, <1>4, <1>5, <1>6, <1>7, StoreLoses
<1>9. \A q \in Pages : q >= pid => meta_table[c][q] = NoMeta
  BY <1>1, <1>2 DEF MetaBehindRows
<1>10. /\ \A r \in Refs(CGroups) : r[1] = c /\ r[2] = pid => KSlot[r] \notin KSlots
       /\ \A r \in Refs(VBlocks) : r[1] = c /\ r[2] = pid => VSlot[r] \notin VSlots
  <2>1. meta_table[c][pid] = NoMeta
    BY <1>1, <1>5, <1>9
  <2>2. /\ \A r \in Refs(CGroups) : r[1] = c /\ r[2] = pid => KSlot[r] = Unused
        /\ \A r \in Refs(VBlocks) : r[1] = c /\ r[2] = pid => VSlot[r] = Unused
    BY <1>5, <2>1, NoMetaUnused
  <2>3. Unused \notin KSlots /\ Unused \notin VSlots
    BY <1>1, SlotType
  <2> QED
    BY <2>2, <2>3
<1>11. KLost' = {} /\ VLost' = {}
  <2>1. KLost = {} /\ VLost = {}
    BY <1>1 DEF LossInv
  <2>2. KLost' \subseteq KSlots /\ VLost' \subseteq VSlots
    BY DEF KLost, VLost, Lost, KSlots, VSlots
  <2> QED
    BY <1>8, <1>10, <2>1, <2>2
<1>12. /\ \A d \in Lanes : next_page'[d] = IF d = c THEN pid + 1 ELSE next_page[d]
       /\ \A d \in Lanes, q \in Pages :
            valid_tokens'[d][q] = IF d = c /\ q = pid THEN n ELSE valid_tokens[d][q]
  BY <1>1, <1>3, <1>5, <1>7 DEF TypeOK
<1>13. \A d \in Lanes : \A q \in Pages :
         q < next_page'[d] => meta_table'[d][q].num_tokens = valid_tokens'[d][q]
  <2> SUFFICES ASSUME NEW d \in Lanes, NEW q \in Pages, q < next_page'[d]
               PROVE  meta_table'[d][q].num_tokens = valid_tokens'[d][q]
    OBVIOUS
  <2>1. CASE d = c /\ q = pid
    BY <1>8, <1>12, <2>1
  <2>2. CASE ~ (d = c /\ q = pid)
    <3>1. q < next_page[d]
      BY <1>1, <1>2, <1>5, <1>12, <2>2 DEF Pages
    <3>2. meta_table[d][q].num_tokens = valid_tokens[d][q]
      BY <1>1, <3>1 DEF LossInv
    <3> QED
      BY <1>8, <1>12, <2>2, <3>2
  <2> QED
    BY <2>1, <2>2
<1>14. \A d \in Lanes : \A q \in Pages : Loses(d, q)' => Loses(d, q) \/ (d = c /\ q = pid)
  <2> SUFFICES ASSUME NEW d \in Lanes, NEW q \in Pages, Loses(d, q)', d # c \/ q # pid
               PROVE  Loses(d, q)
    OBVIOUS
  <2>1. ShortPage(d, q)'
    BY <1>11 DEF Loses, LostFrom
  <2>2. meta_table'[d][q] = meta_table[d][q]
    BY <1>8
  <2> QED
    BY <2>1, <2>2, ShortFromMeta DEF Loses
<1>15. \A q \in Pages : ~ Loses(c, q)
  <2> SUFFICES ASSUME NEW q \in Pages, Loses(c, q) PROVE FALSE
    OBVIOUS
  <2>1. ShortPage(c, q)
    BY <1>1 DEF Loses, LostFrom, LossInv
  <2>2. CASE q >= pid
    BY <1>9, <2>1, <2>2, NoMetaNotShort
  <2>3. CASE ~ (q >= pid)
    <3>1. q \in 0 .. call.page - 1 /\ q < next_page[c]
      BY <1>1, <1>2, <1>5, <2>3 DEF PrefillInv, Pages
    <3>2. valid_tokens[c][q] = PageSize
      BY <1>1, <1>2, <3>1 DEF PrefillInv, Full
    <3>3. meta_table[c][q].num_tokens = PageSize
      BY <1>1, <3>1, <3>2 DEF LossInv
    <3> QED
      BY <1>1, <2>1, <3>3 DEF ShortPage
  <2> QED
    BY <2>2, <2>3
<1>16. \A d \in Lanes : \A p, q \in Pages : Loses(d, p)' /\ Loses(d, q)' => p = q
  <2>1. \A d \in Lanes : \A p, q \in Pages : Loses(d, p) /\ Loses(d, q) => p = q
    BY <1>1 DEF LossInv
  <2> QED
    BY <1>14, <1>15, <2>1
<1>17. LostShort(k_buf, KLost)' /\ LostShort(v_buf, VLost)'
  BY <1>11 DEF LostShort
<1> QED
  BY <1>11, <1>13, <1>16, <1>17 DEF LossInv

(* A decode step: what is lost was referred to by the page it fills, which   *)
(* was short and is not any more.                                            *)
LEMMA DecodeHeadLoses ==
  PositionInv /\ SlotInv /\ LossInv /\ PositionInv' /\ DecodeHead => LossInv'
<1> SUFFICES ASSUME PositionInv, SlotInv, LossInv, PositionInv', DecodeHead PROVE LossInv'
  OBVIOUS
<1>1. /\ TypeInv /\ TypeOK /\ ArenasOK /\ MetaBehindRows /\ Lane \in Lanes
      /\ call.phase = "decode" /\ call.layer \in Layers /\ call.pos \in Nat
      /\ PageSize \in Nat \ {0} /\ SlotInv
  BY LaneType, ShapeAssumption DEF PositionInv, SlotInv, TypeInv, TypeOK, DecodeHead
<1>2. PICK c, p, o : c \in Lanes /\ c = Lane /\ p = DecodePage(c) /\ o = DecodeOffset(c)
  BY <1>1
<1>lane. c \in Lanes
  BY <1>2
<1> USE <1>lane
<1>3. AppendRow(c, p, o)
  BY <1>2 DEF DecodeHead
<1>4. p \in Pages /\ o \in 0 .. PageSize - 1 /\ meta_table[c][p].num_tokens <= o
  BY <1>1, <1>2, <1>3, AppendBehindMeta
<1>5. meta_table[c][p].num_tokens \in 0 .. PageSize /\ meta_table[c][p].num_tokens < PageSize
  <2>1. meta_table[c][p].num_tokens \in 0 .. PageSize
    BY <1>1, <1>4 DEF TypeOK, PageMeta
  <2> QED
    BY <1>1, <1>4, <2>1
<1>6. /\ LostShort(k_buf, KLost) /\ LostShort(v_buf, VLost)
      /\ \A d \in Lanes : \A q1, q2 \in Pages : Loses(d, q1) /\ Loses(d, q2) => q1 = q2
  BY <1>1 DEF LossInv
<1>7. call'.phase # "prefill"
  <2>1. call' = AfterDecode /\ call \in [phase : Phases, layer : Layers, head : Heads,
                                         page : Nat, pos : Nat]
    BY <1>1 DEF DecodeHead, TypeOK
  <2> QED
    BY <1>1, <2>1 DEF AfterDecode, NextLane
<1>8. CASE PageFilled(o)
  <2>1. PICK sel \in DecodeSelections(call.layer) :
          StoreResiduals(c, p, call.pos + 1 - PageSize, PageSize, sel)
    BY <1>2, <1>8 DEF DecodeHead
  <2>2. /\ sel[1] \in Seq(CGroups) /\ sel[2] \in Seq(VBlocks)
        /\ IsInjective(sel[1]) /\ IsInjective(sel[2])
    BY <1>1, DecodeSelectionsType, DecodeSelectionsInjective
  <2>3. call.pos + 1 - PageSize \in Int /\ PageSize \in 0 .. PageSize
    BY <1>1
  <2>4. /\ \A s \in KLost' :
             /\ \/ s \in KLost
                \/ \E r \in Refs(CGroups) : r[1] = c /\ r[2] = p /\ KSlot[r] = s
             /\ k_buf'[s] = k_buf[s]
        /\ \A s \in VLost' :
             /\ \/ s \in VLost
                \/ \E r \in Refs(VBlocks) : r[1] = c /\ r[2] = p /\ VSlot[r] = s
             /\ v_buf'[s] = v_buf[s]
        /\ meta_table'[c][p].num_tokens = PageSize
        /\ \A d \in Lanes, q \in Pages : d # c \/ q # p =>
             meta_table'[d][q] = meta_table[d][q]
    BY <1>1, <1>4, <2>1, <2>2, <2>3, StoreLoses
  <2>5. ASSUME NEW s \in KLost', s \notin KLost
        PROVE  k_buf[s][1] = c /\ k_buf[s][2] = p /\ Len(k_buf[s][4]) < PageSize
               /\ ShortPage(c, p)
    <3>1. PICK r \in Refs(CGroups) : r[1] = c /\ r[2] = p /\ KSlot[r] = s
      BY <2>4, <2>5
    <3>2. s # Unused
      BY <1>1, <2>5, SlotType DEF KLost, Lost, KSlots
    <3>3. k_buf[s] = <<c, p, r[3], Content[c][p]>>
      BY <1>1, <3>1, <3>2 DEF ArenasOK, Matches
    <3>4. Len(Content[c][p]) = meta_table[c][p].num_tokens
      BY <1>4, <1>5 DEF Content, PageContent
    <3>5. ShortPage(c, p)
      BY <1>5, <3>1, <3>2 DEF ShortPage
    <3> QED
      BY <1>5, <3>3, <3>4, <3>5
  <2>6. ASSUME NEW s \in VLost', s \notin VLost
        PROVE  v_buf[s][1] = c /\ v_buf[s][2] = p /\ Len(v_buf[s][4]) < PageSize
               /\ ShortPage(c, p)
    <3>1. PICK r \in Refs(VBlocks) : r[1] = c /\ r[2] = p /\ VSlot[r] = s
      BY <2>4, <2>6
    <3>2. s # Unused
      BY <1>1, <2>6, SlotType DEF VLost, Lost, VSlots
    <3>3. v_buf[s] = <<c, p, r[3], Content[c][p]>>
      BY <1>1, <3>1, <3>2 DEF ArenasOK, Matches
    <3>4. Len(Content[c][p]) = meta_table[c][p].num_tokens
      BY <1>4, <1>5 DEF Content, PageContent
    <3>5. ShortPage(c, p)
      BY <1>5, <3>1, <3>2 DEF ShortPage
    <3> QED
      BY <1>5, <3>3, <3>4, <3>5
  <2>7. LostShort(k_buf, KLost)'
    BY <1>4, <1>6, <2>4, <2>5 DEF LostShort
  <2>8. LostShort(v_buf, VLost)'
    BY <1>4, <1>6, <2>4, <2>6 DEF LostShort
  <2>9. \A d \in Lanes : \A q \in Pages : Loses(d, q)' => Loses(d, q)
    <3> SUFFICES ASSUME NEW d \in Lanes, NEW q \in Pages, Loses(d, q)' PROVE Loses(d, q)
      OBVIOUS
    <3>1. CASE ShortPage(d, q)'
      <4>1. d # c \/ q # p
        BY <1>1, <2>4, <3>1 DEF ShortPage
      <4> QED
        BY <2>4, <3>1, <4>1, ShortFromMeta DEF Loses
    <3>2. CASE LostFrom(k_buf, KLost, d, q)'
      <4>1. PICK s \in KLost' : k_buf'[s][1] = d /\ k_buf'[s][2] = q
        BY <3>2 DEF LostFrom
      <4> QED
        BY <2>4, <2>5, <4>1 DEF Loses, LostFrom
    <3>3. CASE LostFrom(v_buf, VLost, d, q)'
      <4>1. PICK s \in VLost' : v_buf'[s][1] = d /\ v_buf'[s][2] = q
        BY <3>3 DEF LostFrom
      <4> QED
        BY <2>4, <2>6, <4>1 DEF Loses, LostFrom
    <3> QED
      BY <3>1, <3>2, <3>3 DEF Loses
  <2> QED
    BY <1>6, <1>7, <2>7, <2>8, <2>9 DEF LossInv
<1>9. CASE ~ PageFilled(o)
  <2>1. UNCHANGED <<meta_table, k_free, v_free, k_buf, v_buf>>
    BY <1>2, <1>9 DEF DecodeHead, KeepResiduals
  <2> QED
    BY <1>6, <1>7, <2>1, SameLosses DEF LossInv
<1> QED
  BY <1>8, <1>9

(* The invariant is inductive, next to those of the slots and positions. *)
LEMMA LossInvStep ==
  PositionInv /\ SlotInv /\ LossInv /\ PositionInv' /\ [Next]_vars => LossInv'
<1> SUFFICES ASSUME PositionInv, SlotInv, LossInv, PositionInv', [Next]_vars PROVE LossInv'
  OBVIOUS
<1>1. CASE BeginPrefill
  <2>1. EmptyArenas' /\ next_page' = EmptyCache.next_page
    BY <1>1 DEF BeginPrefill, NewCache, EmptyArenas, EmptyCache
  <2>2. NothingLost'
    BY <2>1, EmptyLosesNothing, PTL
  <2>3. \A c \in Lanes : \A p \in Pages : ~ (p < next_page'[c])
    BY <2>1, ShapeAssumption DEF EmptyCache, Pages
  <2> QED
    BY <2>2, <2>3 DEF NothingLost, LossInv, LostShort
<1>2. CASE PrefillNoSlot \/ DecodeNoSlot
  <2>1. call'.phase = "slots_full"
    BY <1>2 DEF PrefillNoSlot, DecodeNoSlot, Raise, PositionInv, TypeInv, TypeOK
  <2> QED
    BY <2>1 DEF LossInv
<1>3. CASE BeginDecode \/ CacheFull \/ UNCHANGED vars
  <2>1. /\ UNCHANGED <<meta_table, k_free, v_free, k_buf, v_buf>>
        /\ next_page' = next_page /\ valid_tokens' = valid_tokens
    BY <1>3 DEF BeginDecode, CacheFull, store, vars
  <2>2. /\ call'.phase # "slots_full" => call.phase # "slots_full"
        /\ call'.phase = "prefill" => call.phase = "prefill"
    <3>1. call \in [phase : Phases, layer : Layers, head : Heads, page : Nat, pos : Nat]
      BY DEF PositionInv, TypeInv, TypeOK
    <3>2. CASE BeginDecode
      BY <3>2 DEF BeginDecode
    <3>3. CASE CacheFull
      <4>1. call' = [call EXCEPT !.phase = "pages_full"]
        BY <3>3 DEF CacheFull, Raise
      <4>2. call'.phase = "pages_full"
        BY <3>1, <4>1
      <4>3. call.phase # "slots_full"
        BY <3>3 DEF CacheFull
      <4> QED
        BY <4>2, <4>3
    <3>4. CASE UNCHANGED vars
      BY <3>4 DEF vars
    <3> QED
      BY <1>3, <3>2, <3>3, <3>4
  <2> QED
    BY <2>1, <2>2, SameLosses DEF LossInv
<1> QED
  BY <1>1, <1>2, <1>3, PrefillPageLoses, DecodeHeadLoses DEF Next

LEMMA LossInvInit == Init => LossInv
<1> SUFFICES ASSUME Init PROVE LossInv
  OBVIOUS
<1>1. EmptyArenas /\ call.phase = "idle"
  BY DEF Init, EmptyArenas
<1> QED
  BY <1>1, EmptyLosesNothing DEF NothingLost, LossInv, LostShort

(* The lost slots are the leaked ones of the property. *)
LEMMA LeakedLost == TypeOK => KLeaked = KLost /\ VLeaked = VLost
<1> SUFFICES ASSUME TypeOK PROVE KLeaked = KLost /\ VLeaked = VLost
  OBVIOUS
<1>1. Unused \notin KSlots /\ Unused \notin VSlots
  BY SlotType
<1>2. /\ \A r \in Refs(CGroups) : KSlot[r] = KSlotAt(r)
      /\ \A r \in Refs(VBlocks) : VSlot[r] = VSlotAt(r)
  BY DEF KSlot, VSlot, KSlotAt, VSlotAt
<1>3. /\ KRefs = {r \in Refs(CGroups) : KSlotAt(r) # Unused}
      /\ VRefs = {r \in Refs(VBlocks) : VSlotAt(r) # Unused}
  BY DEF KRefs, VRefs, Refs, KSlotAt, VSlotAt
<1>4. KLeaked = KLost
  BY <1>1, <1>2, <1>3 DEF KLeaked, KLost, Lost
<1>5. VLeaked = VLost
  BY <1>1, <1>2, <1>3 DEF VLeaked, VLost, Lost
<1> QED
  BY <1>4, <1>5

(* A lane never loses slots of more than one page, and only slots of a page  *)
(* that was stored before it was full: the page its prompt ended in.         *)
THEOREM LeaksBounded == Spec => []LeakBounded
<1>1. PositionInv /\ LossInv => LeakBounded
  <2> SUFFICES ASSUME PositionInv, LossInv, call.phase # "slots_full", NEW c \in Lanes
               PROVE  /\ Cardinality({k_buf[s][2] : s \in {x \in KLeaked : k_buf[x][1] = c}}
                           \cup {v_buf[s][2] : s \in {x \in VLeaked : v_buf[x][1] = c}}) <= 1
                      /\ \A s \in KLeaked : Len(k_buf[s][4]) < PageSize
                      /\ \A s \in VLeaked : Len(v_buf[s][4]) < PageSize
    BY DEF LeakBounded
  <2>1. KLeaked = KLost /\ VLeaked = VLost
    BY LeakedLost DEF PositionInv, TypeInv
  <2>2. LostShort(k_buf, KLost) /\ LostShort(v_buf, VLost)
    BY DEF LossInv
  <2> DEFINE S == {k_buf[s][2] : s \in {x \in KLeaked : k_buf[x][1] = c}}
                    \cup {v_buf[s][2] : s \in {x \in VLeaked : v_buf[x][1] = c}}
  <2>3. \A p \in S : p \in Pages /\ Loses(c, p)
    BY <2>1, <2>2 DEF LostShort, Loses, LostFrom
  <2>4. \A p, q \in S : p = q
    BY <2>3 DEF LossInv
  <2> HIDE DEF S
  <2>5. Cardinality(S) <= 1
    <3>1. CASE S = {}
      BY <3>1, FS_EmptySet
    <3>2. CASE S # {}
      <4>1. PICK p : S = {p}
        BY <2>4, <3>2
      <4>2. Cardinality({p}) = 1
        BY FS_Singleton
      <4> QED
        BY <4>1, <4>2
    <3> QED
      BY <3>1, <3>2
  <2> QED
    BY <2>1, <2>2, <2>5 DEF LostShort, S
<1> QED
  BY <1>1, PositionCorrect, SlotsCorrect, LossInvInit, LossInvStep, PTL DEF Spec

-------------------------------------------------------------------------------
(* The arenas the code sizes *)

(* A sequence of distinct members of an interval is no longer than it. *)
LEMMA PickedOnce ==
  ASSUME NEW n \in Nat, NEW s \in Seq(0 .. n - 1), IsInjective(s)
  PROVE  Len(s) \in Nat /\ Len(s) <= n
<1>1. Len(s) \in Nat /\ s \in [1 .. Len(s) -> 0 .. n - 1] /\ DOMAIN s = 1 .. Len(s)
  OBVIOUS
<1>2. s \in Injection(1 .. Len(s), 0 .. n - 1)
  BY <1>1 DEF Injection, IsInjective
<1>3. /\ IsFiniteSet(0 .. n - 1)
      /\ Cardinality(0 .. n - 1) = IF 0 > n - 1 THEN 0 ELSE (n - 1) - 0 + 1
  BY FS_Interval
<1>4. Cardinality(0 .. n - 1) = n
  BY <1>3
<1>5. Cardinality(1 .. Len(s)) = IF 1 > Len(s) THEN 0 ELSE Len(s) - 1 + 1
  BY <1>1, FS_Interval
<1>6. Cardinality(1 .. Len(s)) = Len(s)
  BY <1>1, <1>5
<1>7. Cardinality(1 .. Len(s)) <= Cardinality(0 .. n - 1)
  BY <1>2, <1>3, FS_Injection
<1> QED
  BY <1>1, <1>4, <1>6, <1>7

(* What a page of a layer takes is what StoreBudget admits. *)
LEMMA SelectionAdmitted ==
  ASSUME Sized, NEW layer \in Layers, NEW n \in Nat, NEW sel \in Selections(layer, n)
  PROVE  <<Len(sel[1]), Len(sel[2])>> \in Budget!Takes(Config, layer)
<1>1. /\ sel[1] \in Seq(CGroups) /\ sel[2] \in Seq(VBlocks)
      /\ IsInjective(sel[1]) /\ IsInjective(sel[2])
  BY SelectionsType, SelectionsInjective
<1>2. NumCG \in Nat /\ NumVB \in Nat
  BY ShapeAssumption DEF NumVB
<1>3. /\ Len(sel[1]) \in Nat /\ Len(sel[1]) <= NumCG
      /\ Len(sel[2]) \in Nat /\ Len(sel[2]) <= NumVB
  BY <1>1, <1>2, PickedOnce DEF CGroups, VBlocks
<1>4. /\ KBudget[layer] \in Nat /\ VBudget[layer] \in Nat /\ JointBudget[layer] \in Nat
      /\ KBudget[layer] = Admitted(Budget!k_budget(Config, layer))
      /\ VBudget[layer] = Admitted(Budget!v_budget(Config, layer))
      /\ JointBudget[layer] = Admitted(Budget!joint_budget(Config, layer))
  BY BudgetAssumption DEF Sized
<1>5. /\ Joint => Len(sel[1]) + Len(sel[2]) <= JointBudget[layer]
      /\ ~ Joint => Len(sel[1]) <= KBudget[layer] /\ Len(sel[2]) <= VBudget[layer]
  <2> DEFINE blocks == {b \in VBlocks : b * VTokenBlock < n}
             kMax == IF Joint THEN JointBudget[layer] ELSE KBudget[layer]
             vMax == IF Joint THEN JointBudget[layer] ELSE VBudget[layer]
  <2>1. kMax \in Nat /\ vMax \in Nat
    BY <1>4
  <2>2. /\ sel[1] \in Picks(CGroups, kMax) /\ sel[2] \in Picks(blocks, vMax)
        /\ Joint => Len(sel[1]) + Len(sel[2]) <= JointBudget[layer]
    BY DEF Selections
  <2> HIDE DEF blocks, kMax, vMax
  <2>3. Len(sel[1]) <= kMax /\ Len(sel[2]) <= vMax
    BY <2>1, <2>2, PicksProperties
  <2> QED
    BY <2>2, <2>3 DEF kMax, vMax
<1>6. CASE Budget!StoresNothing(Config)
  <2>0. KBudget[layer] = 0 /\ VBudget[layer] = 0 /\ JointBudget[layer] = 0
    BY <1>4, <1>6, Zenon DEF Admitted
  <2>1. Len(sel[1]) = 0 /\ Len(sel[2]) = 0
    <3>1. CASE Joint
      <4>1. Len(sel[1]) + Len(sel[2]) <= 0
        BY <1>5, <2>0, <3>1
      <4>2. \A i, j \in Nat : i + j <= 0 => i = 0 /\ j = 0
        OBVIOUS
      <4>3. Len(sel[1]) \in Nat /\ Len(sel[2]) \in Nat
        BY <1>3
      <4> QED
        BY <4>1, <4>2, <4>3, Zenon
    <3>2. CASE ~ Joint
      <4>1. Len(sel[1]) <= 0 /\ Len(sel[2]) <= 0
        BY <1>5, <2>0, <3>2
      <4> QED
        BY <1>3, <4>1
    <3> QED
      BY <3>1, <3>2
  <2> QED
    BY <1>6, <2>1 DEF Budget!Takes
<1>7. CASE ~ Budget!StoresNothing(Config) /\ Joint
  <2>1. Config.store_policy = "joint" /\ JointBudget[layer] = Budget!joint_budget(Config, layer)
    BY <1>4, <1>7 DEF Admitted, Sized
  <2>2. <<Len(sel[1]), Len(sel[2])>> \in (0 .. NumCG) \X (0 .. NumVB)
    BY <1>2, <1>3
  <2> QED
    BY <1>5, <1>7, <2>1, <2>2 DEF Budget!Takes
<1>8. CASE ~ Budget!StoresNothing(Config) /\ ~ Joint
  <2>1. /\ Config.store_policy # "joint"
        /\ KBudget[layer] = Budget!k_budget(Config, layer)
        /\ VBudget[layer] = Budget!v_budget(Config, layer)
    BY <1>4, <1>8 DEF Admitted, Sized
  <2>2. /\ Len(sel[1]) \in 0 .. Budget!Least(Budget!k_budget(Config, layer), NumCG)
        /\ Len(sel[2]) \in 0 .. Budget!Least(Budget!v_budget(Config, layer), NumVB)
    BY <1>2, <1>3, <1>4, <1>5, <1>8, <2>1 DEF Budget!Least
  <2> QED
    BY <1>8, <2>1, <2>2 DEF Budget!Takes
<1> QED
  BY <1>6, <1>7, <1>8

LEMMA DecodeSelectionAdmitted ==
  ASSUME Sized, NEW layer \in Layers, NEW sel \in DecodeSelections(layer)
  PROVE  <<Len(sel[1]), Len(sel[2])>> \in Budget!Takes(Config, layer)
<1>1. CASE DecodeResidual
  BY <1>1, SelectionAdmitted, ShapeAssumption DEF DecodeSelections
<1>2. CASE ~ DecodeResidual
  <2>1. <<<<>>, <<>>>> \in Selections(layer, PageSize)
    <3>1. \A S : \A n \in Nat : <<>> \in Picks(S, n)
      <4> SUFFICES ASSUME NEW S, NEW n \in Nat PROVE <<>> \in Picks(S, n)
        OBVIOUS
      <4>1. <<>> \in [1 .. 0 -> S] /\ 0 \in 0 .. n
        OBVIOUS
      <4>2. <<>> \in SeqOf(S, n)
        BY <4>1 DEF SeqOf
      <4>3. IsInjective(<<>>)
        BY DEF IsInjective
      <4> QED
        BY <4>2, <4>3 DEF Picks
    <3>2. KBudget[layer] \in Nat /\ VBudget[layer] \in Nat /\ JointBudget[layer] \in Nat
      BY BudgetAssumption
    <3>3. /\ (IF Joint THEN JointBudget[layer] ELSE KBudget[layer]) \in Nat
          /\ (IF Joint THEN JointBudget[layer] ELSE VBudget[layer]) \in Nat
      BY <3>2
    <3>4. Len(<<>>) + Len(<<>>) <= JointBudget[layer]
      BY <3>2
    <3> QED
      BY <3>1, <3>3, <3>4 DEF Selections
  <2>2. sel \in Selections(layer, PageSize)
    BY <1>2, <2>1 DEF DecodeSelections
  <2> QED
    BY <2>2, SelectionAdmitted, ShapeAssumption
<1> QED
  BY <1>1, <1>2

LEMMA BudgetLanes == Sized => Budget!Lanes = Lanes
BY DEF Sized, Budget!Lanes, Budget!Layers, Lanes, Layers, Heads

(* Pages are counted by their metadata. *)
LEMMA PagesCounted ==
  ASSUME NEW c \in Lanes
  PROVE  /\ PagesStored(c) \in Nat /\ PagesStored(c)' \in Nat
         /\ IsFiniteSet({p \in Pages : HasMeta(meta_table[c][p])})
<1>1. IsFiniteSet(Pages)
  BY ShapeAssumption, FS_Interval DEF Pages
<1>2. /\ IsFiniteSet({p \in Pages : HasMeta(meta_table[c][p])})
      /\ Cardinality({p \in Pages : HasMeta(meta_table[c][p])}) \in Nat
  BY <1>1, FS_Subset, FS_CardinalityType
<1>3. Cardinality({p \in Pages : HasMeta(meta_table'[c][p])}) \in Nat
  BY <1>1, FS_Subset, FS_CardinalityType
<1> QED
  BY <1>2, <1>3 DEF PagesStored, Pages, HasMeta

(* Where a page has no metadata there is room for one. *)
LEMMA FewPages ==
  ASSUME NEW c \in Lanes, NEW p \in Pages, ~ HasMeta(meta_table[c][p])
  PROVE  PagesStored(c) < MaxPages
<1> DEFINE S == {q \in Pages : HasMeta(meta_table[c][q])}
<1>1. IsFiniteSet(Pages) /\ Cardinality(Pages) = MaxPages /\ MaxPages \in Nat
  <2>1. MaxPages \in Nat \ {0}
    BY ShapeAssumption
  <2>2. /\ IsFiniteSet(0 .. MaxPages - 1)
        /\ Cardinality(0 .. MaxPages - 1) = IF 0 > MaxPages - 1 THEN 0
                                            ELSE (MaxPages - 1) - 0 + 1
    BY <2>1, FS_Interval
  <2> QED
    BY <2>1, <2>2 DEF Pages
<1>2. /\ Cardinality(S) <= Cardinality(Pages)
      /\ (Cardinality(Pages) = Cardinality(S) => Pages = S)
  BY <1>1, FS_Subset
<1>3. PagesStored(c) = Cardinality(S) /\ Cardinality(S) \in Nat /\ p \notin S
  BY PagesCounted DEF PagesStored
<1> QED
  BY <1>1, <1>2, <1>3

(* A page that gets its first metadata is one page more. *)
LEMMA OnePageMore ==
  ASSUME TypeOK, NEW c \in Lanes, NEW p \in Pages, NEW start, NEW n \in Nat \ {0}, NEW sel,
         SetMeta(c, p, start, n, sel), ~ HasMeta(meta_table[c][p])
  PROVE  /\ PagesStored(c) < MaxPages
         /\ \A d \in Lanes : PagesStored(d)' = IF d = c THEN PagesStored(d) + 1
                                               ELSE PagesStored(d)
         /\ \A d \in Lanes : ~ StoredAgain(d)
<1> DEFINE S(d) == {q \in Pages : HasMeta(meta_table[d][q])}
           T(d) == {q \in Pages : HasMeta(meta_table'[d][q])}
<1>1. /\ \E m : meta_table' = [meta_table EXCEPT ![c][p] = m]
      /\ \A q \in Pages \ {p} : meta_table'[c][q] = meta_table[c][q]
      /\ HasMeta(meta_table'[c][p])
  BY MetaWritten
<1>2. \A d \in Lanes : d # c => meta_table'[d] = meta_table[d]
  BY <1>1 DEF TypeOK
<1>3. T(c) = S(c) \cup {p} /\ p \notin S(c)
  BY <1>1
<1>4. \A d \in Lanes : d # c => T(d) = S(d)
  BY <1>2
<1>5. \A d \in Lanes : PagesStored(d) = Cardinality(S(d)) /\ PagesStored(d)' = Cardinality(T(d))
  BY DEF PagesStored, Pages, HasMeta
<1>6. IsFiniteSet(S(c)) /\ Cardinality(S(c)) \in Nat
  BY PagesCounted, <1>5
<1>7. Cardinality(T(c)) = Cardinality(S(c)) + 1
  BY <1>3, <1>6, FS_AddElement
<1>8. PagesStored(c) < MaxPages
  BY FewPages
<1>9. \A d \in Lanes : ~ StoredAgain(d)
  <2> SUFFICES ASSUME NEW d \in Lanes, NEW q \in Pages, HasMeta(meta_table[d][q])
               PROVE  meta_table'[d][q] = meta_table[d][q]
    BY DEF StoredAgain
  <2>1. d # c \/ q # p
    OBVIOUS
  <2> QED
    BY <1>1, <1>2, <2>1
<1> HIDE DEF S, T
<1> QED
  BY <1>4, <1>5, <1>7, <1>8, <1>9

(* New metadata of a page that had some: as many pages as before. *)
LEMMA SamePages ==
  ASSUME TypeOK, NEW c \in Lanes, NEW p \in Pages, NEW start, NEW n \in Nat \ {0}, NEW sel,
         SetMeta(c, p, start, n, sel), HasMeta(meta_table[c][p]),
         meta_table[c][p].num_tokens # n
  PROVE  /\ PagesStored(c) > 0
         /\ \A d \in Lanes : PagesStored(d)' = PagesStored(d)
         /\ \A d \in Lanes : StoredAgain(d) <=> d = c
<1>1. /\ \E m : meta_table' = [meta_table EXCEPT ![c][p] = m]
      /\ \A q \in Pages \ {p} : meta_table'[c][q] = meta_table[c][q]
      /\ HasMeta(meta_table'[c][p])
  BY MetaWritten
<1>2. \A d \in Lanes : d # c => meta_table'[d] = meta_table[d]
  BY <1>1 DEF TypeOK
<1>3. \A d \in Lanes : \A q \in Pages : HasMeta(meta_table'[d][q]) <=> HasMeta(meta_table[d][q])
  BY <1>1, <1>2
<1>4. \A d \in Lanes : PagesStored(d)' = PagesStored(d)
  BY <1>3 DEF PagesStored, Pages
<1>5. PagesStored(c) > 0
  <2> DEFINE S == {q \in Pages : HasMeta(meta_table[c][q])}
  <2>1. IsFiniteSet(S) /\ Cardinality(S) \in Nat /\ PagesStored(c) = Cardinality(S)
    BY PagesCounted DEF PagesStored
  <2>2. S # {}
    OBVIOUS
  <2>3. Cardinality(S) # 0
    BY <2>1, <2>2, FS_EmptySet
  <2> QED
    BY <2>1, <2>3
<1>6. meta_table'[c][p].num_tokens = n
  BY DEF SetMeta, TypeOK
<1>7. StoredAgain(c)
  BY <1>6 DEF StoredAgain
<1>8. \A d \in Lanes : d # c => ~ StoredAgain(d)
  BY <1>2 DEF StoredAgain
<1> QED
  BY <1>4, <1>5, <1>7, <1>8

(* Slots are taken off the free lists. *)
LEMMA FreeAfterTake ==
  ASSUME TypeOK, NEW c, NEW pid, NEW n, NEW sel, NEW i \in Nat, NEW j \in Nat,
         TakeSlots(c, pid, n, sel, i, j)
  PROVE  /\ Len(k_free) \in Nat /\ Len(v_free) \in Nat
         /\ i <= Len(k_free) /\ j <= Len(v_free)
         /\ Len(k_free') = Len(k_free) - i /\ Len(v_free') = Len(v_free) - j
<1>1. /\ k_free \in Seq(KSlots) /\ v_free \in Seq(VSlots)
      /\ i <= Len(k_free) /\ j <= Len(v_free)
      /\ k_free' = DropFirst(k_free, i) /\ v_free' = DropFirst(v_free, j)
  BY DEF TypeOK, TakeSlots
<1>2. Len(k_free) \in Nat /\ Len(v_free) \in Nat
  BY <1>1
<1>3. i \in 0 .. Len(k_free) /\ j \in 0 .. Len(v_free)
  BY <1>1, <1>2
<1> QED
  BY <1>1, <1>2, <1>3, DropFirstType

Recorded == reopened' = [c \in Lanes |-> reopened[c] \/ StoredAgain(c)]

(* Taking a page's slots in StoreBudget. *)
LEMMA BudgetTakes ==
  ASSUME Sized, TypeOK, NEW c \in Lanes, NEW pid, NEW n, NEW sel,
         Len(sel[1]) \in Nat, Len(sel[2]) \in Nat,
         <<Len(sel[1]), Len(sel[2])>> \in Budget!Takes(Config, c[1]),
         TakeSlots(c, pid, n, sel, Len(sel[1]), Len(sel[2]))
  PROVE  Budget!TakeSlots(c)
<1> DEFINE t == <<Len(sel[1]), Len(sel[2])>>
<1>1. /\ Len(k_free) \in Nat /\ Len(v_free) \in Nat
      /\ Len(sel[1]) <= Len(k_free) /\ Len(sel[2]) <= Len(v_free)
      /\ Len(k_free') = Len(k_free) - Len(sel[1]) /\ Len(v_free') = Len(v_free) - Len(sel[2])
  BY FreeAfterTake
<1>2. KArena \in Nat /\ VArena \in Nat
  BY ShapeAssumption
<1>3. /\ KArena - Len(k_free) + t[1] <= Budget!k_slots(Config)
      /\ VArena - Len(v_free) + t[2] <= Budget!max_slots(Config)
  <2>1. KArena = Budget!k_slots(Config) /\ VArena = Budget!max_slots(Config)
    BY DEF Sized
  <2>2. KArena - Len(k_free) + t[1] <= KArena /\ VArena - Len(v_free) + t[2] <= VArena
    BY <1>1, <1>2
  <2> QED
    BY <2>1, <2>2
<1>4. /\ KArena - Len(k_free') = KArena - Len(k_free) + t[1]
      /\ VArena - Len(v_free') = VArena - Len(v_free) + t[2]
  BY <1>1, <1>2
<1>5. t \in Budget!Takes(Config, c[1])
  OBVIOUS
<1> HIDE DEF t
<1> QED
  BY <1>3, <1>4, <1>5 DEF Budget!TakeSlots, Budget!Fits

(* process_page stores a page for the first time. *)
LEMMA StoresPage ==
  ASSUME Sized, TypeOK, reopened \in [Lanes -> BOOLEAN], Recorded,
         NEW c \in Lanes, NEW pid \in Pages, NEW start, NEW n \in Nat \ {0}, NEW sel,
         Len(sel[1]) \in Nat, Len(sel[2]) \in Nat,
         <<Len(sel[1]), Len(sel[2])>> \in Budget!Takes(Config, c[1]),
         StoreResiduals(c, pid, start, n, sel), ~ HasMeta(meta_table[c][pid]),
         call.phase # "slots_full", call'.phase # "slots_full"
  PROVE  Budget!StorePage(c) /\ reopened' = reopened
<1>1. SetMeta(c, pid, start, n, sel) /\ TakeSlots(c, pid, n, sel, Len(sel[1]), Len(sel[2]))
  BY DEF StoreResiduals
<1>2. /\ PagesStored(c) < MaxPages
      /\ \A d \in Lanes : PagesStored(d)' = IF d = c THEN PagesStored(d) + 1
                                            ELSE PagesStored(d)
      /\ \A d \in Lanes : ~ StoredAgain(d)
  BY <1>1, OnePageMore
<1>3. reopened' = reopened
  BY <1>2 DEF Recorded
<1>4. [d \in Lanes |-> PagesStored(d)]' = [[d \in Lanes |-> PagesStored(d)] EXCEPT ![c] = @ + 1]
  BY <1>2 DEF Lanes, Layers, Heads
<1>5. Budget!TakeSlots(c)
  BY <1>1, BudgetTakes
<1>6. Budget!NewPage(c)
  BY <1>2 DEF Budget!NewPage
<1> QED
  BY <1>3, <1>4, <1>5, <1>6 DEF Budget!StorePage

(* process_page stores the page the prompt ended in again. *)
LEMMA StoresAgain ==
  ASSUME Sized, TypeOK, reopened \in [Lanes -> BOOLEAN], Recorded,
         NEW c \in Lanes, NEW pid \in Pages, NEW start, NEW n \in Nat \ {0}, NEW sel,
         Len(sel[1]) \in Nat, Len(sel[2]) \in Nat,
         <<Len(sel[1]), Len(sel[2])>> \in Budget!Takes(Config, c[1]),
         StoreResiduals(c, pid, start, n, sel), HasMeta(meta_table[c][pid]),
         meta_table[c][pid].num_tokens # n, ~ reopened[c],
         call.phase # "slots_full", call'.phase # "slots_full"
  PROVE  Budget!StoreAgain(c) /\ reopened' = [reopened EXCEPT ![c] = TRUE]
<1>1. SetMeta(c, pid, start, n, sel) /\ TakeSlots(c, pid, n, sel, Len(sel[1]), Len(sel[2]))
  BY DEF StoreResiduals
<1>2. /\ PagesStored(c) > 0
      /\ \A d \in Lanes : PagesStored(d)' = PagesStored(d)
      /\ \A d \in Lanes : StoredAgain(d) <=> d = c
  BY <1>1, SamePages
<1>3. reopened' = [reopened EXCEPT ![c] = TRUE]
  <2>1. \A d \in Lanes : (reopened[d] \/ StoredAgain(d)) = IF d = c THEN TRUE ELSE reopened[d]
    BY <1>2
  <2> QED
    BY <2>1 DEF Recorded
<1>4. [d \in Lanes |-> PagesStored(d)]' = [d \in Lanes |-> PagesStored(d)]
  BY <1>2 DEF Lanes, Layers, Heads
<1>5. Budget!TakeSlots(c)
  BY <1>1, BudgetTakes
<1>6. Budget!OpenPage(c)
  BY <1>2 DEF Budget!OpenPage
<1> QED
  BY <1>3, <1>4, <1>5, <1>6 DEF Budget!StoreAgain

(* The metadata of every page stays, and with it what is counted. *)
LEMMA MetaStays ==
  ASSUME reopened \in [Lanes -> BOOLEAN], Recorded, meta_table' = meta_table
  PROVE  /\ reopened' = reopened
         /\ [c \in Lanes |-> PagesStored(c)]' = [c \in Lanes |-> PagesStored(c)]
<1>1. \A c \in Lanes : ~ StoredAgain(c)
  BY DEF StoredAgain
<1>2. reopened' = reopened
  BY <1>1 DEF Recorded
<1> QED
  BY <1>2 DEF PagesStored, HasMeta, Lanes, Layers, Heads, Pages

(* process_page runs out of slots. *)
LEMMA RunsDry ==
  ASSUME Sized, TypeOK, reopened \in [Lanes -> BOOLEAN], Recorded,
         NEW c \in Lanes, NEW pid \in Pages, NEW n, NEW sel,
         Len(sel[1]) \in Nat, Len(sel[2]) \in Nat,
         <<Len(sel[1]), Len(sel[2])>> \in Budget!Takes(Config, c[1]),
         StoreFails(c, pid, n, sel), HasMeta(meta_table[c][pid]) => ~ reopened[c],
         call.phase # "slots_full", call'.phase = "slots_full"
  PROVE  Budget!ArenaDry(c)
<1>1. PICK i \in 0 .. Len(sel[1]), j \in 0 .. Len(sel[2]) :
        /\ TakeSlots(c, pid, n, sel, i, j)
        /\ (i < Len(sel[1]) /\ i = Len(k_free)) \/ (j < Len(sel[2]) /\ j = Len(v_free))
  BY DEF StoreFails
<1>2. i \in Nat /\ j \in Nat
  BY <1>1
<1>3. /\ Len(k_free) \in Nat /\ Len(v_free) \in Nat
      /\ i <= Len(k_free) /\ j <= Len(v_free)
      /\ Len(k_free') = Len(k_free) - i /\ Len(v_free') = Len(v_free) - j
  BY <1>1, <1>2, FreeAfterTake
<1>4. KArena \in Nat /\ VArena \in Nat /\ KArena = Budget!k_slots(Config)
      /\ VArena = Budget!max_slots(Config)
  BY ShapeAssumption DEF Sized
<1> DEFINE t == <<Len(sel[1]), Len(sel[2])>>
<1>5. ~ (KArena - Len(k_free) + t[1] <= KArena /\ VArena - Len(v_free) + t[2] <= VArena)
  <2>1. \A a, b, n1 \in Nat : a < b /\ a = n1 => ~ (KArena - n1 + b <= KArena)
    BY <1>4
  <2>2. \A a, b, n1 \in Nat : a < b /\ a = n1 => ~ (VArena - n1 + b <= VArena)
    BY <1>4
  <2>3. CASE i < Len(sel[1]) /\ i = Len(k_free)
    BY <1>2, <1>3, <2>1, <2>3
  <2>4. CASE j < Len(sel[2]) /\ j = Len(v_free)
    BY <1>2, <1>3, <2>2, <2>4
  <2> QED
    BY <1>1, <2>3, <2>4
<1>6. KArena - Len(k_free) + i <= KArena /\ VArena - Len(v_free) + j <= VArena
  BY <1>2, <1>3, <1>4
<1>7. /\ KArena - Len(k_free') = KArena - Len(k_free) + i
      /\ VArena - Len(v_free') = VArena - Len(v_free) + j
  BY <1>2, <1>3, <1>4
<1>8. t \in Budget!Takes(Config, c[1]) /\ i \in 0 .. t[1] /\ j \in 0 .. t[2]
  BY <1>1
<1>9. /\ reopened' = reopened
      /\ [d \in Lanes |-> PagesStored(d)]' = [d \in Lanes |-> PagesStored(d)]
  BY MetaStays DEF StoreFails
<1>10. Budget!NewPage(c) \/ Budget!OpenPage(c)
  <2>1. CASE HasMeta(meta_table[c][pid])
    <3> DEFINE S == {q \in Pages : HasMeta(meta_table[c][q])}
    <3>1. IsFiniteSet(S) /\ Cardinality(S) \in Nat /\ PagesStored(c) = Cardinality(S) /\ S # {}
      BY <2>1, PagesCounted DEF PagesStored
    <3>2. Cardinality(S) # 0
      BY <3>1, FS_EmptySet
    <3> HIDE DEF S
    <3>3. PagesStored(c) > 0
      BY <3>1, <3>2
    <3> QED
      BY <2>1, <3>3 DEF Budget!OpenPage
  <2>2. CASE ~ HasMeta(meta_table[c][pid])
    <3>1. PagesStored(c) < MaxPages
      BY <2>2, FewPages
    <3> QED
      BY <3>1 DEF Budget!NewPage
  <2> QED
    BY <2>1, <2>2
<1>11. /\ ~ Budget!Fits(t[1], t[2]) /\ Budget!Fits(i, j)
  BY <1>4, <1>5, <1>6 DEF Budget!Fits
<1> HIDE DEF t
<1> QED
  BY <1>7, <1>8, <1>9, <1>10, <1>11 DEF Budget!ArenaDry

(* A lane whose last page was stored again has only full pages, so none is  *)
(* stored a third time: a page that is full was processed with all its rows *)
(* unless an arena ran dry.  A prompt begins with all that forgotten.       *)
ReopenInv ==
  /\ reopened \in [Lanes -> BOOLEAN]
  /\ call.phase # "slots_full" =>
       \A c \in Lanes, p \in Pages :
         HasMeta(meta_table[c][p]) /\ valid_tokens[c][p] = PageSize =>
           meta_table[c][p].num_tokens = PageSize
  /\ \A c \in Lanes : reopened[c] =>
       \A p \in Pages : HasMeta(meta_table[c][p]) => meta_table[c][p].num_tokens = PageSize
  /\ call.phase = "prefill" => \A c \in Lanes : ~ reopened[c]

SizedInv == PositionInv /\ MetaBehindRows /\ ReopenInv

(* What the invariant says of types. *)
LEMMA SizedTypes ==
  ASSUME SizedInv
  PROVE  /\ TypeInv /\ TypeOK /\ InPrompt /\ MetaBehindRows /\ ReopenInv
         /\ Lane \in Lanes /\ input_ids \in Seq(Token)
         /\ call \in [phase : Phases, layer : Layers, head : Heads, page : Nat, pos : Nat]
<1>1. TypeInv /\ MetaBehindRows /\ ReopenInv
  BY DEF SizedInv, PositionInv
<1>2. TypeOK /\ InPrompt
  BY <1>1 DEF TypeInv
<1>3. input_ids \in Seq(Token) /\ call \in [phase : Phases, layer : Layers, head : Heads, page : Nat, pos : Nat]
  BY <1>2 DEF TypeOK
<1> QED
  BY <1>1, <1>2, <1>3, LaneType

(* What a page of the prompt, stored or not, finds. *)
LEMMA PromptPage ==
  ASSUME SizedInv, call.phase = "prefill", NEW c \in Lanes, c = Lane, NEW pid,
         pid = next_page[c], WriteChunk(c, pid)
  PROVE  /\ pid \in Pages /\ ChunkLen \in Nat \ {0} /\ ChunkLen <= PageSize
         /\ ~ HasMeta(meta_table[c][pid]) /\ c[1] = call.layer /\ call.layer \in Layers
         /\ valid_tokens' = [valid_tokens EXCEPT ![c][pid] = ChunkLen]
<1>1. /\ TypeInv /\ TypeOK /\ MetaBehindRows /\ PageSize \in Nat \ {0} /\ call.page \in Nat
      /\ call.layer \in Layers /\ pid \in Nat /\ input_ids \in Seq(Token)
  <2>1. /\ TypeInv /\ TypeOK /\ MetaBehindRows /\ input_ids \in Seq(Token)
        /\ call \in [phase : Phases, layer : Layers, head : Heads, page : Nat, pos : Nat]
    BY SizedTypes
  <2>2. next_page[c] \in 0 .. MaxPages
    BY <2>1 DEF TypeOK
  <2> QED
    BY <2>1, <2>2, ShapeAssumption
<1>2. pid \in Pages
  BY <1>1, WriteChunkType
<1>3. ChunkLen \in Nat \ {0} /\ ChunkLen <= PageSize
  <2>1. ChunkStart \in Nat /\ ChunkStart < Len(input_ids)
    BY <1>1 DEF TypeInv, InPrompt, ChunkStart
  <2> QED
    BY <1>1, <2>1 DEF ChunkLen
<1>4. meta_table[c][pid] = NoMeta
  BY <1>1, <1>2 DEF MetaBehindRows
<1> QED
  BY <1>1, <1>2, <1>3, <1>4 DEF HasMeta, NoMeta, Lane, WriteChunk

(* A page of the prompt. *)
LEMMA PrefillPageSized ==
  Sized /\ SizedInv /\ PrefillPage /\ Recorded => Budget!Next /\ ReopenInv'
<1> SUFFICES ASSUME Sized, SizedInv, PrefillPage, Recorded PROVE Budget!Next /\ ReopenInv'
  OBVIOUS
<1>1. /\ TypeOK /\ Lane \in Lanes /\ call.phase = "prefill" /\ ReopenInv
      /\ call \in [phase : Phases, layer : Layers, head : Heads, page : Nat, pos : Nat]
  <2>1. call.phase = "prefill"
    BY DEF PrefillPage
  <2> QED
    BY <2>1, SizedTypes
<1>2. PICK c, pid : c \in Lanes /\ c = Lane /\ pid = next_page[c]
  BY <1>1
<1>lane. c \in Lanes
  BY <1>2
<1> USE <1>lane
<1>3. WriteChunk(c, pid)
  BY <1>2 DEF PrefillPage
<1>4. PICK sel \in Selections(call.layer, ChunkLen) :
        StoreResiduals(c, pid, ChunkStart, ChunkLen, sel)
  BY <1>2 DEF PrefillPage
<1>5. /\ pid \in Pages /\ ChunkLen \in Nat \ {0}
      /\ ~ HasMeta(meta_table[c][pid]) /\ c[1] = call.layer /\ call.layer \in Layers
      /\ valid_tokens' = [valid_tokens EXCEPT ![c][pid] = ChunkLen]
  BY <1>1, <1>2, <1>3, PromptPage
<1>6. /\ Len(sel[1]) \in Nat /\ Len(sel[2]) \in Nat
      /\ <<Len(sel[1]), Len(sel[2])>> \in Budget!Takes(Config, c[1])
  <2>1. PICK n \in Nat : n = ChunkLen
    BY <1>5
  <2>2. sel[1] \in Seq(CGroups) /\ sel[2] \in Seq(VBlocks)
    BY <1>5, <2>1, SelectionsType
  <2>3. <<Len(sel[1]), Len(sel[2])>> \in Budget!Takes(Config, call.layer)
    BY <1>5, <2>1, SelectionAdmitted
  <2> QED
    BY <1>5, <2>2, <2>3
<1>7. call.phase # "slots_full" /\ call'.phase # "slots_full"
  BY <1>1 DEF PrefillPage, NextLane
<1>8. reopened \in [Lanes -> BOOLEAN]
  BY <1>1 DEF ReopenInv
<1>9. Budget!StorePage(c) /\ reopened' = reopened
  <2>1. PICK n \in Nat \ {0} : n = ChunkLen
    BY <1>5
  <2>2. StoreResiduals(c, pid, ChunkStart, n, sel)
    BY <1>4, <2>1
  <2> QED
    BY <1>1, <1>5, <1>6, <1>7, <1>8, <2>2, StoresPage
<1>10. Budget!Next
  BY <1>9, BudgetLanes DEF Budget!Next
<1>11. \A d \in Lanes : ~ reopened'[d]
  BY <1>1, <1>9 DEF ReopenInv
<1>12. \A d \in Lanes, q \in Pages :
         HasMeta(meta_table'[d][q]) /\ valid_tokens'[d][q] = PageSize =>
           meta_table'[d][q].num_tokens = PageSize
  <2> SUFFICES ASSUME NEW d \in Lanes, NEW q \in Pages, HasMeta(meta_table'[d][q]),
                      valid_tokens'[d][q] = PageSize
               PROVE  meta_table'[d][q].num_tokens = PageSize
    OBVIOUS
  <2>1. SetMeta(c, pid, ChunkStart, ChunkLen, sel)
    BY <1>4 DEF StoreResiduals
  <2>2. CASE d = c /\ q = pid
    <3>1. meta_table'[c][pid].num_tokens = ChunkLen
      BY <1>1, <1>5, <2>1 DEF SetMeta, TypeOK
    <3>2. valid_tokens'[c][pid] = ChunkLen
      BY <1>1, <1>5 DEF TypeOK
    <3> QED
      BY <2>2, <3>1, <3>2
  <2>3. CASE d # c \/ q # pid
    <3>1. meta_table'[d][q] = meta_table[d][q] /\ valid_tokens'[d][q] = valid_tokens[d][q]
      <4>1. meta_table \in [Lanes -> [Pages -> PageMeta]]
            /\ valid_tokens \in [Lanes -> [Pages -> 0 .. PageSize]]
        BY <1>1 DEF TypeOK
      <4>2. \E m : meta_table' = [meta_table EXCEPT ![c][pid] = m]
        BY <2>1 DEF SetMeta
      <4> QED
        BY <1>5, <2>3, <4>1, <4>2
    <3> QED
      BY <1>1, <1>7, <3>1 DEF ReopenInv
  <2> QED
    BY <2>2, <2>3
<1> QED
  BY <1>8, <1>9, <1>10, <1>11, <1>12 DEF ReopenInv, Lanes, Layers, Heads, Pages, HasMeta

(* An arena runs dry in a prompt. *)
LEMMA PrefillNoSlotSized ==
  Sized /\ SizedInv /\ PrefillNoSlot /\ Recorded => Budget!Next /\ ReopenInv'
<1> SUFFICES ASSUME Sized, SizedInv, PrefillNoSlot, Recorded PROVE Budget!Next /\ ReopenInv'
  OBVIOUS
<1>1. /\ TypeOK /\ Lane \in Lanes /\ call.phase = "prefill" /\ ReopenInv
      /\ call \in [phase : Phases, layer : Layers, head : Heads, page : Nat, pos : Nat]
  <2>1. call.phase = "prefill"
    BY DEF PrefillNoSlot
  <2> QED
    BY <2>1, SizedTypes
<1>2. PICK c, pid : c \in Lanes /\ c = Lane /\ pid = next_page[c]
  BY <1>1
<1>lane. c \in Lanes
  BY <1>2
<1> USE <1>lane
<1>3. WriteChunk(c, pid)
  BY <1>2 DEF PrefillNoSlot
<1>4. PICK sel \in Selections(call.layer, ChunkLen) : StoreFails(c, pid, ChunkLen, sel)
  BY <1>2 DEF PrefillNoSlot
<1>5. /\ pid \in Pages /\ ChunkLen \in Nat \ {0}
      /\ ~ HasMeta(meta_table[c][pid]) /\ c[1] = call.layer /\ call.layer \in Layers
  BY <1>1, <1>2, <1>3, PromptPage
<1>6. /\ Len(sel[1]) \in Nat /\ Len(sel[2]) \in Nat
      /\ <<Len(sel[1]), Len(sel[2])>> \in Budget!Takes(Config, c[1])
  <2>1. PICK n \in Nat : n = ChunkLen
    BY <1>5
  <2>2. sel[1] \in Seq(CGroups) /\ sel[2] \in Seq(VBlocks)
    BY <1>5, <2>1, SelectionsType
  <2>3. <<Len(sel[1]), Len(sel[2])>> \in Budget!Takes(Config, call.layer)
    BY <1>5, <2>1, SelectionAdmitted
  <2> QED
    BY <1>5, <2>2, <2>3
<1>7. call.phase # "slots_full" /\ call'.phase = "slots_full"
  BY <1>1 DEF PrefillNoSlot, Raise
<1>8. reopened \in [Lanes -> BOOLEAN] /\ meta_table' = meta_table
  BY <1>1, <1>4 DEF ReopenInv, StoreFails
<1>9. Budget!ArenaDry(c)
  BY <1>1, <1>4, <1>5, <1>6, <1>7, <1>8, RunsDry
<1>10. reopened' = reopened
  BY <1>8, MetaStays
<1> QED
  BY <1>1, <1>7, <1>8, <1>9, <1>10, BudgetLanes
     DEF Budget!Next, ReopenInv, Lanes, Layers, Heads, Pages, HasMeta

(* What a decode step finds: where the page it fills has metadata, the lane *)
(* has not stored a page again yet, and after it every page is full.        *)
LEMMA DecodePlace ==
  ASSUME SizedInv, call.phase = "decode", NEW c \in Lanes, c = Lane, NEW p, NEW o,
         p = DecodePage(c), o = DecodeOffset(c), AppendRow(c, p, o)
  PROVE  /\ p \in Pages /\ o \in 0 .. PageSize - 1 /\ PageSize \in Nat \ {0}
         /\ valid_tokens' = [valid_tokens EXCEPT ![c][p] = o + 1]
         /\ meta_table[c][p].num_tokens < PageSize
         /\ HasMeta(meta_table[c][p]) => ~ reopened[c]
         /\ \A q \in Pages \ {p} : HasMeta(meta_table[c][q]) =>
              meta_table[c][q].num_tokens = PageSize
         /\ c[1] = call.layer /\ call.layer \in Layers
<1>1. /\ TypeInv /\ TypeOK /\ MetaBehindRows /\ ReopenInv /\ PageSize \in Nat \ {0}
      /\ call.layer \in Layers /\ LaneInOrder(c) /\ DecodeInv /\ input_ids # <<>>
      /\ input_ids \in Seq(Token) /\ call.phase # "slots_full"
  <2>1. /\ TypeInv /\ TypeOK /\ InPrompt /\ MetaBehindRows /\ ReopenInv
        /\ input_ids \in Seq(Token)
        /\ call \in [phase : Phases, layer : Layers, head : Heads, page : Nat, pos : Nat]
    BY SizedTypes
  <2>2. LaneInOrder(c) /\ DecodeInv
    BY DEF SizedInv, PositionInv
  <2>3. input_ids # <<>>
    BY <2>1 DEF InPrompt
  <2> QED
    BY <2>1, <2>2, <2>3, ShapeAssumption
<1>2. /\ p \in Pages /\ o \in 0 .. PageSize - 1 /\ next_page[c] \in {p, p + 1}
      /\ valid_tokens' = [valid_tokens EXCEPT ![c][p] = o + 1]
      /\ meta_table[c][p].num_tokens <= o
  BY <1>1, AppendBehindMeta
<1>3. meta_table[c][p].num_tokens \in 0 .. PageSize
  BY <1>1, <1>2 DEF TypeOK, PageMeta
<1>4. meta_table[c][p].num_tokens < PageSize
  BY <1>1, <1>2, <1>3
<1>5. HasMeta(meta_table[c][p]) => ~ reopened[c]
  <2>1. meta_table[c][p].num_tokens # PageSize
    BY <1>1, <1>3, <1>4
  <2> QED
    BY <1>1, <1>2, <2>1 DEF ReopenInv
<1>6. PICK n \in Nat : Holds(c, n)
  BY <1>1 DEF DecodeInv
<1>7. \A q \in 0 .. p - 1 : Full(c, q)
  BY <1>1, <1>6, DecodeTarget
<1>8. \A q \in Pages \ {p} : HasMeta(meta_table[c][q]) => meta_table[c][q].num_tokens = PageSize
  <2> SUFFICES ASSUME NEW q \in Pages, q # p, HasMeta(meta_table[c][q])
               PROVE  meta_table[c][q].num_tokens = PageSize
    OBVIOUS
  <2>1. CASE q < p
    <3>1. q \in 0 .. p - 1
      BY <1>2, <2>1 DEF Pages
    <3>2. valid_tokens[c][q] = PageSize
      BY <1>7, <3>1 DEF Full
    <3> QED
      BY <1>1, <3>2 DEF ReopenInv
  <2>2. CASE ~ (q < p)
    <3>1. q >= next_page[c]
      BY <1>2, <2>2 DEF Pages
    <3>2. meta_table[c][q] = NoMeta
      BY <1>1, <3>1 DEF MetaBehindRows
    <3> QED
      BY <3>2 DEF HasMeta, NoMeta
  <2> QED
    BY <2>1, <2>2
<1> QED
  BY <1>1, <1>2, <1>4, <1>5, <1>8 DEF Lane

(* A decode step. *)
LEMMA DecodeHeadSized ==
  Sized /\ SizedInv /\ DecodeHead /\ Recorded =>
    [Budget!Next]_(Budget!vars) /\ ReopenInv'
<1> SUFFICES ASSUME Sized, SizedInv, DecodeHead, Recorded
             PROVE  [Budget!Next]_(Budget!vars) /\ ReopenInv'
  OBVIOUS
<1>1. /\ TypeOK /\ Lane \in Lanes /\ call.phase = "decode" /\ ReopenInv /\ call.pos \in Nat
      /\ call \in [phase : Phases, layer : Layers, head : Heads, page : Nat, pos : Nat]
  <2>1. call.phase = "decode"
    BY DEF DecodeHead
  <2> QED
    BY <2>1, SizedTypes
<1>2. PICK c, p, o : c \in Lanes /\ c = Lane /\ p = DecodePage(c) /\ o = DecodeOffset(c)
  BY <1>1
<1>lane. c \in Lanes
  BY <1>2
<1> USE <1>lane
<1>3. AppendRow(c, p, o)
  BY <1>2 DEF DecodeHead
<1>4. /\ p \in Pages /\ o \in 0 .. PageSize - 1 /\ PageSize \in Nat \ {0}
      /\ valid_tokens' = [valid_tokens EXCEPT ![c][p] = o + 1]
      /\ meta_table[c][p].num_tokens < PageSize
      /\ HasMeta(meta_table[c][p]) => ~ reopened[c]
      /\ \A q \in Pages \ {p} : HasMeta(meta_table[c][q]) =>
           meta_table[c][q].num_tokens = PageSize
      /\ c[1] = call.layer /\ call.layer \in Layers
  BY <1>1, <1>2, <1>3, DecodePlace
<1>5. call'.phase \in {"decode", "idle"} /\ call.phase # "slots_full"
  BY <1>1 DEF DecodeHead, AfterDecode, NextLane
<1>6. /\ reopened \in [Lanes -> BOOLEAN]
      /\ \A d \in Lanes : reopened[d] => \A q \in Pages :
           HasMeta(meta_table[d][q]) => meta_table[d][q].num_tokens = PageSize
      /\ \A d \in Lanes, q \in Pages :
           HasMeta(meta_table[d][q]) /\ valid_tokens[d][q] = PageSize =>
             meta_table[d][q].num_tokens = PageSize
  BY <1>1, <1>5 DEF ReopenInv
<1>7. \A d \in Lanes, q \in Pages :
        valid_tokens'[d][q] = IF d = c /\ q = p THEN o + 1 ELSE valid_tokens[d][q]
  BY <1>1, <1>4 DEF TypeOK
<1>8. CASE PageFilled(o)
  <2>1. PICK sel \in DecodeSelections(call.layer) :
          StoreResiduals(c, p, call.pos + 1 - PageSize, PageSize, sel)
    BY <1>2, <1>8 DEF DecodeHead
  <2>2. /\ Len(sel[1]) \in Nat /\ Len(sel[2]) \in Nat
        /\ <<Len(sel[1]), Len(sel[2])>> \in Budget!Takes(Config, c[1])
    BY <1>4, DecodeSelectionAdmitted, DecodeSelectionsType
  <2>3. /\ Budget!StorePage(c) \/ Budget!StoreAgain(c)
        /\ \A d \in Lanes : reopened'[d] => reopened[d] \/ d = c
        /\ reopened' \in [Lanes -> BOOLEAN]
    <3>1. CASE HasMeta(meta_table[c][p])
      <4>1. Budget!StoreAgain(c) /\ reopened' = [reopened EXCEPT ![c] = TRUE]
        BY <1>1, <1>4, <1>5, <1>6, <2>1, <2>2, <3>1, StoresAgain
      <4> QED
        BY <1>6, <4>1
    <3>2. CASE ~ HasMeta(meta_table[c][p])
      <4>1. Budget!StorePage(c) /\ reopened' = reopened
        BY <1>1, <1>4, <1>5, <1>6, <2>1, <2>2, <3>2, StoresPage
      <4> QED
        BY <1>6, <4>1
    <3> QED
      BY <3>1, <3>2
  <2>4. /\ meta_table'[c][p].num_tokens = PageSize
        /\ \A d \in Lanes, q \in Pages : d # c \/ q # p =>
             meta_table'[d][q] = meta_table[d][q]
    <3>1. /\ SetMeta(c, p, call.pos + 1 - PageSize, PageSize, sel)
          /\ meta_table \in [Lanes -> [Pages -> PageMeta]]
      BY <1>1, <2>1 DEF StoreResiduals, TypeOK
    <3> DEFINE m == [token_start |-> call.pos + 1 - PageSize, num_tokens |-> PageSize,
                     k_slots |-> SlotOf(CGroups, sel[1], k_free),
                     v_slots |-> SlotOf(VBlocks, sel[2], v_free)]
    <3>2. meta_table' = [meta_table EXCEPT ![c][p] = m] /\ m.num_tokens = PageSize
      BY <3>1 DEF SetMeta
    <3> HIDE DEF m
    <3> QED
      BY <1>4, <3>1, <3>2
  <2>5. Budget!Next
    BY <2>3, BudgetLanes DEF Budget!Next
  <2>6. \A d \in Lanes, q \in Pages :
          HasMeta(meta_table'[d][q]) /\ valid_tokens'[d][q] = PageSize =>
            meta_table'[d][q].num_tokens = PageSize
    BY <1>6, <1>7, <2>4
  <2>7. \A d \in Lanes : reopened'[d] => \A q \in Pages :
          HasMeta(meta_table'[d][q]) => meta_table'[d][q].num_tokens = PageSize
    BY <1>4, <1>6, <2>3, <2>4
  <2> QED
    BY <1>5, <2>3, <2>5, <2>6, <2>7 DEF ReopenInv, Lanes, Layers, Heads, Pages, HasMeta
<1>9. CASE ~ PageFilled(o)
  <2>1. UNCHANGED <<meta_table, k_free, v_free>>
    BY <1>2, <1>9 DEF DecodeHead, KeepResiduals
  <2>2. /\ reopened' = reopened
        /\ [d \in Lanes |-> PagesStored(d)]' = [d \in Lanes |-> PagesStored(d)]
    BY <1>6, <2>1, MetaStays
  <2>3. UNCHANGED Budget!vars
    BY <1>5, <2>1, <2>2 DEF Budget!vars
  <2>4. o + 1 # PageSize
    BY <1>9 DEF PageFilled
  <2>5. \A d \in Lanes, q \in Pages :
          HasMeta(meta_table'[d][q]) /\ valid_tokens'[d][q] = PageSize =>
            meta_table'[d][q].num_tokens = PageSize
    BY <1>6, <1>7, <2>1, <2>4
  <2>6. \A d \in Lanes : reopened'[d] => \A q \in Pages :
          HasMeta(meta_table'[d][q]) => meta_table'[d][q].num_tokens = PageSize
    BY <1>6, <2>1, <2>2
  <2> QED
    BY <1>5, <1>6, <2>2, <2>3, <2>5, <2>6 DEF ReopenInv, Lanes, Layers, Heads, Pages, HasMeta
<1> QED
  BY <1>8, <1>9

(* An arena runs dry in a decode step. *)
LEMMA DecodeNoSlotSized ==
  Sized /\ SizedInv /\ DecodeNoSlot /\ Recorded => Budget!Next /\ ReopenInv'
<1> SUFFICES ASSUME Sized, SizedInv, DecodeNoSlot, Recorded PROVE Budget!Next /\ ReopenInv'
  OBVIOUS
<1>1. /\ TypeOK /\ Lane \in Lanes /\ call.phase = "decode" /\ ReopenInv
      /\ call \in [phase : Phases, layer : Layers, head : Heads, page : Nat, pos : Nat]
  <2>1. call.phase = "decode"
    BY DEF DecodeNoSlot
  <2> QED
    BY <2>1, SizedTypes
<1>2. PICK c, p, o : c \in Lanes /\ c = Lane /\ p = DecodePage(c) /\ o = DecodeOffset(c)
  BY <1>1
<1>lane. c \in Lanes
  BY <1>2
<1> USE <1>lane
<1>3. AppendRow(c, p, o)
  BY <1>2 DEF DecodeNoSlot
<1>4. PICK sel \in DecodeSelections(call.layer) : StoreFails(c, p, PageSize, sel)
  BY <1>2 DEF DecodeNoSlot
<1>5. /\ p \in Pages
      /\ HasMeta(meta_table[c][p]) => ~ reopened[c]
      /\ c[1] = call.layer /\ call.layer \in Layers
  BY <1>1, <1>2, <1>3, DecodePlace
<1>6. /\ Len(sel[1]) \in Nat /\ Len(sel[2]) \in Nat
      /\ <<Len(sel[1]), Len(sel[2])>> \in Budget!Takes(Config, c[1])
  BY <1>5, DecodeSelectionAdmitted, DecodeSelectionsType
<1>7. call.phase # "slots_full" /\ call'.phase = "slots_full"
  BY <1>1 DEF DecodeNoSlot, Raise
<1>8. reopened \in [Lanes -> BOOLEAN] /\ meta_table' = meta_table
  BY <1>1, <1>4 DEF ReopenInv, StoreFails
<1>9. Budget!ArenaDry(c)
  BY <1>1, <1>4, <1>5, <1>6, <1>7, <1>8, RunsDry
<1>10. reopened' = reopened
  BY <1>8, MetaStays
<1> QED
  BY <1>1, <1>7, <1>8, <1>9, <1>10, BudgetLanes
     DEF Budget!Next, ReopenInv, Lanes, Layers, Heads, Pages, HasMeta

(* A prompt replaces the cache: no page, every slot free. *)
LEMMA BeginPrefillSized ==
  Sized /\ BeginPrefill /\ reopened' = [c \in Lanes |-> FALSE] => Budget!Next /\ ReopenInv'
<1> SUFFICES ASSUME Sized, BeginPrefill, reopened' = [c \in Lanes |-> FALSE]
             PROVE  Budget!Next /\ ReopenInv'
  OBVIOUS
<1>1. /\ meta_table' = [c \in Lanes |-> [p \in Pages |-> NoMeta]]
      /\ k_free' = [i \in 1 .. KArena |-> i - 1] /\ v_free' = [i \in 1 .. VArena |-> i - 1]
      /\ call'.phase = "prefill"
  BY DEF BeginPrefill, NewCache, EmptyCache
<1>2. \A c \in Lanes, p \in Pages : ~ HasMeta(meta_table'[c][p])
  BY <1>1 DEF HasMeta, NoMeta
<1>3. \A c \in Lanes : PagesStored(c)' = 0
  <2> SUFFICES ASSUME NEW c \in Lanes PROVE PagesStored(c)' = 0
    OBVIOUS
  <2>1. {p \in Pages : HasMeta(meta_table'[c][p])} = {}
    BY <1>2
  <2>2. Cardinality({p \in Pages : HasMeta(meta_table'[c][p])}) = 0
    BY <2>1, FS_EmptySet
  <2> QED
    BY <2>2 DEF PagesStored, Pages, HasMeta
<1>4. KArena - Len(k_free') = 0 /\ VArena - Len(v_free') = 0
  BY <1>1, ShapeAssumption
<1>5. Budget!NewCache
  BY <1>1, <1>3, <1>4, BudgetLanes DEF Budget!NewCache, Lanes, Layers, Heads
<1> QED
  BY <1>1, <1>2, <1>5 DEF Budget!Next, ReopenInv, Lanes, Layers, Heads, Pages, HasMeta

(* The step that takes no slot. *)
LEMMA OtherStepSized ==
  SizedInv /\ (BeginDecode \/ CacheFull) /\ Recorded => UNCHANGED Budget!vars /\ ReopenInv'
<1> SUFFICES ASSUME SizedInv, BeginDecode \/ CacheFull, Recorded
             PROVE  UNCHANGED Budget!vars /\ ReopenInv'
  OBVIOUS
<1>1. /\ meta_table' = meta_table /\ k_free' = k_free /\ v_free' = v_free
      /\ valid_tokens' = valid_tokens
  BY DEF BeginDecode, CacheFull, store
<1>2. /\ call \in [phase : Phases, layer : Layers, head : Heads, page : Nat, pos : Nat]
      /\ ReopenInv
  BY SizedTypes
<1>3. call.phase # "slots_full" /\ call'.phase \in {"decode", "pages_full"}
  BY <1>2 DEF BeginDecode, CacheFull, Raise
<1>4. /\ reopened' = reopened
      /\ [c \in Lanes |-> PagesStored(c)]' = [c \in Lanes |-> PagesStored(c)]
  BY <1>1, <1>2, MetaStays DEF ReopenInv
<1>5. UNCHANGED Budget!vars
  BY <1>1, <1>3, <1>4 DEF Budget!vars
<1> QED
  BY <1>1, <1>2, <1>3, <1>4, <1>5 DEF ReopenInv, Lanes, Layers, Heads, Pages, HasMeta

(* Every step of the cache is one of StoreBudget or leaves its state alone. *)
LEMMA SizedStep ==
  Sized /\ SizedInv /\ [SizedNext]_<<vars, reopened>> =>
    [Budget!Next]_(Budget!vars) /\ ReopenInv'
<1> SUFFICES ASSUME Sized, SizedInv, [SizedNext]_<<vars, reopened>>
             PROVE  [Budget!Next]_(Budget!vars) /\ ReopenInv'
  OBVIOUS
<1>1. CASE UNCHANGED <<vars, reopened>>
  <2>1. /\ meta_table' = meta_table /\ k_free' = k_free /\ v_free' = v_free
        /\ valid_tokens' = valid_tokens /\ reopened' = reopened /\ call' = call
    BY <1>1 DEF vars
  <2>2. [c \in Lanes |-> PagesStored(c)]' = [c \in Lanes |-> PagesStored(c)]
    BY <2>1 DEF PagesStored, HasMeta, Lanes, Layers, Heads, Pages
  <2>3. UNCHANGED Budget!vars
    BY <2>1, <2>2 DEF Budget!vars
  <2> QED
    BY <2>1, <2>3 DEF SizedInv, ReopenInv, Lanes, Layers, Heads, Pages, HasMeta
<1>2. CASE BeginPrefill /\ reopened' = [c \in Lanes |-> FALSE]
  BY <1>2, BeginPrefillSized
<1>3. CASE /\ PrefillPage \/ PrefillNoSlot \/ BeginDecode \/ DecodeHead \/ DecodeNoSlot \/ CacheFull
           /\ reopened' = [c \in Lanes |-> reopened[c] \/ StoredAgain(c)]
  <2>1. Recorded
    BY <1>3 DEF Recorded
  <2> QED
    BY <1>3, <2>1, PrefillPageSized, PrefillNoSlotSized, OtherStepSized, DecodeHeadSized,
       DecodeNoSlotSized
<1> QED
  BY <1>1, <1>2, <1>3 DEF SizedNext

LEMMA SizedInitial == Sized /\ SizedInit => Budget!Init /\ ReopenInv
<1> SUFFICES ASSUME Sized, SizedInit PROVE Budget!Init /\ ReopenInv
  OBVIOUS
<1>1. /\ meta_table = [c \in Lanes |-> [p \in Pages |-> NoMeta]]
      /\ k_free = [i \in 1 .. KArena |-> i - 1] /\ v_free = [i \in 1 .. VArena |-> i - 1]
      /\ call.phase = "idle" /\ reopened = [c \in Lanes |-> FALSE]
  BY DEF SizedInit, Init, EmptyCache
<1>2. \A c \in Lanes, p \in Pages : ~ HasMeta(meta_table[c][p])
  BY <1>1 DEF HasMeta, NoMeta
<1>3. \A c \in Lanes : PagesStored(c) = 0
  <2> SUFFICES ASSUME NEW c \in Lanes PROVE PagesStored(c) = 0
    OBVIOUS
  <2>1. {p \in Pages : HasMeta(meta_table[c][p])} = {}
    BY <1>2
  <2> QED
    BY <2>1, FS_EmptySet DEF PagesStored
<1>4. KArena - Len(k_free) = 0 /\ VArena - Len(v_free) = 0
  BY <1>1, ShapeAssumption
<1>5. Budget!Init
  BY <1>1, <1>3, <1>4, BudgetLanes DEF Budget!Init
<1> QED
  BY <1>1, <1>2, <1>5 DEF ReopenInv

(* The cache, with the arenas and page budgets the code computes for it,    *)
(* takes its slots as StoreBudget says: for whatever lengths of prompts and *)
(* generations, and also where an allocation fails half way through a page. *)
THEOREM SizedCacheKeepsBudget == Sized => (SizedSpec => ImplementsBudget)
<1> SUFFICES ASSUME Sized PROVE SizedSpec => ImplementsBudget
  OBVIOUS
<1>1. SizedInit => Init
  BY DEF SizedInit
<1>2. [SizedNext]_<<vars, reopened>> => [Next]_vars
  BY DEF SizedNext, Next
<1>3. SizedSpec => Spec
  BY <1>1, <1>2, PTL DEF SizedSpec, Spec
<1>4. SlotInv => MetaBehindRows
  BY DEF SlotInv
<1>5. PositionInv /\ MetaBehindRows /\ ReopenInv /\ [SizedNext]_<<vars, reopened>> =>
        [Budget!Next]_(Budget!vars) /\ ReopenInv'
  BY SizedStep DEF SizedInv
<1>6. SizedInit => Budget!Init /\ ReopenInv
  BY SizedInitial
<1> QED
  BY <1>3, <1>4, <1>5, <1>6, PositionCorrect, SlotsCorrect, PTL
     DEF SizedSpec, ImplementsBudget, Budget!Spec

(* What StoreBudgetProofs shows of StoreBudget holds of the cache's slots:   *)
(* the definitions that module works on are those Budget names.              *)
Facts == INSTANCE StoreBudgetProofs WITH
           Configs <- {Config}, cfg <- Config,
           pages <- [c \in Lanes |-> PagesStored(c)],
           used_k <- KArena - Len(k_free), used_v <- VArena - Len(v_free),
           phase <- IF call.phase = "slots_full" THEN "slots_full" ELSE "running"

LEMMA SameMultiplier == \A c, l : Budget!Multiplier(c, l) = Facts!Multiplier(c, l)
<1>1. \A f : Budget!SumFunction(f) = Facts!SumFunction(f)
  BY Zenon DEF Budget!SumFunction, Facts!SumFunction, Budget!SumFunctionOnSet,
       Facts!SumFunctionOnSet, Budget!FoldFunctionOnSet, Facts!FoldFunctionOnSet,
       Budget!MapThenFoldSet, Facts!MapThenFoldSet
<1>2. \A c, l : Budget!Weight(c, l) = Facts!Weight(c, l)
  BY Zenon DEF Budget!Weight, Facts!Weight, Budget!UWeight, Facts!UWeight,
       Budget!Dist, Facts!Dist, Budget!Layers, Facts!Layers
<1>3. \A c : Budget!TotalWeight(c) = Facts!TotalWeight(c)
  BY <1>1, <1>2, Zenon DEF Budget!TotalWeight, Facts!TotalWeight, Budget!Layers,
       Facts!Layers
<1> QED
  BY <1>2, <1>3, Zenon DEF Budget!Multiplier, Facts!Multiplier

LEMMA SameTakes ==
  /\ \A c, l : Budget!Takes(c, l) = Facts!Takes(c, l)
  /\ \A c : Budget!max_slots(c) = Facts!max_slots(c) /\ Budget!k_slots(c) =
       Facts!k_slots(c)
<1>0. \A i, j : /\ Budget!Round(i, j) = Facts!Round(i, j)
                /\ Budget!Most(i, j) = Facts!Most(i, j)
  BY Zenon DEF Budget!Round, Facts!Round, Budget!Most, Facts!Most
<1>1. \A c, l, n : Budget!AbsBudget(c, l, n) = Facts!AbsBudget(c, l, n)
  BY SameMultiplier, <1>0, Zenon DEF Budget!AbsBudget, Facts!AbsBudget
<1>2. \A c, l, n, r, f : Budget!Share(c, l, n, r, f) = Facts!Share(c, l, n, r, f)
  BY SameMultiplier, <1>0, Zenon DEF Budget!Share, Facts!Share
<1>3. \A c, l, o, f, n : Budget!RatioBudget(c, l, o, f, n) = Facts!RatioBudget(c, l, o, f, n)
  <2>1. Budget!None = Facts!None
    BY DEF Budget!None, Facts!None
  <2>2. \A c, l, f, n, ratio :
          (IF ratio * f * Budget!Multiplier(c, l).num = 0 THEN 0
           ELSE Budget!Most(c.min_per_kind, Budget!Share(c, l, n, ratio, f)))
          = IF ratio * f * Facts!Multiplier(c, l).num = 0 THEN 0
            ELSE Facts!Most(c.min_per_kind, Facts!Share(c, l, n, ratio, f))
    <3> TAKE c, l, f, n, ratio
    <3>1. /\ Budget!Multiplier(c, l) = Facts!Multiplier(c, l)
          /\ Budget!Share(c, l, n, ratio, f) = Facts!Share(c, l, n, ratio, f)
      BY SameMultiplier, <1>2
    <3> QED
      BY <1>0, <3>1
  <2> SUFFICES ASSUME NEW c, NEW l, NEW o, NEW f, NEW n
               PROVE  Budget!RatioBudget(c, l, o, f, n) = Facts!RatioBudget(c, l, o, f, n)
    OBVIOUS
  <2>3. PICK ratio : ratio = IF o = Budget!None THEN c.ratio ELSE o
    OBVIOUS
  <2>4. Budget!RatioBudget(c, l, o, f, n) =
          IF ratio * f * Budget!Multiplier(c, l).num = 0 THEN 0
          ELSE Budget!Most(c.min_per_kind, Budget!Share(c, l, n, ratio, f))
    BY <2>3 DEF Budget!RatioBudget
  <2>5. Facts!RatioBudget(c, l, o, f, n) =
          IF ratio * f * Facts!Multiplier(c, l).num = 0 THEN 0
          ELSE Facts!Most(c.min_per_kind, Facts!Share(c, l, n, ratio, f))
    BY <2>1, <2>3 DEF Facts!RatioBudget
  <2> QED
    BY <2>2, <2>4, <2>5
<1>4. \A c, l : /\ Budget!k_budget(c, l) = Facts!k_budget(c, l)
                /\ Budget!v_budget(c, l) = Facts!v_budget(c, l)
  BY <1>1, <1>3, Zenon DEF Budget!k_budget, Facts!k_budget, Budget!v_budget,
       Facts!v_budget, Budget!UsesK, Facts!UsesK, Budget!UsesV, Facts!UsesV
<1>5. \A c, l : Budget!joint_budget(c, l) = Facts!joint_budget(c, l)
  BY SameMultiplier, <1>4, Zenon DEF Budget!joint_budget, Facts!joint_budget,
       Budget!Most, Facts!Most
<1>6. \A c, l : Budget!Takes(c, l) = Facts!Takes(c, l)
  BY <1>4, <1>5, Zenon DEF Budget!Takes, Facts!Takes, Budget!StoresNothing,
       Facts!StoresNothing, Budget!Least, Facts!Least
<1>7. \A c : Budget!max_slots(c) = Facts!max_slots(c) /\ Budget!k_slots(c) =
     Facts!k_slots(c)
  BY DEF Budget!k_slots, Facts!k_slots, Budget!max_slots, Facts!max_slots,
       Budget!Most, Facts!Most
<1> QED
  BY <1>6, <1>7

LEMMA SameBudgetSpec == Budget!Spec => Facts!Spec
<1>1. Budget!Init => Facts!Init
  BY DEF Budget!Init, Facts!Init, Budget!Lanes, Facts!Lanes, Budget!Layers, Facts!Layers
<1>2. \A c : Budget!StorePage(c) = Facts!StorePage(c)
  BY SameTakes, Zenon DEF Budget!StorePage, Facts!StorePage, Budget!TakeSlots,
       Facts!TakeSlots, Budget!NewPage, Facts!NewPage, Budget!Fits, Facts!Fits
<1>3. \A c : Budget!StoreAgain(c) = Facts!StoreAgain(c)
  BY SameTakes, Zenon DEF Budget!StoreAgain, Facts!StoreAgain, Budget!TakeSlots,
       Facts!TakeSlots, Budget!OpenPage, Facts!OpenPage, Budget!Fits, Facts!Fits
<1>4. \A c : Budget!ArenaDry(c) = Facts!ArenaDry(c)
  BY SameTakes, Zenon DEF Budget!ArenaDry, Facts!ArenaDry, Budget!OpenPage,
       Facts!OpenPage, Budget!NewPage, Facts!NewPage, Budget!Fits, Facts!Fits
<1>5. Budget!NewCache = Facts!NewCache
  BY Zenon DEF Budget!NewCache, Facts!NewCache, Budget!Lanes, Facts!Lanes,
       Budget!Layers, Facts!Layers
<1>6. Budget!Lanes = Facts!Lanes
  BY Zenon DEF Budget!Lanes, Facts!Lanes, Budget!Layers, Facts!Layers
<1>7. Budget!Next => Facts!Next
  BY <1>2, <1>3, <1>4, <1>5, <1>6, Zenon DEF Budget!Next, Facts!Next
<1>8. UNCHANGED Budget!vars => UNCHANGED Facts!vars
  BY DEF Budget!vars, Facts!vars
<1> QED
  BY <1>1, <1>7, <1>8, PTL DEF Budget!Spec, Facts!Spec

(* Under absolute budgets a cache of at least three pages never raises "no  *)
(* slot left", whatever prompts and generations it serves and whichever     *)
(* layers the budget policy favours.                                        *)
THEOREM ArenasNeverDry == Sized => (SizedSpec => []ArenaNeverDry)
<1> SUFFICES ASSUME Sized PROVE SizedSpec => []ArenaNeverDry
  OBVIOUS
<1>1. Facts!BudgetAssumption
  <2>1. Config \in Facts!ConfigShape
    BY DEF Sized, Budget!ConfigShape, Facts!ConfigShape, Budget!None, Facts!None
  <2>2. /\ {Den, NumKvHeads, MaxPages} \subseteq Nat \ {0}
        /\ {NumCG, NumVB, MinSlots} \subseteq Nat
    BY ShapeAssumption DEF Sized, NumVB
  <2>3. \A l \in 0 .. Config.L - 1 : Sensitivity(Config.L, l) \in Nat
    BY DEF Sized, Layers
  <2> QED
    BY <2>1, <2>2, <2>3 DEF Facts!BudgetAssumption
<1>2. Facts!Spec => []Facts!ArenaSuffices
  BY <1>1, Facts!ArenasSuffice DEF Facts!BudgetAssumption
<1>3. Facts!ArenaSuffices => ArenaNeverDry
  BY DEF ArenaNeverDry, Budget!VOnly, Facts!VOnly, Budget!UsesK, Facts!UsesK,
       Facts!ArenaSuffices
<1> QED
  BY <1>2, <1>3, SizedCacheKeepsBudget, SameBudgetSpec, PTL DEF ImplementsBudget
=============================================================================
