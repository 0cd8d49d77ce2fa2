------------------------------ MODULE PagedCache ------------------------------
(***************************************************************************)
(* The paged KV cache of one sequence (cache.py) together with the code    *)
(* that writes it: the page loop of a prefill and the head loop of a       *)
(* decode step (layer.py), and the store-time residual filter they call    *)
(* on each page (residual_store.py).                                       *)
(*                                                                         *)
(* The layers of a model share one cache.  A forward pass visits them in   *)
(* order; inside a layer the KV heads are written one after the other, and *)
(* during a prefill a head is written page by page.  One action is one     *)
(* iteration of the innermost loop, because an assertion that fails in an  *)
(* iteration leaves the earlier ones done.                                 *)
(*                                                                         *)
(* Key and value of a token are one value here: the code writes them side  *)
(* by side.  Which residual candidates win is left open (their scores are  *)
(* real numbers); how many may win, which blocks are eligible and which    *)
(* slot each one gets is the code's.                                       *)
(***************************************************************************)
EXTENDS Integers, FiniteSets, SequencesExt

CONSTANTS
  NumLayers, NumKvHeads,     \* shape of the model
  PageSize, MaxPages,        \* rows of a page, pages of a lane
  NumCG,                     \* channel groups: head_dim \div k_channel_group
  VTokenBlock,               \* rows of one V residual block
  Joint,                     \* TRUE for CAREKV_STORE_POLICY=joint
  KBudget, VBudget,          \* per layer: residual slots a page may take
  JointBudget,               \* per layer: the shared budget of policy joint
  KArena, VArena,            \* residual slots in the two arenas
  DecodeResidual,            \* TRUE if the K/V dtype rounds the dequantized row
  Token, Zero,               \* token identities; the content of an unwritten row
  MaxPrompt, MaxContext      \* bounds of the model: tokens of a prompt, in all

Layers   == 0 .. NumLayers - 1
Heads    == 0 .. NumKvHeads - 1
Lanes    == Layers \X Heads
Pages    == 0 .. MaxPages - 1
Rows     == 0 .. PageSize - 1
CGroups  == 0 .. NumCG - 1
NumVB    == (PageSize + VTokenBlock - 1) \div VTokenBlock
VBlocks  == 0 .. NumVB - 1
KSlots   == 0 .. KArena - 1
VSlots   == 0 .. VArena - 1

ASSUME ShapeAssumption ==
  /\ {NumLayers, NumKvHeads, PageSize, MaxPages, VTokenBlock} \subseteq Nat \ {0}
  /\ {NumCG, KArena, VArena, MaxPrompt, MaxContext} \subseteq Nat
  /\ {Joint, DecodeResidual} \subseteq BOOLEAN
  /\ Zero \notin Token

ASSUME BudgetAssumption ==
  /\ KBudget \in [Layers -> Nat]
  /\ VBudget \in [Layers -> Nat]
  /\ JointBudget \in [Layers -> Nat]

VARIABLES
  next_page,     \* [Lanes -> 0..MaxPages]: pages allocated to a lane
  valid_tokens,  \* rows written of each page
  rows,          \* base codes: the token whose K/V a row holds
  meta_table,    \* PageMeta of each page, NoMeta until process_page has run
  k_free, v_free,\* free lists of the residual arenas
  k_buf, v_buf,  \* residual payload of each slot
  input_ids,     \* the token sequence the caller has built
  call           \* the forward pass in progress

store == <<next_page, valid_tokens, rows, meta_table, k_free, v_free, k_buf, v_buf>>
vars  == <<next_page, valid_tokens, rows, meta_table, k_free, v_free, k_buf, v_buf,
           input_ids, call>>

Unused == -1     \* a residual slot index of -1: no residual stored

NoMeta == [token_start |-> 0, num_tokens |-> 0,
           k_slots |-> [g \in CGroups |-> Unused],
           v_slots |-> [b \in VBlocks |-> Unused]]

HasMeta(m) == m.num_tokens > 0

(* A payload names the page and group it corrects and the rows it was      *)
(* computed from; <<>> is a slot that was never written.                   *)
Payload == {<<>>} \cup (Lanes \X Pages \X Nat \X Seq(Token \cup {Zero}))

Phases == {"idle", "prefill", "decode", "pages_full", "slots_full"}

-------------------------------------------------------------------------------
(* Reading the cache *)

all_page_ids(c) == 0 .. next_page[c] - 1

(* The rows of the given pages that hold a token, as <<page, row>>; the    *)
(* code adds up the valid_tokens of the pages, which counts them.          *)
ValidRows(c, pages) == {x \in pages \X Rows : x[2] < valid_tokens[c][x[1]]}

(* Tokens in the first p pages of a lane. *)
TokensBefore(c, p) == Cardinality(ValidRows(c, 0 .. p - 1))

(* Mutant: counts the capacity of the pages instead of their tokens. *)
total_valid_tokens_capacity(c) == next_page[c] * PageSize

total_valid_tokens(c) == TokensBefore(c, next_page[c])

(* The valid rows of the pages, concatenated; an empty page adds nothing. *)
read_base_concat(c) ==
  FlattenSeq([i \in 1 .. next_page[c] |->
                [t \in 1 .. valid_tokens[c][i - 1] |-> rows[c][i - 1][t - 1]]])

(* The last page if it still has room, else Unused. *)
get_open_page(c) ==
  LET last == next_page[c] - 1 IN
  IF next_page[c] > 0 /\ valid_tokens[c][last] < PageSize THEN last ELSE Unused

-------------------------------------------------------------------------------
(* Store-time residual selection: process_page *)

(* What process_page may select for a page with n valid rows: at most the  *)
(* budget of the layer, each group once, V blocks only where a row is      *)
(* valid.  The sequences are in the order slots are handed out.            *)
Picks(S, n) == {s \in SeqOf(S, n) : IsInjective(s)}

Selections(layer, n) ==
  LET blocks == {b \in VBlocks : b * VTokenBlock < n}
      kMax   == IF Joint THEN JointBudget[layer] ELSE KBudget[layer]
      vMax   == IF Joint THEN JointBudget[layer] ELSE VBudget[layer]
  IN {sel \in Picks(CGroups, kMax) \X Picks(blocks, vMax) :
        Joint => Len(sel[1]) + Len(sel[2]) <= JointBudget[layer]}

(* The slot a pop(0) loop over the free list gives to each picked group. *)
SlotOf(groups, picked, free) ==
  [g \in groups |-> IF \E i \in 1 .. Len(picked) : picked[i] = g
                    THEN free[CHOOSE i \in 1 .. Len(picked) : picked[i] = g]
                    ELSE Unused]

(* Mutant: the last slot handed out stays on the free list. *)
DropFirst_peek(free, n) == SubSeq(free, IF n = 0 THEN 1 ELSE n, Len(free))

DropFirst(free, n) == SubSeq(free, n + 1, Len(free))

(* write_k_residual / write_v_residual for the first n picked groups. *)
Written(buf, free, picked, n, c, pid, content) ==
  [s \in DOMAIN buf |->
     IF \E i \in 1 .. n : free[i] = s
     THEN <<c, pid, picked[CHOOSE i \in 1 .. n : free[i] = s], content>>
     ELSE buf[s]]

(* The rows a residual of page pid is computed from. *)
PageContent(page, n) == [t \in 1 .. n |-> page[t - 1]]

(* The first i picked channel groups and the first j picked token blocks    *)
(* each get the slot at the head of their free list and write it.           *)
TakeSlots(c, pid, n, sel, i, j) ==
  LET content == PageContent(rows'[c][pid], n) IN
  /\ i <= Len(k_free) /\ j <= Len(v_free)
  /\ k_buf' = Written(k_buf, k_free, sel[1], i, c, pid, content)
  /\ v_buf' = Written(v_buf, v_free, sel[2], j, c, pid, content)
  /\ k_free' = DropFirst(k_free, i)
  /\ v_free' = DropFirst(v_free, j)

(* Mutant: returns early when nothing was selected, leaving no metadata. *)
SetMeta_skip_empty(c, pid, start, n, sel) ==
  meta_table' = IF sel = <<<<>>, <<>>>> THEN meta_table
                ELSE [meta_table EXCEPT ![c][pid] =
                        [token_start |-> start, num_tokens |-> n,
                         k_slots |-> SlotOf(CGroups, sel[1], k_free),
                         v_slots |-> SlotOf(VBlocks, sel[2], v_free)]]

SetMeta(c, pid, start, n, sel) ==
  meta_table' = [meta_table EXCEPT ![c][pid] =
                   [token_start |-> start, num_tokens |-> n,
                    k_slots |-> SlotOf(CGroups, sel[1], k_free),
                    v_slots |-> SlotOf(VBlocks, sel[2], v_free)]]

(* process_page, when both arenas can serve the selection. *)
StoreResiduals(c, pid, start, n, sel) ==
  /\ TakeSlots(c, pid, n, sel, Len(sel[1]), Len(sel[2]))
  /\ SetMeta(c, pid, start, n, sel)

(* process_page, when an arena runs dry: i K and j V slots are taken before *)
(* alloc_k_slot or alloc_v_slot fails, and no metadata is written.          *)
StoreFails(c, pid, n, sel) ==
  /\ \E i \in 0 .. Len(sel[1]), j \in 0 .. Len(sel[2]) :
       /\ TakeSlots(c, pid, n, sel, i, j)
       /\ (i < Len(sel[1]) /\ i = Len(k_free)) \/ (j < Len(sel[2]) /\ j = Len(v_free))
       /\ Joint \/ i = Len(sel[1]) \/ (i = Len(k_free) /\ j = 0)   \* K slots come first
  /\ UNCHANGED meta_table

KeepResiduals == UNCHANGED <<meta_table, k_free, v_free, k_buf, v_buf>>

-------------------------------------------------------------------------------
(* Control of a forward pass *)

Lane == <<call.layer, call.head>>

(* Mutant: the page counter of the loop survives into the next head. *)
NextLane_keep_page ==
  IF call.head < NumKvHeads - 1
    THEN [call EXCEPT !.head = @ + 1]
  ELSE IF call.layer < NumLayers - 1
    THEN [call EXCEPT !.layer = @ + 1, !.head = 0]
  ELSE [call EXCEPT !.phase = "idle"]

(* The next head of the layer, the next layer, or the end of the pass. *)
NextLane ==
  IF call.head < NumKvHeads - 1
    THEN [call EXCEPT !.head = @ + 1, !.page = 0]
  ELSE IF call.layer < NumLayers - 1
    THEN [call EXCEPT !.layer = @ + 1, !.head = 0, !.page = 0]
  ELSE [call EXCEPT !.phase = "idle"]

(* An assertion failed: the exception leaves the forward pass where it is. *)
Raise(phase) == call' = [call EXCEPT !.phase = phase]

(* _init_buffers: what a new cache object holds. *)
EmptyCache ==
  [next_page    |-> [c \in Lanes |-> 0],
   valid_tokens |-> [c \in Lanes |-> [p \in Pages |-> 0]],
   rows         |-> [c \in Lanes |-> [p \in Pages |-> [t \in Rows |-> Zero]]],
   meta_table   |-> [c \in Lanes |-> [p \in Pages |-> NoMeta]],
   k_free       |-> [i \in 1 .. KArena |-> i - 1],
   v_free       |-> [i \in 1 .. VArena |-> i - 1],
   k_buf        |-> [s \in KSlots |-> <<>>],
   v_buf        |-> [s \in VSlots |-> <<>>]]

Init == /\ next_page    = EmptyCache.next_page
        /\ valid_tokens = EmptyCache.valid_tokens
        /\ rows         = EmptyCache.rows
        /\ meta_table   = EmptyCache.meta_table
        /\ k_free       = EmptyCache.k_free
        /\ v_free       = EmptyCache.v_free
        /\ k_buf        = EmptyCache.k_buf
        /\ v_buf        = EmptyCache.v_buf
        /\ input_ids = <<>>
        /\ call = [phase |-> "idle", layer |-> 0, head |-> 0, page |-> 0, pos |-> 0]

NewCache == /\ next_page'    = EmptyCache.next_page
            /\ valid_tokens' = EmptyCache.valid_tokens
            /\ rows'         = EmptyCache.rows
            /\ meta_table'   = EmptyCache.meta_table
            /\ k_free'       = EmptyCache.k_free
            /\ v_free'       = EmptyCache.v_free
            /\ k_buf'        = EmptyCache.k_buf
            /\ v_buf'        = EmptyCache.v_buf

(* A prompt arrives.  Layer 0 replaces the cache of an earlier sequence,   *)
(* of one that ended in an exception too.                                  *)
BeginPrefill ==
  /\ call.phase \notin {"prefill", "decode"}
  /\ \E n \in 1 .. MaxPrompt : input_ids' \in [1 .. n -> Token]
  /\ NewCache
  /\ call' = [phase |-> "prefill", layer |-> 0, head |-> 0, page |-> 0, pos |-> 0]

(* The tokens of the prompt that go to page call.page of a lane. *)
ChunkStart == call.page * PageSize

(* Mutant: the last page is not cut at the page size. *)
ChunkLen_uncut == Len(input_ids) - ChunkStart

ChunkLen == IF Len(input_ids) - ChunkStart < PageSize
            THEN Len(input_ids) - ChunkStart ELSE PageSize

(* alloc_page and write_base for one page of the prompt; the rows after    *)
(* the last token are padding.                                             *)
WriteChunk(c, pid) ==
  /\ pid < MaxPages
  /\ next_page' = [next_page EXCEPT ![c] = pid + 1]
  /\ valid_tokens' = [valid_tokens EXCEPT ![c][pid] = ChunkLen]
  /\ rows' = [rows EXCEPT ![c][pid] =
                [t \in Rows |-> IF t < ChunkLen THEN input_ids[ChunkStart + t + 1]
                                ELSE Zero]]

(* One iteration of the page loop of _write_pages_for_kv_head. *)
PrefillPage ==
  LET c == Lane  pid == next_page[c] IN
  /\ call.phase = "prefill"
  /\ WriteChunk(c, pid)
  /\ \E sel \in Selections(call.layer, ChunkLen) :
        StoreResiduals(c, pid, ChunkStart, ChunkLen, sel)
  /\ call' = IF ChunkStart + PageSize < Len(input_ids)
             THEN [call EXCEPT !.page = @ + 1] ELSE NextLane
  /\ UNCHANGED input_ids

PrefillNoSlot ==
  LET c == Lane  pid == next_page[c] IN
  /\ call.phase = "prefill"
  /\ WriteChunk(c, pid)
  /\ \E sel \in Selections(call.layer, ChunkLen) : StoreFails(c, pid, ChunkLen, sel)
  /\ Raise("slots_full")
  /\ UNCHANGED input_ids

(* The caller feeds the token it generated: decode_step in every layer. *)
BeginDecode ==
  /\ call.phase = "idle"
  /\ input_ids # <<>> /\ Len(input_ids) < MaxContext
  /\ \E tok \in Token : input_ids' = Append(input_ids, tok)
  /\ call' = [phase |-> "decode", layer |-> 0, head |-> 0, page |-> 0,
              pos |-> total_valid_tokens(<<0, 0>>)]
  /\ UNCHANGED store

(* append_to_page on the open page, or on a page allocated for the token. *)
AppendRow(c, pid, offset) ==
  /\ pid < MaxPages
  /\ next_page' = [next_page EXCEPT ![c] = pid + 1]
  /\ rows' = [rows EXCEPT ![c][pid][offset] = input_ids[Len(input_ids)]]
  /\ valid_tokens' = [valid_tokens EXCEPT ![c][pid] = offset + 1]

DecodePage(c) == IF get_open_page(c) = Unused THEN next_page[c] ELSE get_open_page(c)

(* Mutant: writes the last valid row again instead of the one after it. *)
DecodeOffset_last(c) == IF get_open_page(c) = Unused THEN 0
                        ELSE valid_tokens[c][get_open_page(c)] - 1

DecodeOffset(c) == IF get_open_page(c) = Unused THEN 0
                   ELSE valid_tokens[c][get_open_page(c)]

(* A page filled by a decode step is processed with K_orig := K_hat, so    *)
(* no group has an error unless the dtype of the model rounds K_hat.       *)
DecodeSelections(layer) ==
  IF DecodeResidual THEN Selections(layer, PageSize) ELSE {<<<<>>, <<>>>>}

(* pos_abs is read from head 0 when a layer begins. *)
AfterDecode ==
  IF NextLane.layer = call.layer THEN NextLane
  ELSE [NextLane EXCEPT !.pos = total_valid_tokens(<<NextLane.layer, 0>>)]

(* Mutant: residuals are computed after every appended row. *)
PageFilled_always(offset) == TRUE

(* Residuals are computed when the appended row filled the page. *)
PageFilled(offset) == offset + 1 = PageSize

(* One iteration of the head loop of decode_step. *)
DecodeHead ==
  LET c == Lane  pid == DecodePage(c)  offset == DecodeOffset(c) IN
  /\ call.phase = "decode"
  /\ AppendRow(c, pid, offset)
  /\ IF PageFilled(offset)
     THEN \E sel \in DecodeSelections(call.layer) :
            StoreResiduals(c, pid, call.pos + 1 - PageSize, PageSize, sel)
     ELSE KeepResiduals
  /\ call' = AfterDecode
  /\ UNCHANGED input_ids

DecodeNoSlot ==
  LET c == Lane  pid == DecodePage(c)  offset == DecodeOffset(c) IN
  /\ call.phase = "decode"
  /\ AppendRow(c, pid, offset)
  /\ PageFilled(offset)
  /\ \E sel \in DecodeSelections(call.layer) : StoreFails(c, pid, PageSize, sel)
  /\ Raise("slots_full")
  /\ UNCHANGED input_ids

(* alloc_page fails: "KV cache is full". *)
CacheFull ==
  /\ \/ call.phase = "prefill" /\ next_page[Lane] = MaxPages
     \/ call.phase = "decode"  /\ DecodePage(Lane) = MaxPages
  /\ Raise("pages_full")
  /\ UNCHANGED <<store, input_ids>>

Next == \/ BeginPrefill
        \/ PrefillPage
        \/ PrefillNoSlot
        \/ BeginDecode
        \/ DecodeHead
        \/ DecodeNoSlot
        \/ CacheFull

Spec == Init /\ [][Next]_vars

-------------------------------------------------------------------------------
(* Properties *)

PageMeta == [token_start : Int, num_tokens : 0 .. PageSize,
             k_slots : [CGroups -> KSlots \cup {Unused}],
             v_slots : [VBlocks -> VSlots \cup {Unused}]]

(* The types of the variables.  The free lists are sequences of slot       *)
(* numbers; token_start is an Int because decode_step computes it by       *)
(* subtraction.                                                            *)
TypeOK ==
  /\ next_page \in [Lanes -> 0 .. MaxPages]
  /\ valid_tokens \in [Lanes -> [Pages -> 0 .. PageSize]]
  /\ rows \in [Lanes -> [Pages -> [Rows -> Token \cup {Zero}]]]
  /\ meta_table \in [Lanes -> [Pages -> PageMeta]]
  /\ k_free \in Seq(KSlots) /\ v_free \in Seq(VSlots)
  /\ k_buf \in [KSlots -> Payload] /\ v_buf \in [VSlots -> Payload]
  /\ input_ids \in Seq(Token)
  /\ call \in [phase : Phases, layer : Layers, head : Heads, page : Nat, pos : Nat]

(* Every page before the last one of a lane is full and has its metadata,  *)
(* whatever mix of prefilled and decoded tokens the lane holds.            *)
OnlyLastPageOpen ==
  \A c \in Lanes : \A p \in 0 .. next_page[c] - 2 :
     valid_tokens[c][p] = PageSize /\ HasMeta(meta_table[c][p])

(* The token_start a page records (0-based position in the prefill, or     *)
(* pos_abs + 1 - page_size in a decode step, where pos_abs is counted on   *)
(* KV head 0) is the number of tokens its own lane holds before the page.  *)
TokenStartExact ==
  \A c \in Lanes : \A p \in all_page_ids(c) :
     HasMeta(meta_table[c][p]) =>
       meta_table[c][p].token_start = TokensBefore(c, p)

(* The token offset ResidualRouter.route and _build_v_slot_index give to a *)
(* page: they skip a page without metadata and do not count its tokens.    *)
router_token_offset(c, p) ==
  Cardinality(ValidRows(c, {q \in 0 .. p - 1 : valid_tokens[c][q] > 0
                                             /\ HasMeta(meta_table[c][q])}))

(* The router scores a page on the attention weights of that page: the     *)
(* offset it uses is the page's offset in the concatenated valid rows.     *)
RouterOffsetsAligned ==
  \A c \in Lanes : \A p \in all_page_ids(c) :
     HasMeta(meta_table[c][p]) => router_token_offset(c, p) = TokensBefore(c, p)

(* <<lane, page, group>> of the K and V residuals the metadata refers to. *)
KRefs == {r \in Lanes \X Pages \X CGroups : meta_table[r[1]][r[2]].k_slots[r[3]] # Unused}
VRefs == {r \in Lanes \X Pages \X VBlocks : meta_table[r[1]][r[2]].v_slots[r[3]] # Unused}
KSlotAt(r) == meta_table[r[1]][r[2]].k_slots[r[3]]
VSlotAt(r) == meta_table[r[1]][r[2]].v_slots[r[3]]

(* No residual slot is referred to twice, by two pages, groups or lanes    *)
(* (the layers share the arenas), and none that is referred to is free.    *)
SlotsExclusive ==
  /\ IsInjective(k_free) /\ IsInjective(v_free)
  /\ \A r \in KRefs : KSlotAt(r) \notin {k_free[i] : i \in 1 .. Len(k_free)}
  /\ \A r \in VRefs : VSlotAt(r) \notin {v_free[i] : i \in 1 .. Len(v_free)}
  /\ \A r, q \in KRefs : KSlotAt(r) = KSlotAt(q) => r = q
  /\ \A r, q \in VRefs : VSlotAt(r) = VSlotAt(q) => r = q

(* A residual that metadata refers to was computed for that page and group *)
(* from the very rows the page still holds: no later write to the page or  *)
(* to another lane has made a stored residual wrong.                       *)
ResidualsMatchBase ==
  LET Content(r) == PageContent(rows[r[1]][r[2]], meta_table[r[1]][r[2]].num_tokens)
  IN /\ \A r \in KRefs : k_buf[KSlotAt(r)] = <<r[1], r[2], r[3], Content(r)>>
     /\ \A r \in VRefs : v_buf[VSlotAt(r)] = <<r[1], r[2], r[3], Content(r)>>

(* Slots a later process_page of the same page orphaned: no free list and  *)
(* no metadata knows them until the whole cache is replaced.               *)
KLeaked == KSlots \ ({k_free[i] : i \in 1 .. Len(k_free)} \cup {KSlotAt(r) : r \in KRefs})
VLeaked == VSlots \ ({v_free[i] : i \in 1 .. Len(v_free)} \cup {VSlotAt(r) : r \in VRefs})

(* free_k_slot and free_v_slot are never called.  What is lost that way is *)
(* bounded: as long as no arena has run dry, a lane loses at most the      *)
(* residuals of one page, the page its prompt ended in.                    *)
LeakBounded ==
  call.phase # "slots_full" =>
    \A c \in Lanes :
      /\ Cardinality({k_buf[s][2] : s \in {x \in KLeaked : k_buf[x][1] = c}}
           \cup {v_buf[s][2] : s \in {x \in VLeaked : v_buf[x][1] = c}}) <= 1
      /\ \A s \in KLeaked : Len(k_buf[s][4]) < PageSize
      /\ \A s \in VLeaked : Len(v_buf[s][4]) < PageSize

(* A read of the cache always returns a prefix of the tokens fed so far,   *)
(* each lane only ever grows, and a new token is fed only when all lanes   *)
(* hold the whole context.                                                 *)
Context == INSTANCE KVContext WITH
             Lane <- Lanes, context <- input_ids,
             seen <- [c \in Lanes |-> read_base_concat(c)]

ImplementsContext == Context!Spec
=============================================================================
