----------------------------- MODULE LlamaWrapper -----------------------------
(***************************************************************************)
(* CAREKVLlamaAttention.forward (llama_patch.py) in every layer of a       *)
(* patched model, between the HuggingFace generation loop, which decides   *)
(* how many tokens a call carries, and the paged cache, which is seen here *)
(* as one token log per layer.                                             *)
(*                                                                         *)
(* The layers share the dictionary of caches; each keeps its own           *)
(* prefilled flags.  One action is one layer's forward.                    *)
(***************************************************************************)
EXTENDS Naturals, Sequences

CONSTANTS
  NumLayers,
  DeviceOf,      \* [layer -> device]: where device_map puts a layer
  NoDevice,      \* the device of a cache that does not exist
  Token,
  Uses,          \* the uses of the model that occur: batch size, use_cache,
                 \* whether past_key_value.update succeeds
  WithoutReset,  \* TRUE: the caller relies on full_prefill where it works
  MinPrompt, MaxPrompt, MaxContext   \* bounds: tokens of a prompt, in all

Layers == 0 .. NumLayers - 1
SeqIds == 0 .. 1

ASSUME WrapperAssumption ==
  /\ NumLayers \in Nat \ {0} /\ {MinPrompt, MaxPrompt, MaxContext} \subseteq Nat \ {0}
  /\ Uses \subseteq {1, 2} \X BOOLEAN \X BOOLEAN
  /\ WithoutReset \in BOOLEAN
  /\ \A l \in Layers : DeviceOf[l] # NoDevice

VARIABLES
  caches,     \* _caches, shared: per sequence the device and each layer's tokens
  prefilled,  \* _prefilled of each layer, per sequence
  hf_len,     \* past_key_value.get_seq_length(layer)
  gen,        \* the generation: its batch size, options and token sequences
  call,       \* the forward pass: next layer, tokens per row
  attended    \* the tokens each layer's attention ran over in this pass

vars == <<caches, prefilled, hf_len, gen, call, attended>>

NoCache     == [device |-> NoDevice, kv |-> [l \in Layers |-> <<>>]]
NewCacheOn(d) == [device |-> d, kv |-> [l \in Layers |-> <<>>]]
Rows        == 0 .. gen.batch - 1

NothingAttended == [l \in Layers |-> [b \in SeqIds |-> <<>>]]
NoGeneration == [batch |-> 0, use_cache |-> FALSE, synced |-> FALSE,
                 ids |-> [b \in SeqIds |-> <<>>]]
Idle == [phase |-> "idle", layer |-> 0, T |-> 0]

Init == /\ caches = [b \in SeqIds |-> NoCache]
        /\ prefilled = [l \in Layers |-> [b \in SeqIds |-> FALSE]]
        /\ hf_len = [l \in Layers |-> 0]
        /\ gen = NoGeneration
        /\ call = Idle
        /\ attended = NothingAttended

-------------------------------------------------------------------------------
(* The caller *)

(* The generation is over, its DynamicCache is gone, and the caller calls  *)
(* reset_all_caches: every layer clears the shared caches and its flags.   *)
ResetAll == /\ call.phase # "pass"
            /\ caches' = [b \in SeqIds |-> NoCache]
            /\ prefilled' = [l \in Layers |-> [b \in SeqIds |-> FALSE]]
            /\ hf_len' = [l \in Layers |-> 0]
            /\ gen' = NoGeneration
            /\ call' = Idle
            /\ attended' = NothingAttended

(* generate() begins: a prompt for each row of the batch, an empty         *)
(* DynamicCache.  An earlier generation may have ended in an exception.    *)
(* The caller must reset first, unless a single sequence of several tokens *)
(* makes forward do it.                                                    *)
NewGeneration ==
  /\ call.phase # "pass"
  /\ \E use \in Uses, n \in MinPrompt .. MaxPrompt :
       /\ gen.batch = 0 \/ (WithoutReset /\ use[1] = 1 /\ n > 1)
       /\ \E ids \in [0 .. use[1] - 1 -> [1 .. n -> Token]] :
            gen' = [batch |-> use[1], use_cache |-> use[2], synced |-> use[3],
                    ids |-> [b \in SeqIds |-> IF b < use[1] THEN ids[b] ELSE <<>>]]
       /\ call' = [phase |-> "pass", layer |-> 0, T |-> n]
  /\ hf_len' = [l \in Layers |-> 0]
  /\ attended' = NothingAttended
  /\ UNCHANGED <<caches, prefilled>>

(* The generation loop feeds the next token: only the tokens the           *)
(* DynamicCache does not have when use_cache is set, all of them otherwise.*)
NextToken ==
  /\ call.phase = "idle" /\ gen.batch > 0 /\ Len(gen.ids[0]) < MaxContext
  /\ \E toks \in [Rows -> Token] :
       gen' = [gen EXCEPT !.ids =
                 [b \in SeqIds |-> IF b < gen.batch THEN Append(@[b], toks[b]) ELSE <<>>]]
  /\ call' = [phase |-> "pass", layer |-> 0,
              T |-> IF gen.use_cache THEN Len(gen'.ids[0]) - hf_len[0]
                                     ELSE Len(gen'.ids[0])]
  /\ attended' = NothingAttended
  /\ UNCHANGED <<caches, prefilled, hf_len>>

-------------------------------------------------------------------------------
(* forward *)

(* The tokens of row b this call carries. *)
Chunk(b) == SubSeq(gen.ids[b], Len(gen.ids[b]) - call.T + 1, Len(gen.ids[b]))

(* Mutant: a call with several tokens is not taken for a new prefill when  *)
(* the layer has been prefilled before.                                    *)
full_prefill_once(l) == ~ prefilled[l][0]

full_prefill(l) ==
  call.T > 1 \/ (gen.use_cache /\ hf_len[l] = 0 /\ ~ prefilled[l][0])

(* Mutant: every layer drops the shared caches, not only the first. *)
ResetCaches_every(l) ==
  [b \in SeqIds |-> IF b \in Rows /\ full_prefill(l) THEN NoCache ELSE caches[b]]

(* A single sequence starts over on a full prefill: the first layer drops  *)
(* the shared cache, every layer its own flag.  A batch does neither.      *)
ResetCaches(l) ==
  IF gen.batch = 1 /\ full_prefill(l) /\ l = 0
  THEN [caches EXCEPT ![0] = NoCache] ELSE caches

ResetFlags(l) ==
  IF gen.batch = 1 /\ full_prefill(l)
  THEN [prefilled[l] EXCEPT ![0] = FALSE] ELSE prefilled[l]

(* _get_or_create_cache: a cache on another device counts as none. *)
Creates(l, b) == ResetCaches(l)[b].device # DeviceOf[l]

CacheFor(l, b) == IF Creates(l, b) THEN NewCacheOn(DeviceOf[l]) ELSE ResetCaches(l)[b]

FlagFor(l, b) == IF Creates(l, b) THEN FALSE ELSE ResetFlags(l)[b]

(* prefill for several tokens or the first ones, else decode_step. *)
Prefills(l, b) == call.T > 1 \/ ~ FlagFor(l, b)

(* The cache of row b after its first n tokens of the call are stored. *)
Stored(l, b, n) ==
  [CacheFor(l, b) EXCEPT !.kv[l] = @ \o SubSeq(Chunk(b), 1, n)]

(* A prefill attends over the tokens of the call, a decode step over what  *)
(* the layer's part of the cache holds.                                    *)
AttendedBy(l, b) == IF Prefills(l, b) THEN Chunk(b) ELSE Stored(l, b, call.T).kv[l]

(* Mutant: the dummy update always advances by one token. *)
HfLength_by_one(l) == IF gen.use_cache /\ gen.synced THEN hf_len[l] + 1 ELSE hf_len[l]

(* The dummy past_key_value.update; its exceptions are swallowed. *)
HfLength(l) == IF gen.use_cache /\ gen.synced THEN hf_len[l] + call.T ELSE hf_len[l]

LayerForward ==
  LET l == call.layer IN
  /\ call.phase = "pass"
  /\ caches' = [b \in SeqIds |-> IF b \in Rows THEN Stored(l, b, call.T)
                                 ELSE ResetCaches(l)[b]]
  /\ prefilled' = [prefilled EXCEPT ![l] =
                     [b \in SeqIds |-> IF b \in Rows THEN TRUE ELSE ResetFlags(l)[b]]]
  /\ attended' = [attended EXCEPT ![l] =
                    [b \in SeqIds |-> IF b \in Rows THEN AttendedBy(l, b) ELSE <<>>]]
  /\ hf_len' = [hf_len EXCEPT ![l] = HfLength(l)]
  /\ call' = IF l = NumLayers - 1 THEN Idle
             ELSE [call EXCEPT !.layer = @ + 1]
  /\ UNCHANGED gen

(* prefill or decode_step raises in row b (a full cache, a full arena):    *)
(* earlier rows are done, row b has stored n tokens, later rows nothing.   *)
(* The flag of row b is set before prefill is called.                      *)
LayerRaises ==
  LET l == call.layer IN
  /\ call.phase = "pass"
  /\ \E r \in Rows, n \in 0 .. call.T :
       /\ caches' = [b \in SeqIds |-> IF b \in Rows /\ b < r THEN Stored(l, b, call.T)
                                      ELSE IF b = r THEN Stored(l, b, n)
                                      ELSE ResetCaches(l)[b]]
       /\ prefilled' = [prefilled EXCEPT ![l] =
                          [b \in SeqIds |-> IF b \in Rows /\ b <= r THEN TRUE
                                            ELSE ResetFlags(l)[b]]]
  /\ call' = [Idle EXCEPT !.phase = "failed"]
  /\ UNCHANGED <<hf_len, gen, attended>>

Next == ResetAll \/ NewGeneration \/ NextToken \/ LayerForward \/ LayerRaises

Spec == Init /\ [][Next]_vars

-------------------------------------------------------------------------------
(* Properties *)

(* The layers of the current pass that have run. *)
DoneLayers == IF call.phase = "pass" THEN 0 .. call.layer - 1
              ELSE IF call.phase = "idle" /\ gen.batch > 0 THEN Layers
              ELSE {}

(* Every layer's attention runs over exactly the tokens of its sequence,   *)
(* whatever earlier generations, also aborted ones, left in the caches.    *)
AttendsContext ==
  \A l \in DoneLayers : \A b \in Rows : attended[l][b] = gen.ids[b]

(* When a layer has run, its part of the shared cache holds the sequence:  *)
(* no page of an earlier prefill is left and none has been lost.           *)
CacheHoldsContext ==
  \A l \in DoneLayers : \A b \in Rows : caches[b].kv[l] = gen.ids[b]

(* The length HuggingFace derives from its dummy cache is the number of    *)
(* tokens CARE-KV holds, in every layer, so the next call carries exactly  *)
(* the token the cache does not have.                                      *)
HfLengthInStep ==
  gen.use_cache /\ gen.synced =>
    \A l \in DoneLayers : \A b \in Rows : hf_len[l] = Len(caches[b].kv[l])

(* In a pass no layer takes away what another layer has stored in it: the  *)
(* shared cache is replaced by the first layer or not at all.              *)
LaterLayersKeepCaches ==
  [][call.phase = "pass" /\ call.layer > 0 =>
       \A b \in SeqIds : \A l \in 0 .. call.layer - 1 : caches'[b].kv[l] = caches[b].kv[l]]_vars

(* What a row of the batch promises to the transformer: its layers take in *)
(* its sequence in order and without holes, or all start over with it.     *)
(* While a call carries the whole sequence, the layers it has not reached  *)
(* count as empty: what an earlier generation left in them is not read.    *)
CarriesAll == call.phase = "pass" /\ call.T = Len(gen.ids[0])

Seen(b) == [l \in Layers |->
              IF b \notin Rows \/ (CarriesAll /\ l >= call.layer) THEN <<>>
              ELSE caches[b].kv[l]]

Context(b) == INSTANCE KVContext WITH
  Lane <- Layers, context <- gen.ids[b], seen <- Seen(b)

ImplementsContext ==
  /\ \A b \in SeqIds : Context(b)!Init
  /\ [][\A b \in SeqIds : [Context(b)!Next]_(Context(b)!vars)]_vars
=============================================================================
