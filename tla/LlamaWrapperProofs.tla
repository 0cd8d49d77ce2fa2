-------------------------- MODULE LlamaWrapperProofs --------------------------
(***************************************************************************)
(* Theorems about LlamaWrapper: for every number of layers, every prompt   *)
(* and every sequence of generations, aborted passes and resets, each      *)
(* layer attends over and holds exactly the tokens of its sequence.  Two   *)
(* things they need of the use of the model are hypotheses: all layers are *)
(* on one device, and a batch is decoded with a cache.                     *)
(***************************************************************************)
EXTENDS LlamaWrapper, SequenceTheorems, TLAPS

OneDeviceMap  == \A k, l \in Layers : DeviceOf[k] = DeviceOf[l]
BatchesCached == \A use \in Uses : use[1] = 2 => use[2] /\ use[3]

-------------------------------------------------------------------------------
(* The inductive invariant *)

Devices == {DeviceOf[l] : l \in Layers} \cup {NoDevice}
Logs    == [Layers -> Seq(Token)]
Caches  == [device : Devices, kv : Logs]

CachesType == caches \in [SeqIds -> Caches]
FlagsType  == prefilled \in [Layers -> [SeqIds -> BOOLEAN]]
HfType     == hf_len \in [Layers -> Nat]
GenType    == gen \in [batch : 0 .. 2, use_cache : BOOLEAN, synced : BOOLEAN,
                       ids : [SeqIds -> Seq(Token)]]
CallType   == call \in [phase : {"idle", "pass", "failed"}, layer : Layers, T : Nat]
AttendType == attended \in [Layers -> [SeqIds -> Seq(Token)]]

TypeInv == CachesType /\ FlagsType /\ HfType /\ GenType /\ CallType /\ AttendType

(* The rows of a generation have tokens, all equally many. *)
GenInv ==
  /\ gen.batch > 0 => \A b \in Rows : Len(gen.ids[b]) = Len(gen.ids[0])
  /\ gen.batch > 0 => Len(gen.ids[0]) > 0
  /\ gen.batch = 2 => gen.use_cache /\ gen.synced

(* Without a generation nothing is cached and no call is under way. *)
BlankInv ==
  gen.batch = 0 => /\ call.phase = "idle"
                   /\ \A b \in SeqIds : caches[b] = NoCache

Cached == gen.use_cache /\ gen.synced

(* What a layer that has run leaves for the next call. *)
LayerDone(l) ==
  /\ \A b \in Rows : /\ caches[b].device = DeviceOf[l]
                     /\ caches[b].kv[l] = gen.ids[b]
                     /\ prefilled[l][b]
                     /\ attended[l][b] = gen.ids[b]
  /\ hf_len[l] = IF Cached THEN Len(gen.ids[0]) ELSE 0

DoneInv == \A l \in DoneLayers : LayerDone(l)

Ahead == {l \in Layers : l >= call.layer}

(* A call that carries the whole sequence: the first layer starts over or   *)
(* finds no cache, and leaves an empty part to every layer after it.        *)
FreshPass ==
  /\ call.T = Len(gen.ids[0])
  /\ \A l \in Ahead : hf_len[l] = 0
  /\ call.layer = 0 /\ ~ (gen.batch = 1 /\ call.T > 1) =>
       \A b \in Rows : caches[b] = NoCache
  /\ call.layer > 0 => \A l \in Ahead, b \in Rows :
                         caches[b].device = DeviceOf[l] /\ caches[b].kv[l] = <<>>

(* A call that carries the newest token: every layer ahead holds the rest.  *)
StepPass ==
  /\ Cached /\ call.T = 1 /\ Len(gen.ids[0]) > 1
  /\ \A l \in Ahead :
       /\ hf_len[l] = Len(gen.ids[0]) - 1
       /\ \A b \in Rows : /\ caches[b].device = DeviceOf[l]
                          /\ caches[b].kv[l] = SubSeq(gen.ids[b], 1, Len(gen.ids[b]) - 1)
                          /\ prefilled[l][b]

PassInv == call.phase = "pass" => gen.batch > 0 /\ (FreshPass \/ StepPass)

WrapperInv == TypeInv /\ GenInv /\ BlankInv /\ DoneInv /\ PassInv

-------------------------------------------------------------------------------
(* Facts about shapes *)

LEMMA LayerZero == 0 \in Layers /\ \A l \in Layers : l \in Nat /\ l < NumLayers
BY WrapperAssumption DEF Layers

LEMMA RowIds == ASSUME GenType PROVE Rows \subseteq SeqIds /\ Rows \subseteq Int
                                     /\ (gen.batch > 0 => 0 \in Rows)
BY DEF GenType, Rows, SeqIds

LEMMA NewCacheShape ==
  ASSUME NEW l \in Layers
  PROVE  NewCacheOn(DeviceOf[l]) \in Caches /\ NoCache \in Caches
<1>1. [k \in Layers |-> <<>>] \in Logs
  BY EmptySeq DEF Logs
<1> QED
  BY <1>1 DEF NewCacheOn, NoCache, Caches, Devices

(* What forward finds and what it leaves is well shaped. *)
LEMMA CacheForShape ==
  ASSUME TypeInv, NEW l \in Layers, NEW b \in SeqIds
  PROVE  /\ ResetCaches(l) \in [SeqIds -> Caches]
         /\ CacheFor(l, b) \in Caches
         /\ ResetFlags(l) \in [SeqIds -> BOOLEAN]
<1>1. ResetCaches(l) \in [SeqIds -> Caches]
  BY NewCacheShape DEF TypeInv, CachesType, ResetCaches
<1>2. CacheFor(l, b) \in Caches
  BY <1>1, NewCacheShape DEF CacheFor
<1>3. ResetFlags(l) \in [SeqIds -> BOOLEAN]
  BY DEF TypeInv, FlagsType, ResetFlags
<1> QED
  BY <1>1, <1>2, <1>3

(* The tokens of a call, when it carries no more than there are. *)
LEMMA ChunkShape ==
  ASSUME TypeInv, GenInv, NEW b \in Rows, gen.batch > 0, call.T <= Len(gen.ids[0])
  PROVE  /\ Chunk(b) \in Seq(Token)
         /\ Len(Chunk(b)) = call.T
         /\ SubSeq(Chunk(b), 1, call.T) = Chunk(b)
         /\ SubSeq(gen.ids[b], 1, Len(gen.ids[b]) - call.T) \o Chunk(b) = gen.ids[b]
<1> DEFINE s == gen.ids[b]
           n == Len(s)
           T == call.T
<1>1. b \in SeqIds
  BY RowIds DEF TypeInv
<1>2. s \in Seq(Token) /\ n \in Nat /\ T \in Nat /\ T <= n
  BY <1>1, LenProperties DEF TypeInv, GenType, CallType, GenInv
<1>3. Chunk(b) = SubSeq(s, n - T + 1, n)
  BY DEF Chunk
<1> HIDE DEF s, n, T
<1>4. \A i \in n - T + 1 .. n : s[i] \in Token
  BY <1>2, ElementOfSeq DEF n
<1>5. Chunk(b) \in Seq(Token) /\ Len(Chunk(b)) = T
  <2>1. /\ SubSeq(s, n - T + 1, n) \in Seq(Token)
        /\ Len(SubSeq(s, n - T + 1, n)) = IF n - T + 1 <= n THEN n - (n - T + 1) + 1 ELSE 0
    BY <1>2, <1>4, SubSeqProperties
  <2> QED
    BY <1>2, <1>3, <2>1
<1>6. SubSeq(Chunk(b), 1, T) = Chunk(b)
  BY <1>5, SubSeqFull
<1>7. SubSeq(s, 1, n - T) \o SubSeq(s, n - T + 1, n) = SubSeq(s, 1, n)
  <2>1. 1 \in 1 .. Len(s) + 1 /\ n - T \in 1 - 1 .. Len(s) /\ n \in n - T .. Len(s)
    BY <1>2 DEF n
  <2> QED
    BY <1>2, <2>1, ConcatAdjacentSubSeq
<1>8. SubSeq(s, 1, n) = s
  BY <1>2, SubSeqFull DEF n
<1> QED
  BY <1>3, <1>5, <1>6, <1>7, <1>8 DEF s, n, T

(* Part of a call may be stored when it raises. *)
LEMMA StoredShape ==
  ASSUME TypeInv, NEW l \in Layers, NEW b \in SeqIds, NEW n \in Nat, n <= call.T,
         Chunk(b) \in Seq(Token), Len(Chunk(b)) = call.T
  PROVE  Stored(l, b, n) \in Caches
<1>1. CacheFor(l, b) \in Caches
  BY CacheForShape
<1>2. \A i \in 1 .. n : Chunk(b)[i] \in Token
  BY ElementOfSeq DEF TypeInv, CallType
<1>3. SubSeq(Chunk(b), 1, n) \in Seq(Token)
  BY <1>2, SubSeqProperties
<1>4. CacheFor(l, b).kv[l] \in Seq(Token)
  BY <1>1 DEF Caches, Logs
<1>5. CacheFor(l, b).kv[l] \o SubSeq(Chunk(b), 1, n) \in Seq(Token)
  BY <1>3, <1>4, ConcatProperties
<1> QED
  BY <1>1, <1>5 DEF Stored, Caches, Logs

-------------------------------------------------------------------------------
(* What a layer's forward finds and leaves *)

(* The two kinds of pass exclude each other. *)
LEMMA PassKinds ==
  ASSUME call.T \in Nat
  PROVE  /\ FreshPass => call.T = Len(gen.ids[0])
         /\ StepPass => call.T = 1 /\ Len(gen.ids[0]) > 1
         /\ ~ (FreshPass /\ StepPass)
<1>1. FreshPass => call.T = Len(gen.ids[0])
  BY DEF FreshPass
<1>2. StepPass => call.T = 1 /\ Len(gen.ids[0]) > 1
  BY DEF StepPass
<1>3. ~ (call.T = Len(gen.ids[0]) /\ call.T = 1 /\ Len(gen.ids[0]) > 1)
  OBVIOUS
<1> QED
  BY <1>1, <1>2, <1>3

(* The cache a layer works on holds the tokens before the call in its part; *)
(* the other parts are empty in a fresh pass of the first layer and as they *)
(* were otherwise.                                                          *)
LEMMA CacheFound ==
  ASSUME WrapperInv, OneDeviceMap, call.phase = "pass", NEW b \in Rows
  PROVE  LET l == call.layer IN
         /\ CacheFor(l, b).device = DeviceOf[l]
         /\ CacheFor(l, b).kv[l] = SubSeq(gen.ids[b], 1, Len(gen.ids[b]) - call.T)
         /\ l > 0 => CacheFor(l, b) = caches[b]
         /\ FreshPass /\ l = 0 => CacheFor(l, b) = NewCacheOn(DeviceOf[l])
         /\ StepPass => CacheFor(l, b) = caches[b]
         /\ StepPass => ~ Prefills(l, b)
<1> DEFINE l == call.layer
<1>1. /\ l \in Layers /\ l \in Nat /\ l \in Ahead /\ b \in SeqIds /\ gen.batch > 0
      /\ FreshPass \/ StepPass
  BY RowIds, LayerZero DEF WrapperInv, TypeInv, CallType, PassInv, Ahead
<1>2. DeviceOf[l] # NoDevice
  BY <1>1, WrapperAssumption
<1>3. gen.batch \in 0 .. 2 /\ call.T \in Nat /\ Len(gen.ids[0]) \in Nat
      /\ Len(gen.ids[b]) = Len(gen.ids[0])
  <2>1. gen.ids[0] \in Seq(Token)
    BY DEF WrapperInv, TypeInv, GenType, SeqIds
  <2> QED
    BY <1>1, <2>1, LenProperties DEF WrapperInv, TypeInv, GenType, CallType, GenInv
<1>4. CASE StepPass
  <2>1. ~ full_prefill(l)
    BY <1>1, <1>3, <1>4 DEF StepPass, full_prefill
  <2>2. ResetCaches(l) = caches /\ ResetFlags(l) = prefilled[l]
    BY <2>1 DEF ResetCaches, ResetFlags
  <2>3. CacheFor(l, b) = caches[b] /\ FlagFor(l, b)
    BY <1>1, <1>4, <2>2 DEF StepPass, CacheFor, FlagFor, Creates
  <2>4. ~ FreshPass
    BY <1>3, <1>4, PassKinds
  <2>5. ~ Prefills(l, b)
    BY <1>4, <2>3 DEF StepPass, Prefills
  <2>6. /\ caches[b].device = DeviceOf[l]
        /\ caches[b].kv[l] = SubSeq(gen.ids[b], 1, Len(gen.ids[b]) - call.T)
    BY <1>1, <1>4 DEF StepPass
  <2> QED
    BY <1>4, <2>3, <2>4, <2>5, <2>6
<1>5. CASE FreshPass /\ l > 0
  <2>1. ResetCaches(l) = caches
    BY <1>5 DEF ResetCaches
  <2>2. CacheFor(l, b) = caches[b] /\ caches[b].device = DeviceOf[l] /\ caches[b].kv[l] = <<>>
    BY <1>1, <1>5, <2>1 DEF FreshPass, CacheFor, Creates
  <2>3. SubSeq(gen.ids[b], 1, Len(gen.ids[b]) - call.T) = <<>>
    BY <1>3, <1>5, SubSeqEmpty DEF FreshPass
  <2>4. ~ StepPass
    BY <1>3, <1>5, PassKinds
  <2>5. ~ (l = 0)
    BY <1>5
  <2> QED
    BY <1>5, <2>2, <2>3, <2>4, <2>5
<1>6. CASE FreshPass /\ l = 0
  <2>1. ResetCaches(l)[b] = NoCache
    <3>1. CASE gen.batch = 1 /\ call.T > 1
      <4>1. b = 0
        BY <1>1, <3>1 DEF Rows
      <4>2. ResetCaches(l) = [caches EXCEPT ![0] = NoCache]
        BY <1>6, <3>1 DEF ResetCaches, full_prefill
      <4> QED
        BY <1>1, <4>1, <4>2 DEF WrapperInv, TypeInv, CachesType
    <3>2. CASE ~ (gen.batch = 1 /\ call.T > 1)
      <4>1. caches[b] = NoCache
        BY <1>6, <3>2 DEF FreshPass
      <4> QED
        BY <1>1, <4>1 DEF ResetCaches, WrapperInv, TypeInv, CachesType
    <3> QED
      BY <3>1, <3>2
  <2>2. CacheFor(l, b) = NewCacheOn(DeviceOf[l])
    BY <1>2, <2>1 DEF CacheFor, Creates, NoCache
  <2>3. SubSeq(gen.ids[b], 1, Len(gen.ids[b]) - call.T) = <<>>
    BY <1>3, <1>6, SubSeqEmpty DEF FreshPass
  <2>4. ~ StepPass
    BY <1>3, <1>6, PassKinds
  <2>5. ~ (l > 0)
    BY <1>6
  <2>6. CacheFor(l, b).device = DeviceOf[l] /\ CacheFor(l, b).kv[l] = <<>>
    BY <1>1, <2>2 DEF NewCacheOn
  <2> QED
    BY <2>2, <2>3, <2>4, <2>5, <2>6
<1> QED
  BY <1>1, <1>4, <1>5, <1>6

(* After its forward a layer holds and has attended over all tokens.  *)
LEMMA LayerHolds ==
  ASSUME WrapperInv, OneDeviceMap, call.phase = "pass", NEW b \in Rows
  PROVE  LET l == call.layer IN
         /\ Stored(l, b, call.T).device = DeviceOf[l]
         /\ Stored(l, b, call.T).kv[l] = gen.ids[b]
         /\ \A k \in Layers \ {l} : Stored(l, b, call.T).kv[k] = CacheFor(l, b).kv[k]
         /\ AttendedBy(l, b) = gen.ids[b]
         /\ Chunk(b) \in Seq(Token) /\ Len(Chunk(b)) = call.T
<1> DEFINE l == call.layer
<1>1. /\ l \in Layers /\ b \in SeqIds /\ gen.batch > 0 /\ (FreshPass \/ StepPass)
      /\ TypeInv /\ GenInv
  BY RowIds DEF WrapperInv, TypeInv, CallType, PassInv
<1>2. call.T \in Nat /\ Len(gen.ids[0]) \in Nat /\ Len(gen.ids[b]) = Len(gen.ids[0])
      /\ call.T <= Len(gen.ids[0])
  <2>1. gen.ids[0] \in Seq(Token)
    BY <1>1 DEF TypeInv, GenType, SeqIds
  <2>2. call.T \in Nat /\ Len(gen.ids[0]) \in Nat /\ Len(gen.ids[b]) = Len(gen.ids[0])
    BY <1>1, <2>1, LenProperties DEF TypeInv, CallType, GenInv
  <2> QED
    BY <1>1, <2>2 DEF FreshPass, StepPass
<1>3. /\ Chunk(b) \in Seq(Token) /\ Len(Chunk(b)) = call.T
      /\ SubSeq(Chunk(b), 1, call.T) = Chunk(b)
      /\ SubSeq(gen.ids[b], 1, Len(gen.ids[b]) - call.T) \o Chunk(b) = gen.ids[b]
  BY <1>1, <1>2, ChunkShape
<1>4. CacheFor(l, b) \in Caches
  BY <1>1, CacheForShape
<1>5. /\ CacheFor(l, b).device = DeviceOf[l]
      /\ CacheFor(l, b).kv[l] = SubSeq(gen.ids[b], 1, Len(gen.ids[b]) - call.T)
      /\ StepPass => ~ Prefills(l, b)
  BY CacheFound
<1>6. /\ Stored(l, b, call.T).device = DeviceOf[l]
      /\ Stored(l, b, call.T).kv[l] = gen.ids[b]
      /\ \A k \in Layers \ {l} : Stored(l, b, call.T).kv[k] = CacheFor(l, b).kv[k]
  BY <1>1, <1>3, <1>4, <1>5 DEF Stored, Caches, Logs
<1>7. AttendedBy(l, b) = gen.ids[b]
  <2>1. CASE StepPass
    BY <1>5, <1>6, <2>1 DEF AttendedBy
  <2>2. CASE FreshPass
    <3>1. SubSeq(gen.ids[b], 1, Len(gen.ids[b]) - call.T) = <<>>
      BY <1>2, <2>2, SubSeqEmpty DEF FreshPass
    <3>2. Chunk(b) = gen.ids[b]
      BY <1>3, <3>1, ConcatEmptySeq
    <3> QED
      BY <1>6, <3>2 DEF AttendedBy
  <2> QED
    BY <1>1, <2>1, <2>2
<1> QED
  BY <1>3, <1>6, <1>7

-------------------------------------------------------------------------------
(* Each action keeps the invariant *)

LEMMA ForwardStep ==
  ASSUME WrapperInv, OneDeviceMap, LayerForward
  PROVE  WrapperInv'
<1>1. PICK l, T : l = call.layer /\ T = call.T
  OBVIOUS
<1>2. /\ l \in Layers /\ l \in Nat /\ l < NumLayers /\ T \in Nat /\ call.phase = "pass"
      /\ gen.batch > 0 /\ gen' = gen /\ Rows' = Rows /\ Rows \subseteq SeqIds /\ 0 \in Rows
      /\ TypeInv /\ GenInv /\ (FreshPass \/ StepPass)
  BY <1>1, RowIds, LayerZero DEF WrapperInv, TypeInv, CallType, PassInv, LayerForward, Rows
<1>3. /\ caches' = [b \in SeqIds |-> IF b \in Rows THEN Stored(l, b, T) ELSE ResetCaches(l)[b]]
      /\ prefilled' = [prefilled EXCEPT ![l] =
                         [b \in SeqIds |-> IF b \in Rows THEN TRUE ELSE ResetFlags(l)[b]]]
      /\ attended' = [attended EXCEPT ![l] =
                        [b \in SeqIds |-> IF b \in Rows THEN AttendedBy(l, b) ELSE <<>>]]
      /\ hf_len' = [hf_len EXCEPT ![l] = HfLength(l)]
      /\ call' = IF l = NumLayers - 1 THEN Idle ELSE [call EXCEPT !.layer = @ + 1]
  BY <1>1 DEF LayerForward
<1>4. \A b \in Rows :
        /\ Stored(l, b, T).device = DeviceOf[l]
        /\ Stored(l, b, T).kv[l] = gen.ids[b]
        /\ \A k \in Layers \ {l} : Stored(l, b, T).kv[k] = CacheFor(l, b).kv[k]
        /\ AttendedBy(l, b) = gen.ids[b]
        /\ Chunk(b) \in Seq(Token) /\ Len(Chunk(b)) = T
  BY <1>1, <1>2, LayerHolds
<1>5. \A b \in Rows : /\ l > 0 => CacheFor(l, b) = caches[b]
                      /\ FreshPass /\ l = 0 => CacheFor(l, b) = NewCacheOn(DeviceOf[l])
                      /\ StepPass => CacheFor(l, b) = caches[b]
  BY <1>1, <1>2, CacheFound
<1>6. /\ Len(gen.ids[0]) \in Nat /\ Len(gen.ids[0]) > 0
      /\ HfLength(l) \in Nat
      /\ HfLength(l) = IF Cached THEN Len(gen.ids[0]) ELSE 0
  <2>1. gen.ids[0] \in Seq(Token)
    BY <1>2 DEF TypeInv, GenType, SeqIds
  <2>2. Len(gen.ids[0]) \in Nat /\ Len(gen.ids[0]) > 0 /\ hf_len[l] \in Nat
    BY <1>2, <2>1, LenProperties DEF TypeInv, GenInv, HfType
  <2>3. l \in Ahead
    BY <1>1, <1>2 DEF Ahead
  <2>4. CASE FreshPass
    BY <1>1, <2>2, <2>3, <2>4 DEF FreshPass, HfLength, Cached
  <2>5. CASE StepPass
    BY <1>1, <2>2, <2>3, <2>5 DEF StepPass, HfLength, Cached
  <2> QED
    BY <1>2, <2>2, <2>4, <2>5
<1>7. TypeInv'
  <2>1. CachesType'
    <3>1. \A b \in Rows : Stored(l, b, T) \in Caches
      BY <1>1, <1>2, <1>4, StoredShape
    <3>2. ResetCaches(l) \in [SeqIds -> Caches]
      BY <1>2, CacheForShape
    <3> QED
      BY <1>3, <3>1, <3>2 DEF CachesType
  <2>2. FlagsType'
    <3>1. ResetFlags(l) \in [SeqIds -> BOOLEAN]
      BY <1>2, CacheForShape
    <3>2. [b \in SeqIds |-> IF b \in Rows THEN TRUE ELSE ResetFlags(l)[b]] \in [SeqIds -> BOOLEAN]
      BY <3>1
    <3> QED
      BY <1>2, <1>3, <3>2 DEF TypeInv, FlagsType
  <2>3. HfType'
    BY <1>2, <1>3, <1>6 DEF TypeInv, HfType
  <2>4. GenType'
    BY <1>2 DEF TypeInv, GenType
  <2>5. CallType'
    <3>1. Idle \in [phase : {"idle", "pass", "failed"}, layer : Layers, T : Nat]
      BY LayerZero DEF Idle
    <3>2. l # NumLayers - 1 => l + 1 \in Layers
      BY <1>2, WrapperAssumption DEF Layers
    <3> QED
      BY <1>1, <1>2, <1>3, <3>1, <3>2 DEF TypeInv, CallType
  <2>6. AttendType'
    <3>1. \A b \in SeqIds : gen.ids[b] \in Seq(Token)
      BY <1>2 DEF TypeInv, GenType
    <3>2. [b \in SeqIds |-> IF b \in Rows THEN AttendedBy(l, b) ELSE <<>>] \in [SeqIds -> Seq(Token)]
      BY <1>4, <3>1, EmptySeq
    <3> QED
      BY <1>2, <1>3, <3>2 DEF TypeInv, AttendType
  <2> QED
    BY <2>1, <2>2, <2>3, <2>4, <2>5, <2>6 DEF TypeInv
<1>8. GenInv' /\ BlankInv'
  BY <1>2 DEF GenInv, BlankInv
<1>9. LayerDone(l)'
  <2>1. \A b \in Rows : /\ caches'[b].device = DeviceOf[l]
                        /\ caches'[b].kv[l] = gen.ids[b]
                        /\ prefilled'[l][b]
                        /\ attended'[l][b] = gen.ids[b]
    BY <1>2, <1>3, <1>4 DEF TypeInv, FlagsType, AttendType
  <2>2. hf_len'[l] = IF Cached THEN Len(gen.ids[0]) ELSE 0
    BY <1>2, <1>3, <1>6 DEF TypeInv, HfType
  <2> QED
    BY <1>2, <2>1, <2>2 DEF LayerDone, Cached
<1>10. \A k \in Layers : k < l => LayerDone(k)'
  <2> SUFFICES ASSUME NEW k \in Layers, k < l PROVE LayerDone(k)'
    OBVIOUS
  <2>1. LayerDone(k) /\ k \in Nat /\ l > 0
    <3>1. k \in Nat /\ l > 0 /\ k \in 0 .. l - 1
      BY <1>2, LayerZero
    <3> QED
      BY <1>1, <1>2, <3>1 DEF WrapperInv, DoneInv, DoneLayers
  <2>2. \A b \in Rows : /\ caches'[b].device = DeviceOf[k]
                        /\ caches'[b].kv[k] = gen.ids[b]
    <3> SUFFICES ASSUME NEW b \in Rows
                 PROVE  caches'[b].device = DeviceOf[k] /\ caches'[b].kv[k] = gen.ids[b]
      OBVIOUS
    <3>1. b \in SeqIds /\ k # l
      BY <1>2, <2>1
    <3>2. caches'[b] = Stored(l, b, T) /\ CacheFor(l, b) = caches[b]
      BY <1>3, <1>5, <2>1, <3>1
    <3>3. caches[b].device = DeviceOf[k] /\ caches[b].kv[k] = gen.ids[b]
      BY <2>1 DEF LayerDone
    <3>4. DeviceOf[k] = DeviceOf[l]
      BY <1>2 DEF OneDeviceMap
    <3> QED
      BY <1>4, <3>1, <3>2, <3>3, <3>4
  <2>3. /\ prefilled'[k] = prefilled[k] /\ attended'[k] = attended[k]
        /\ hf_len'[k] = hf_len[k]
    <3>1. k # l
      BY <1>2, <2>1
    <3> QED
      BY <1>2, <1>3, <3>1 DEF TypeInv, FlagsType, AttendType, HfType
  <2> QED
    BY <1>2, <2>1, <2>2, <2>3 DEF LayerDone, Cached
<1>11. DoneInv'
  <2>1. DoneLayers' \subseteq {k \in Layers : k <= l}
    <3>1. CASE l = NumLayers - 1
      BY <1>2, <1>3, <3>1, LayerZero DEF DoneLayers, Idle, Layers
    <3>2. CASE l # NumLayers - 1
      <4>1. call'.phase = "pass" /\ call'.layer = l + 1
        BY <1>1, <1>2, <1>3, <3>2 DEF TypeInv, CallType
      <4>2. DoneLayers' = 0 .. l
        BY <1>2, <4>1 DEF DoneLayers
      <4>3. 0 .. l \subseteq 0 .. NumLayers - 1 /\ \A k \in 0 .. l : k <= l
        BY <1>2, WrapperAssumption
      <4> QED
        BY <4>2, <4>3 DEF Layers
    <3> QED
      BY <3>1, <3>2
  <2> QED
    BY <1>2, <1>9, <1>10, <2>1, LayerZero DEF DoneInv
<1>12. PassInv'
  <2>1. CASE l = NumLayers - 1
    BY <1>3, <2>1 DEF PassInv, Idle
  <2>2. CASE l # NumLayers - 1
    <3>1. call'.phase = "pass" /\ call'.layer = l + 1 /\ call'.T = T
      BY <1>1, <1>2, <1>3, <2>2 DEF TypeInv, CallType
    <3>2. \A k \in Ahead' : k \in Layers /\ k \in Ahead /\ k # l
      BY <1>1, <1>2, <3>1, LayerZero DEF Ahead
    <3>3. \A k \in Ahead' : hf_len'[k] = hf_len[k] /\ prefilled'[k] = prefilled[k]
      BY <1>2, <1>3, <3>2 DEF TypeInv, HfType, FlagsType
    <3>4. \A k \in Ahead', b \in Rows : /\ caches'[b].device = DeviceOf[k]
                                        /\ caches'[b].kv[k] = CacheFor(l, b).kv[k]
      BY <1>2, <1>3, <1>4, <3>2 DEF OneDeviceMap
    <3>5. CASE FreshPass
      <4>1. \A k \in Ahead', b \in Rows : CacheFor(l, b).kv[k] = <<>>
        <5>1. CASE l = 0
          BY <1>5, <3>2, <3>5, <5>1 DEF NewCacheOn
        <5>2. CASE l > 0
          BY <1>1, <1>5, <3>2, <3>5, <5>2 DEF FreshPass
        <5> QED
          BY <1>2, <5>1, <5>2
      <4>2. ~ (l + 1 = 0) /\ T = Len(gen.ids[0]) /\ \A k \in Ahead : hf_len[k] = 0
        BY <1>1, <1>2, <3>5 DEF FreshPass
      <4>3. FreshPass'
        BY <1>2, <3>1, <3>2, <3>3, <3>4, <4>1, <4>2 DEF FreshPass
      <4> QED
        BY <1>2, <4>3 DEF PassInv
    <3>6. CASE StepPass
      <4>1. \A k \in Ahead' :
              /\ hf_len'[k] = Len(gen.ids[0]) - 1
              /\ \A b \in Rows :
                   /\ caches'[b].device = DeviceOf[k]
                   /\ caches'[b].kv[k] = SubSeq(gen.ids[b], 1, Len(gen.ids[b]) - 1)
                   /\ prefilled'[k][b]
        BY <1>5, <3>2, <3>3, <3>4, <3>6 DEF StepPass
      <4>2. Cached /\ T = 1 /\ Len(gen.ids[0]) > 1
        BY <1>1, <3>6 DEF StepPass
      <4>3. StepPass'
        BY <1>2, <3>1, <4>1, <4>2 DEF StepPass, Cached
      <4> QED
        BY <1>2, <4>3 DEF PassInv
    <3> QED
      BY <1>2, <3>5, <3>6
  <2> QED
    BY <2>1, <2>2
<1> QED
  BY <1>7, <1>8, <1>11, <1>12 DEF WrapperInv

LEMMA RaiseStep ==
  ASSUME WrapperInv, OneDeviceMap, LayerRaises
  PROVE  WrapperInv'
<1> DEFINE l == call.layer
           T == call.T
<1>1. /\ l \in Layers /\ T \in Nat /\ call.phase = "pass"
      /\ gen.batch > 0 /\ gen' = gen /\ Rows \subseteq SeqIds /\ 0 \in Rows
      /\ TypeInv /\ GenInv
  BY RowIds DEF WrapperInv, TypeInv, CallType, PassInv, LayerRaises
<1>2. call' = [Idle EXCEPT !.phase = "failed"] /\ hf_len' = hf_len /\ attended' = attended
  BY DEF LayerRaises
<1>3. \A b \in Rows : Chunk(b) \in Seq(Token) /\ Len(Chunk(b)) = T
  BY <1>1, LayerHolds
<1>4. ResetCaches(l) \in [SeqIds -> Caches] /\ ResetFlags(l) \in [SeqIds -> BOOLEAN]
  BY <1>1, CacheForShape
<1>5. CachesType' /\ FlagsType'
  <2>1. PICK r \in Rows, n \in 0 .. T :
          /\ caches' = [b \in SeqIds |-> IF b \in Rows /\ b < r THEN Stored(l, b, T)
                                         ELSE IF b = r THEN Stored(l, b, n)
                                         ELSE ResetCaches(l)[b]]
          /\ prefilled' = [prefilled EXCEPT ![l] =
                             [b \in SeqIds |-> IF b \in Rows /\ b <= r THEN TRUE
                                               ELSE ResetFlags(l)[b]]]
    BY DEF LayerRaises
  <2>2. \A b \in Rows : Stored(l, b, T) \in Caches /\ Stored(l, b, n) \in Caches
    BY <1>1, <1>3, StoredShape
  <2>3. CachesType'
    BY <1>4, <2>1, <2>2 DEF CachesType
  <2>4. [b \in SeqIds |-> IF b \in Rows /\ b <= r THEN TRUE ELSE ResetFlags(l)[b]]
          \in [SeqIds -> BOOLEAN]
    BY <1>4
  <2>5. FlagsType'
    BY <1>1, <2>1, <2>4 DEF TypeInv, FlagsType
  <2> QED
    BY <2>3, <2>5
<1>6. CallType' /\ call'.phase = "failed"
  BY <1>2, LayerZero DEF CallType, Idle
<1>7. TypeInv'
  BY <1>1, <1>2, <1>5, <1>6 DEF TypeInv, HfType, GenType, AttendType
<1>8. GenInv' /\ BlankInv' /\ DoneInv' /\ PassInv'
  BY <1>1, <1>6 DEF GenInv, BlankInv, DoneInv, DoneLayers, PassInv, Rows
<1> QED
  BY <1>7, <1>8 DEF WrapperInv

(* A state without anything, as at the start and after a reset. *)
LEMMA BlankState == Init => WrapperInv
<1> SUFFICES ASSUME Init PROVE WrapperInv
  OBVIOUS
<1>1. CachesType
  BY NewCacheShape, LayerZero DEF Init, CachesType
<1>2. GenType /\ AttendType
  BY EmptySeq DEF Init, GenType, NoGeneration, AttendType, NothingAttended
<1>3. FlagsType /\ HfType /\ CallType
  BY LayerZero DEF Init, FlagsType, HfType, CallType, Idle
<1>4. gen.batch = 0 /\ call.phase = "idle" /\ \A b \in SeqIds : caches[b] = NoCache
  BY DEF Init, NoGeneration, Idle
<1>5. GenInv /\ BlankInv /\ DoneInv /\ PassInv
  BY <1>4 DEF GenInv, BlankInv, DoneInv, DoneLayers, PassInv
<1> QED
  BY <1>1, <1>2, <1>3, <1>5 DEF WrapperInv, TypeInv

LEMMA ResetStep == ResetAll => WrapperInv'
<1>1. ResetAll => Init'
  BY DEF ResetAll, Init
<1> QED
  BY <1>1, BlankState, PTL

LEMMA NewGenerationStep ==
  ASSUME WrapperInv, BatchesCached, NewGeneration
  PROVE  WrapperInv'
<1>0. PICK use \in Uses, n \in MinPrompt .. MaxPrompt :
        /\ gen.batch = 0 \/ (WithoutReset /\ use[1] = 1 /\ n > 1)
        /\ \E ids \in [0 .. use[1] - 1 -> [1 .. n -> Token]] :
             gen' = [batch |-> use[1], use_cache |-> use[2], synced |-> use[3],
                     ids |-> [b \in SeqIds |-> IF b < use[1] THEN ids[b] ELSE <<>>]]
        /\ call' = [phase |-> "pass", layer |-> 0, T |-> n]
  BY DEF NewGeneration
<1>1. PICK ids \in [0 .. use[1] - 1 -> [1 .. n -> Token]] :
        /\ gen.batch = 0 \/ (use[1] = 1 /\ n > 1)
        /\ gen' = [batch |-> use[1], use_cache |-> use[2], synced |-> use[3],
                   ids |-> [b \in SeqIds |-> IF b < use[1] THEN ids[b] ELSE <<>>]]
        /\ call' = [phase |-> "pass", layer |-> 0, T |-> n]
  BY <1>0
<1>2. /\ hf_len' = [l \in Layers |-> 0] /\ attended' = NothingAttended
      /\ caches' = caches /\ prefilled' = prefilled
  BY DEF NewGeneration
<1>3. /\ use[1] \in {1, 2} /\ use[2] \in BOOLEAN /\ use[3] \in BOOLEAN
      /\ use[1] = 2 => use[2] /\ use[3]
      /\ n \in Nat \ {0}
  BY WrapperAssumption DEF BatchesCached
<1>4. /\ \A b \in SeqIds : gen'.ids[b] \in Seq(Token)
      /\ \A b \in Rows' : Len(gen'.ids[b]) = n
      /\ Rows' = 0 .. use[1] - 1 /\ 0 \in Rows'
  <2>1. Rows' = 0 .. use[1] - 1 /\ 0 \in Rows'
    BY <1>1, <1>3 DEF Rows
  <2>2. ASSUME NEW b \in SeqIds PROVE gen'.ids[b] \in Seq(Token) /\ (b \in Rows' => Len(gen'.ids[b]) = n)
    <3>1. CASE b < use[1]
      <4>1. b \in 0 .. use[1] - 1 /\ gen'.ids[b] = ids[b]
        BY <1>1, <1>3, <3>1 DEF SeqIds
      <4>2. ids[b] \in [1 .. n -> Token]
        BY <4>1
      <4> QED
        BY <1>3, <4>1, <4>2
    <3>2. CASE ~ (b < use[1])
      <4>1. gen'.ids[b] = <<>> /\ b \notin Rows'
        BY <1>1, <1>3, <2>1, <3>2 DEF SeqIds
      <4> QED
        BY <4>1, EmptySeq
    <3> QED
      BY <3>1, <3>2
  <2>3. Rows' \subseteq SeqIds
    BY <1>3, <2>1 DEF SeqIds
  <2> QED
    BY <2>1, <2>2, <2>3
<1>5. TypeInv'
  <2>1. GenType'
    BY <1>1, <1>3, <1>4 DEF GenType
  <2>2. HfType' /\ AttendType' /\ CallType'
    BY <1>1, <1>2, <1>3, LayerZero, EmptySeq
       DEF HfType, AttendType, CallType, NothingAttended
  <2> QED
    BY <1>2, <2>1, <2>2 DEF WrapperInv, TypeInv, CachesType, FlagsType
<1>6. GenInv' /\ BlankInv' /\ DoneInv'
  <2>1. gen'.batch = use[1] /\ gen'.use_cache = use[2] /\ gen'.synced = use[3]
        /\ call'.phase = "pass" /\ call'.layer = 0
    BY <1>1
  <2>2. DoneLayers' = {}
    BY <2>1 DEF DoneLayers
  <2>3. GenInv'
    BY <1>3, <1>4, <2>1 DEF GenInv
  <2> QED
    BY <1>3, <2>1, <2>2, <2>3 DEF BlankInv, DoneInv
<1>7. PassInv'
  <2>1. gen'.batch = use[1] /\ call'.T = n /\ call'.layer = 0
    BY <1>1
  <2>2. call'.T = Len(gen'.ids[0]) /\ \A l \in Layers : hf_len'[l] = 0
    BY <1>2, <1>4, <2>1
  <2>3. ~ (gen'.batch = 1 /\ call'.T > 1) => \A b \in Rows' : caches'[b] = NoCache
    <3>1. Rows' \subseteq SeqIds
      BY <1>3, <1>4 DEF SeqIds
    <3> QED
      BY <1>1, <1>2, <2>1, <3>1 DEF WrapperInv, BlankInv
  <2>4. FreshPass'
    BY <2>1, <2>2, <2>3 DEF FreshPass, Ahead
  <2> QED
    BY <1>3, <2>1, <2>4 DEF PassInv
<1> QED
  BY <1>5, <1>6, <1>7 DEF WrapperInv

LEMMA AppendPrefix ==
  ASSUME NEW s \in Seq(Token), NEW x \in Token
  PROVE  /\ Append(s, x) \in Seq(Token) /\ Len(Append(s, x)) = Len(s) + 1
         /\ SubSeq(Append(s, x), 1, Len(Append(s, x)) - 1) = s
<1>1. Append(s, x) \in Seq(Token) /\ Len(Append(s, x)) = Len(s) + 1 /\ Len(s) \in Nat
  BY LenProperties
<1>2. \A i \in 1 .. Len(s) : Append(s, x)[i] = s[i] /\ s[i] \in Token
  BY ElementOfSeq
<1>3. PICK t, n : t = Append(s, x) /\ n = Len(s)
  OBVIOUS
<1>4. /\ SubSeq(t, 1, n) \in Seq(Token)
      /\ Len(SubSeq(t, 1, n)) = IF 1 <= n THEN n - 1 + 1 ELSE 0
      /\ \A i \in 1 .. n - 1 + 1 : SubSeq(t, 1, n)[i] = t[1 + i - 1]
  <2>1. n \in Int /\ \A i \in 1 .. n : t[i] \in Token
    BY <1>1, <1>2, <1>3
  <2> QED
    BY <2>1, SubSeqProperties
<1>5. Len(SubSeq(t, 1, n)) = Len(s) /\ \A i \in 1 .. Len(s) : SubSeq(t, 1, n)[i] = s[i]
  BY <1>1, <1>2, <1>3, <1>4
<1>6. SubSeq(t, 1, n) = s
  BY <1>4, <1>5, SeqEqual
<1>7. Len(Append(s, x)) - 1 = n
  BY <1>1, <1>3
<1> QED
  BY <1>1, <1>3, <1>6, <1>7

LEMMA NextTokenStep ==
  ASSUME WrapperInv, NextToken
  PROVE  WrapperInv'
<1>1. PICK toks \in [Rows -> Token] :
        gen' = [gen EXCEPT !.ids =
                  [b \in SeqIds |-> IF b < gen.batch THEN Append(@[b], toks[b]) ELSE <<>>]]
  BY DEF NextToken
<1>2. /\ call.phase = "idle" /\ gen.batch \in 1 .. 2
      /\ hf_len' = hf_len /\ attended' = NothingAttended
      /\ caches' = caches /\ prefilled' = prefilled
      /\ TypeInv /\ GenInv
  BY DEF NextToken, WrapperInv, TypeInv, GenType
<1>3. /\ gen'.batch = gen.batch /\ Cached' = Cached /\ Rows' = Rows
      /\ Rows \subseteq SeqIds /\ 0 \in Rows /\ \A b \in Rows : b < gen.batch
      /\ \A b \in SeqIds : b < gen.batch => b \in Rows
  BY <1>1, <1>2, RowIds DEF TypeInv, GenType, Cached, Rows, SeqIds
<1>4. \A b \in Rows : gen.ids[b] \in Seq(Token) /\ toks[b] \in Token
                      /\ Len(gen.ids[b]) = Len(gen.ids[0])
  BY <1>2, <1>3 DEF TypeInv, GenType, GenInv
<1>5. \A b \in Rows :
        /\ gen'.ids[b] \in Seq(Token) /\ Len(gen'.ids[b]) = Len(gen.ids[b]) + 1
        /\ SubSeq(gen'.ids[b], 1, Len(gen'.ids[b]) - 1) = gen.ids[b]
  <2> SUFFICES ASSUME NEW b \in Rows
               PROVE  /\ gen'.ids[b] \in Seq(Token) /\ Len(gen'.ids[b]) = Len(gen.ids[b]) + 1
                      /\ SubSeq(gen'.ids[b], 1, Len(gen'.ids[b]) - 1) = gen.ids[b]
    OBVIOUS
  <2>1. gen'.ids[b] = Append(gen.ids[b], toks[b])
    BY <1>1, <1>2, <1>3 DEF TypeInv, GenType
  <2> QED
    BY <1>4, <2>1, AppendPrefix
<1>6. Len(gen.ids[0]) \in Nat /\ Len(gen.ids[0]) > 0 /\ Len(gen'.ids[0]) = Len(gen.ids[0]) + 1
  BY <1>2, <1>3, <1>4, <1>5, LenProperties DEF GenInv
<1>7. \A l \in Layers : LayerDone(l)
  <2>1. gen.batch > 0
    BY <1>2
  <2>2. DoneLayers = Layers
    BY <1>2, <2>1 DEF DoneLayers
  <2> QED
    BY <2>2 DEF WrapperInv, DoneInv
<1>8. /\ call'.phase = "pass" /\ call'.layer = 0 /\ call'.T \in Nat
      /\ call'.T = IF Cached THEN 1 ELSE Len(gen'.ids[0])
  <2>1. call' = [phase |-> "pass", layer |-> 0,
                 T |-> IF gen.use_cache THEN Len(gen'.ids[0]) - hf_len[0] ELSE Len(gen'.ids[0])]
    BY DEF NextToken
  <2>2. hf_len[0] = IF Cached THEN Len(gen.ids[0]) ELSE 0
    BY <1>7, LayerZero DEF LayerDone
  <2>3. /\ call'.phase = "pass" /\ call'.layer = 0
        /\ call'.T = IF gen.use_cache THEN Len(gen'.ids[0]) - hf_len[0] ELSE Len(gen'.ids[0])
    BY <2>1
  <2>4. CASE Cached
    <3>1. gen.use_cache
      BY <2>4 DEF Cached
    <3>2. call'.T = 1 /\ call'.T \in Nat
      BY <1>6, <2>2, <2>3, <2>4, <3>1
    <3> QED
      BY <2>3, <2>4, <3>2, Zenon
  <2>5. CASE ~ Cached
    <3>1. call'.T = Len(gen'.ids[0]) /\ Len(gen'.ids[0]) \in Nat
      <4>1. hf_len[0] = 0 /\ Len(gen'.ids[0]) \in Nat
        BY <1>6, <2>2, <2>5
      <4>2. Len(gen'.ids[0]) - hf_len[0] = Len(gen'.ids[0])
        BY <4>1
      <4> QED
        BY <2>3, <4>1, <4>2
    <3> QED
      BY <2>3, <2>5, <3>1
  <2> QED
    BY <2>4, <2>5
<1>9. TypeInv'
  <2>1. GenType'
    <3>1. \A b \in SeqIds : gen'.ids[b] \in Seq(Token)
      <4> SUFFICES ASSUME NEW b \in SeqIds PROVE gen'.ids[b] \in Seq(Token)
        OBVIOUS
      <4>1. CASE b \in Rows
        BY <1>5, <4>1
      <4>2. CASE b \notin Rows
        <5>1. gen'.ids[b] = <<>>
          BY <1>1, <1>2, <1>3, <4>2 DEF TypeInv, GenType
        <5> QED
          BY <5>1, EmptySeq
      <4> QED
        BY <4>1, <4>2
    <3>2. gen'.ids = [b \in SeqIds |-> gen'.ids[b]]
      BY <1>1, <1>2 DEF TypeInv, GenType
    <3>3. gen' = [gen EXCEPT !.ids = gen'.ids]
      BY <1>1, <1>2 DEF TypeInv, GenType
    <3>4. gen'.ids \in [SeqIds -> Seq(Token)]
      BY <3>1, <3>2
    <3> QED
      BY <1>2, <3>3, <3>4 DEF TypeInv, GenType
  <2>2. CallType'
    <3>1. call' = [phase |-> call'.phase, layer |-> call'.layer, T |-> call'.T]
      BY DEF NextToken
    <3> QED
      BY <1>8, <3>1, LayerZero DEF CallType
  <2>3. AttendType'
    BY <1>2, EmptySeq DEF AttendType, NothingAttended
  <2> QED
    BY <1>2, <2>1, <2>2, <2>3 DEF TypeInv, CachesType, FlagsType, HfType
<1>10. GenInv' /\ BlankInv' /\ DoneInv'
  <2>1. GenInv'
    <3>1. gen'.use_cache = gen.use_cache /\ gen'.synced = gen.synced
      BY <1>1, <1>2 DEF TypeInv, GenType
    <3>2. \A b \in Rows : Len(gen'.ids[b]) = Len(gen'.ids[0])
      BY <1>3, <1>4, <1>5
    <3>3. Len(gen'.ids[0]) > 0
      BY <1>6
    <3>4. gen.batch = 2 => gen.use_cache /\ gen.synced
      BY <1>2 DEF GenInv
    <3> QED
      BY <1>3, <3>1, <3>2, <3>3, <3>4 DEF GenInv
  <2>2. DoneLayers' = {}
    BY <1>8 DEF DoneLayers
  <2> QED
    BY <1>2, <1>3, <2>1, <2>2 DEF BlankInv, DoneInv
<1>11. PassInv'
  <2>1. CASE Cached
    <3>1. \A l \in Layers :
            /\ hf_len'[l] = Len(gen'.ids[0]) - 1
            /\ \A b \in Rows :
                 /\ caches'[b].device = DeviceOf[l]
                 /\ caches'[b].kv[l] = SubSeq(gen'.ids[b], 1, Len(gen'.ids[b]) - 1)
                 /\ prefilled'[l][b]
      BY <1>2, <1>5, <1>6, <1>7, <2>1 DEF LayerDone
    <3>2. Cached' /\ call'.T = 1 /\ Len(gen'.ids[0]) > 1
      BY <1>3, <1>6, <1>8, <2>1
    <3>3. StepPass'
      BY <1>3, <3>1, <3>2 DEF StepPass, Ahead
    <3> QED
      BY <1>2, <1>3, <3>3 DEF PassInv
  <2>2. CASE ~ Cached
    <3>1. gen'.batch = 1
      BY <1>2, <1>3, <2>2 DEF GenInv, Cached
    <3>2. call'.T = Len(gen'.ids[0]) /\ call'.T > 1
      BY <1>6, <1>8, <2>2
    <3>3. \A l \in Layers : hf_len'[l] = 0
      BY <1>2, <1>7, <2>2 DEF LayerDone
    <3>4. FreshPass'
      BY <1>8, <3>1, <3>2, <3>3 DEF FreshPass, Ahead
    <3> QED
      BY <3>1, <3>4 DEF PassInv
  <2> QED
    BY <2>1, <2>2
<1> QED
  BY <1>9, <1>10, <1>11 DEF WrapperInv

LEMMA WrapperStep ==
  OneDeviceMap /\ BatchesCached => (WrapperInv /\ [Next]_vars => WrapperInv')
<1> SUFFICES ASSUME OneDeviceMap, BatchesCached, WrapperInv, [Next]_vars PROVE WrapperInv'
  OBVIOUS
<1>1. CASE ResetAll
  BY <1>1, ResetStep
<1>2. CASE NewGeneration
  BY <1>2, NewGenerationStep
<1>3. CASE NextToken
  BY <1>3, NextTokenStep
<1>4. CASE LayerForward
  BY <1>4, ForwardStep
<1>5. CASE LayerRaises
  BY <1>5, RaiseStep
<1>6. CASE UNCHANGED vars
  BY <1>6 DEF vars, WrapperInv, TypeInv, CachesType, FlagsType, HfType, GenType, CallType,
              AttendType, GenInv, BlankInv, DoneInv, DoneLayers, LayerDone, PassInv, FreshPass,
              StepPass, Ahead, Cached, Rows
<1> QED
  BY <1>1, <1>2, <1>3, <1>4, <1>5, <1>6 DEF Next

-------------------------------------------------------------------------------
(* Each row implements KVContext *)

RowStep(b) == [Context(b)!Next]_(Context(b)!vars)

(* The tokens a layer has taken in when it has stored n of a call. *)
LEMMA StoredPrefix ==
  ASSUME WrapperInv, OneDeviceMap, call.phase = "pass", NEW b \in Rows, NEW n \in 0 .. call.T
  PROVE  LET l == call.layer IN
         /\ Len(gen.ids[b]) \in Nat /\ call.T \in Nat \ {0} /\ call.T <= Len(gen.ids[b])
         /\ Len(CacheFor(l, b).kv[l]) = Len(gen.ids[b]) - call.T
         /\ n > 0 => Stored(l, b, n).kv[l] = SubSeq(gen.ids[b], 1, Len(gen.ids[b]) - call.T + n)
         /\ n = 0 => Stored(l, b, n).kv[l] = CacheFor(l, b).kv[l]
         /\ \A k \in Layers \ {l} : Stored(l, b, n).kv[k] = CacheFor(l, b).kv[k]
<1> DEFINE l == call.layer
           s == gen.ids[b]
           T == call.T
           m == Len(s)
<1>1. /\ l \in Layers /\ b \in SeqIds /\ gen.batch > 0 /\ (FreshPass \/ StepPass)
      /\ TypeInv /\ GenInv
  BY RowIds DEF WrapperInv, TypeInv, CallType, PassInv
<1>2. s \in Seq(Token) /\ m \in Nat /\ T \in Nat \ {0} /\ T <= m
  <2>1. gen.ids[0] \in Seq(Token) /\ s \in Seq(Token)
    BY <1>1 DEF TypeInv, GenType, SeqIds
  <2>2. T \in Nat /\ Len(gen.ids[0]) \in Nat /\ m = Len(gen.ids[0]) /\ m > 0
    BY <1>1, <2>1, LenProperties DEF TypeInv, CallType, GenInv
  <2>3. T = m \/ (T = 1 /\ m > 1)
    BY <1>1, <2>2 DEF FreshPass, StepPass
  <2> QED
    BY <2>1, <2>2, <2>3
<1>3. /\ CacheFor(l, b).kv[l] = SubSeq(s, 1, m - T)
      /\ CacheFor(l, b) \in Caches
  BY <1>1, CacheFound, CacheForShape
<1>4. Chunk(b) = SubSeq(s, m - T + 1, m)
  BY DEF Chunk
<1>5. /\ Stored(l, b, n).kv[l] = CacheFor(l, b).kv[l] \o SubSeq(Chunk(b), 1, n)
      /\ \A k \in Layers \ {l} : Stored(l, b, n).kv[k] = CacheFor(l, b).kv[k]
  BY <1>1, <1>3 DEF Stored, Caches, Logs
<1> HIDE DEF l, s, T, m
<1>6. n > 0 => SubSeq(Chunk(b), 1, n) = SubSeq(s, m - T + 1, m - T + n)
  <2> SUFFICES ASSUME n > 0 PROVE SubSeq(Chunk(b), 1, n) = SubSeq(s, m - T + 1, m - T + n)
    OBVIOUS
  <2>1. n \in 0 .. T
    BY DEF T
  <2>2. PICK from \in Nat : from = m - T + 1
    BY <1>2
  <2>3. /\ from \in 1 .. m /\ m \in 1 .. m
        /\ 1 \in 1 .. m - from + 1 /\ n \in 1 .. m - from + 1
        /\ from + 1 - 1 = m - T + 1 /\ from + n - 1 = m - T + n
    BY <1>2, <2>1, <2>2
  <2> QED
    BY <1>2, <1>4, <2>2, <2>3, SubSeqOfSubSeq DEF m
<1>7. SubSeq(s, 1, m - T) \o SubSeq(s, m - T + 1, m - T + n) = SubSeq(s, 1, m - T + n)
  <2>1. n \in Nat /\ n <= T
    BY <1>2 DEF T
  <2>2. 1 \in 1 .. Len(s) + 1 /\ m - T \in 1 - 1 .. Len(s) /\ m - T + n \in m - T .. Len(s)
    BY <1>2, <2>1 DEF m
  <2> QED
    BY <1>2, <2>2, ConcatAdjacentSubSeq
<1>8. Len(SubSeq(s, 1, m - T)) = m - T
  <2>1. \A i \in 1 .. m - T : s[i] \in Token
    BY <1>2, ElementOfSeq DEF m
  <2>2. PICK k \in Nat : k = m - T
    BY <1>2
  <2>3. Len(SubSeq(s, 1, k)) = IF 1 <= k THEN k - 1 + 1 ELSE 0
    BY <2>1, <2>2, SubSeqProperties
  <2> QED
    BY <2>2, <2>3
<1>9. n > 0 => Stored(l, b, n).kv[l] = SubSeq(s, 1, m - T + n)
  BY <1>3, <1>5, <1>6, <1>7
<1>10. n = 0 => Stored(l, b, n).kv[l] = CacheFor(l, b).kv[l]
  <2>1. CacheFor(l, b).kv[l] \in Seq(Token)
    BY <1>1, <1>3 DEF Caches, Logs, l
  <2>2. SubSeq(Chunk(b), 1, 0) = <<>>
    BY SubSeqEmpty
  <2> QED
    BY <1>5, <2>1, <2>2, ConcatEmptySeq
<1> QED
  BY <1>2, <1>3, <1>5, <1>8, <1>9, <1>10 DEF l, s, T, m

(* The first layer of a fresh pass finds no cache, and a call that carries  *)
(* one more token starts nothing over.                                      *)
LEMMA WhatIsReset ==
  ASSUME WrapperInv, call.phase = "pass", NEW b \in Rows
  PROVE  LET l == call.layer IN
         /\ FreshPass /\ l = 0 => ResetCaches(l)[b] = NoCache
         /\ StepPass \/ l > 0 => ResetCaches(l) = caches
<1> DEFINE l == call.layer
<1>1. /\ l \in Layers /\ l \in Nat /\ l \in Ahead /\ b \in SeqIds /\ gen.batch > 0
      /\ gen.batch \in 0 .. 2 /\ call.T \in Nat /\ Len(gen.ids[0]) \in Nat
  <2>1. gen.ids[0] \in Seq(Token)
    BY DEF WrapperInv, TypeInv, GenType, SeqIds
  <2> QED
    BY <2>1, RowIds, LayerZero, LenProperties
       DEF WrapperInv, TypeInv, CallType, GenType, PassInv, Ahead
<1>2. ASSUME FreshPass, l = 0 PROVE ResetCaches(l)[b] = NoCache
  <2>1. CASE gen.batch = 1 /\ call.T > 1
    <3>1. b = 0
      BY <1>1, <2>1 DEF Rows
    <3>2. ResetCaches(l) = [caches EXCEPT ![0] = NoCache]
      BY <1>2, <2>1 DEF ResetCaches, full_prefill
    <3> QED
      BY <1>1, <3>1, <3>2 DEF WrapperInv, TypeInv, CachesType
  <2>2. CASE ~ (gen.batch = 1 /\ call.T > 1)
    <3>1. caches[b] = NoCache
      BY <1>2, <2>2 DEF FreshPass
    <3> QED
      BY <1>1, <3>1 DEF ResetCaches, WrapperInv, TypeInv, CachesType
  <2> QED
    BY <2>1, <2>2
<1>3. ASSUME StepPass PROVE ResetCaches(l) = caches
  <2>1. ~ full_prefill(l)
    BY <1>1, <1>3 DEF StepPass, full_prefill
  <2> QED
    BY <2>1 DEF ResetCaches
<1>4. l > 0 => ResetCaches(l) = caches
  BY <1>1 DEF ResetCaches
<1> QED
  BY <1>2, <1>3, <1>4

(* What a row shows of the layers when one of them is running: the layer    *)
(* itself is behind by the tokens of the call.                              *)
LEMMA SeenInPass ==
  ASSUME WrapperInv, OneDeviceMap, call.phase = "pass", NEW b \in Rows
  PROVE  LET l == call.layer IN
         /\ Len(Seen(b)[l]) = Len(gen.ids[b]) - call.T
         /\ \A k \in Layers : /\ Seen(b)[k] = CacheFor(l, b).kv[k]
                               /\ Seen(b)[k] = ResetCaches(l)[b].kv[k]
<1> DEFINE l == call.layer
<1>1. /\ l \in Layers /\ l \in Nat /\ b \in SeqIds /\ gen.batch > 0 /\ call.T \in Nat
      /\ FreshPass \/ StepPass
      /\ Len(gen.ids[b]) = Len(gen.ids[0]) /\ \A k \in Layers : k \in Nat
  BY RowIds, LayerZero DEF WrapperInv, TypeInv, CallType, PassInv, GenInv
<1>2. /\ Len(gen.ids[b]) \in Nat /\ Len(CacheFor(l, b).kv[l]) = Len(gen.ids[b]) - call.T
  <2>1. 0 \in 0 .. call.T
    BY <1>1
  <2> QED
    BY <2>1, StoredPrefix
<1>3. /\ l > 0 => CacheFor(l, b) = caches[b]
      /\ FreshPass /\ l = 0 => CacheFor(l, b) = NewCacheOn(DeviceOf[l])
      /\ StepPass => CacheFor(l, b) = caches[b]
  BY CacheFound
<1>4. \A k \in Layers : k < l => /\ Seen(b)[k] = CacheFor(l, b).kv[k]
                                /\ Seen(b)[k] = ResetCaches(l)[b].kv[k]
  <2>1. \A k \in Layers : k < l => Seen(b)[k] = caches[b].kv[k] /\ l > 0
    BY <1>1 DEF Seen
  <2> QED
    BY <1>3, <2>1, WhatIsReset
<1>5. CASE FreshPass
  <2>1. \A k \in Layers : k >= l => Seen(b)[k] = <<>>
    BY <1>1, <1>5 DEF Seen, CarriesAll, FreshPass
  <2>2. \A k \in Layers : k >= l => CacheFor(l, b).kv[k] = <<>>
    <3>1. CASE l = 0
      BY <1>3, <1>5, <3>1 DEF NewCacheOn
    <3>2. CASE l > 0
      BY <1>1, <1>3, <1>5, <3>2 DEF FreshPass, Ahead
    <3> QED
      BY <1>1, <3>1, <3>2
  <2>3. \A k \in Layers : k >= l => ResetCaches(l)[b].kv[k] = <<>>
    <3>1. CASE l = 0
      <4>1. ResetCaches(l)[b] = NoCache
        BY <1>5, <3>1, WhatIsReset
      <4> QED
        BY <4>1 DEF NoCache
    <3>2. CASE l > 0
      <4>1. ResetCaches(l) = caches
        BY <3>2, WhatIsReset
      <4> QED
        BY <1>3, <2>2, <3>2, <4>1
    <3> QED
      BY <1>1, <3>1, <3>2
  <2> QED
    BY <1>1, <1>2, <1>4, <2>1, <2>2, <2>3
<1>6. CASE StepPass
  <2>1. ~ CarriesAll
    <3>1. call.T = 1 /\ Len(gen.ids[0]) > 1
      BY <1>6 DEF StepPass
    <3>2. ~ (call.T = Len(gen.ids[0]) /\ call.T = 1 /\ Len(gen.ids[0]) > 1)
      OBVIOUS
    <3> QED
      BY <3>1, <3>2 DEF CarriesAll
  <2>2. \A k \in Layers : Seen(b)[k] = caches[b].kv[k]
    BY <1>1, <2>1 DEF Seen
  <2>3. ResetCaches(l) = caches
    BY <1>6, WhatIsReset
  <2> QED
    BY <1>1, <1>2, <1>3, <1>4, <1>6, <2>2, <2>3
<1> QED
  BY <1>1, <1>5, <1>6

(* A layer that stores the next tokens of a row, and nothing else of it.    *)
LEMMA TakesIn ==
  ASSUME WrapperInv, OneDeviceMap, call.phase = "pass", NEW b \in Rows, NEW n \in 0 .. call.T,
         gen' = gen, \A k \in Layers : Seen(b)'[k] = Stored(call.layer, b, n).kv[k]
  PROVE  RowStep(b)
<1> DEFINE l == call.layer
           s == gen.ids[b]
           m == Len(s) - call.T + n
<1>1. l \in Layers
  BY DEF WrapperInv, TypeInv, CallType
<1>2. /\ Len(s) \in Nat /\ call.T \in Nat \ {0} /\ call.T <= Len(s)
      /\ n > 0 => Stored(l, b, n).kv[l] = SubSeq(s, 1, m)
      /\ n = 0 => Stored(l, b, n).kv[l] = CacheFor(l, b).kv[l]
      /\ \A k \in Layers \ {l} : Stored(l, b, n).kv[k] = CacheFor(l, b).kv[k]
  BY StoredPrefix
<1>3. /\ Len(Seen(b)[l]) = Len(s) - call.T
      /\ \A k \in Layers : Seen(b)[k] = CacheFor(l, b).kv[k]
  BY SeenInPass
<1>4. /\ Seen(b) = [k \in Layers |-> Seen(b)[k]]
      /\ Seen(b)' = [k \in Layers |-> Seen(b)'[k]]
  BY DEF Seen
<1>5. CASE n = 0
  <2>1. \A k \in Layers : Seen(b)'[k] = Seen(b)[k]
    BY <1>1, <1>2, <1>3, <1>5
  <2>2. Seen(b)' = Seen(b)
    BY <1>4, <2>1
  <2> QED
    BY <2>2 DEF RowStep, Context!vars
<1>6. CASE n > 0
  <2>1. n \in Nat /\ n <= call.T
    BY <1>2
  <2>2. m \in Len(Seen(b)[l]) + 1 .. Len(s) /\ Len(Seen(b)[l]) < Len(s)
    BY <1>2, <1>3, <1>6, <2>1
  <2>3. \A k \in Layers : Seen(b)'[k] = IF k = l THEN SubSeq(s, 1, m) ELSE Seen(b)[k]
    BY <1>1, <1>2, <1>3, <1>6
  <2>4. Seen(b)' = [k \in Layers |-> IF k = l THEN SubSeq(s, 1, m) ELSE Seen(b)[k]]
    BY <1>4, <2>3
  <2>5. Seen(b)' = [Seen(b) EXCEPT ![l] = SubSeq(s, 1, m)]
    BY <1>4, <2>4
  <2>6. Context(b)!Absorb(l)
    BY <2>2, <2>5 DEF Context!Absorb
  <2> QED
    BY <1>1, <2>6 DEF RowStep, Context!Next
<1> QED
  BY <1>2, <1>5, <1>6

(* A row that is not there shows nothing. *)
LEMMA NoRow ==
  ASSUME NEW b \in SeqIds, b \notin Rows, gen' = gen
  PROVE  RowStep(b)
<1>1. Seen(b) = [l \in Layers |-> <<>>] /\ Seen(b)' = [l \in Layers |-> <<>>]
  BY DEF Seen, Rows
<1> QED
  BY <1>1 DEF RowStep, Context!vars

LEMMA ForwardContext ==
  ASSUME WrapperInv, OneDeviceMap, LayerForward, NEW b \in SeqIds
  PROVE  RowStep(b)
<1> DEFINE l == call.layer
<1>1. /\ call.phase = "pass" /\ gen' = gen /\ Rows' = Rows /\ l \in Layers /\ l \in Nat
      /\ call.T \in 0 .. call.T /\ call.T \in Nat
  BY LayerZero DEF LayerForward, Rows, WrapperInv, TypeInv, CallType
<1>2. CASE b \notin Rows
  BY <1>1, <1>2, NoRow
<1>3. CASE b \in Rows
  <2>1. \A k \in Layers : /\ Seen(b)[k] = CacheFor(l, b).kv[k]
                          /\ k # l => Stored(l, b, call.T).kv[k] = CacheFor(l, b).kv[k]
    BY <1>1, <1>3, SeenInPass, StoredPrefix
  <2>2. caches'[b] = Stored(l, b, call.T)
    BY <1>3 DEF LayerForward
  <2>3. call' = Idle \/ (call'.layer = l + 1 /\ call'.T = call.T)
    BY <1>1 DEF LayerForward, WrapperInv, TypeInv, CallType
  <2>4. ASSUME NEW k \in Layers PROVE Seen(b)'[k] = Stored(l, b, call.T).kv[k]
    <3>1. CASE CarriesAll' /\ k >= call'.layer
      <4>1. call'.layer = l + 1 /\ call'.T = call.T
        BY <2>3, <3>1 DEF CarriesAll, Idle
      <4>2. k \in Nat /\ k # l /\ k >= l
        BY <1>1, <3>1, <4>1, LayerZero
      <4>3. CarriesAll
        BY <1>1, <3>1, <4>1 DEF CarriesAll
      <4>4. Seen(b)[k] = <<>> /\ Seen(b)'[k] = <<>>
        BY <3>1, <4>2, <4>3 DEF Seen
      <4> QED
        BY <2>1, <4>2, <4>4
    <3>2. CASE ~ (CarriesAll' /\ k >= call'.layer)
      BY <1>1, <1>3, <2>2, <3>2 DEF Seen
    <3> QED
      BY <3>1, <3>2
  <2> QED
    BY <1>1, <1>3, <2>4, TakesIn
<1> QED
  BY <1>2, <1>3

(* A pass that ends in an exception has stored some of the call in one      *)
(* layer, and the layers after it are as empty as they counted.             *)
LEMMA RaiseContext ==
  ASSUME WrapperInv, OneDeviceMap, LayerRaises, NEW b \in SeqIds
  PROVE  RowStep(b)
<1> DEFINE l == call.layer
<1>1. /\ call.phase = "pass" /\ gen' = gen /\ Rows' = Rows /\ l \in Layers
      /\ call.T \in 0 .. call.T /\ call.T \in Nat
      /\ call'.phase = "failed"
  BY DEF LayerRaises, Rows, WrapperInv, TypeInv, CallType, Idle
<1>2. CASE b \notin Rows
  BY <1>1, <1>2, NoRow
<1>3. CASE b \in Rows
  <2>1. PICK r \in Rows, n \in 0 .. call.T :
          caches' = [i \in SeqIds |-> IF i \in Rows /\ i < r THEN Stored(l, i, call.T)
                                      ELSE IF i = r THEN Stored(l, i, n)
                                      ELSE ResetCaches(l)[i]]
    BY DEF LayerRaises
  <2>2. \A k \in Layers : Seen(b)'[k] = caches'[b].kv[k]
    BY <1>1, <1>3 DEF Seen, CarriesAll
  <2>3. CASE b < r
    BY <1>1, <1>3, <2>1, <2>2, <2>3, TakesIn
  <2>4. CASE b = r
    BY <1>1, <1>3, <2>1, <2>2, <2>4, TakesIn
  <2>5. CASE ~ (b < r) /\ b # r
    <3>1. \A k \in Layers : Seen(b)[k] = ResetCaches(l)[b].kv[k]
      BY <1>1, <1>3, SeenInPass
    <3>2. \A k \in Layers : Seen(b)'[k] = Seen(b)[k]
      BY <2>1, <2>2, <2>5, <3>1
    <3>3. Seen(b)' = Seen(b)
      BY <3>2 DEF Seen
    <3> QED
      BY <1>1, <3>3 DEF RowStep, Context!vars
  <2> QED
    BY <2>3, <2>4, <2>5
<1> QED
  BY <1>2, <1>3

LEMMA NewGenerationContext ==
  ASSUME WrapperInv', NewGeneration, NEW b \in SeqIds
  PROVE  RowStep(b)
<1>1. PICK use \in Uses, n \in MinPrompt .. MaxPrompt :
        /\ \E ids \in [0 .. use[1] - 1 -> [1 .. n -> Token]] :
             gen' = [batch |-> use[1], use_cache |-> use[2], synced |-> use[3],
                     ids |-> [i \in SeqIds |-> IF i < use[1] THEN ids[i] ELSE <<>>]]
        /\ call' = [phase |-> "pass", layer |-> 0, T |-> n]
  BY DEF NewGeneration
<1>2. /\ gen'.batch = use[1] /\ use[1] \in {1, 2}
      /\ call'.phase = "pass" /\ call'.layer = 0
      /\ \A l \in Layers : hf_len'[l] = 0
  BY <1>1, WrapperAssumption DEF NewGeneration
<1>3. /\ gen'.ids[b] \in Seq(Token)
      /\ Len(gen'.ids[0]) \in Nat /\ Len(gen'.ids[0]) > 0
      /\ b \in Rows' => Len(gen'.ids[b]) = Len(gen'.ids[0])
      /\ FreshPass' \/ StepPass'
  <2>1. gen'.ids[0] \in Seq(Token) /\ gen'.ids[b] \in Seq(Token)
    BY DEF WrapperInv, TypeInv, GenType, SeqIds
  <2> QED
    BY <1>2, <2>1, LenProperties DEF WrapperInv, GenInv, PassInv
<1>4. ~ StepPass'
  <2>1. StepPass' => hf_len'[0] = Len(gen'.ids[0]) - 1 /\ Len(gen'.ids[0]) > 1
    BY <1>2, LayerZero DEF StepPass, Ahead
  <2> QED
    BY <1>2, <1>3, <2>1, LayerZero
<1>5. CarriesAll'
  BY <1>2, <1>3, <1>4 DEF CarriesAll, FreshPass
<1>6. Seen(b)' = [l \in Layers |-> <<>>]
  BY <1>2, <1>5, LayerZero DEF Seen
<1>7. CASE b \in Rows'
  <2>1. gen'.ids[b] \in Seq(Token) \ {<<>>}
    BY <1>3, <1>7
  <2>2. Context(b)!NewPrompt
    BY <1>6, <2>1 DEF Context!NewPrompt
  <2> QED
    BY <2>2 DEF RowStep, Context!Next
<1>8. CASE b \notin Rows'
  <2>1. ~ (b < use[1])
    BY <1>2, <1>8 DEF Rows, SeqIds
  <2>2. gen'.ids[b] = <<>>
    BY <1>1, <2>1
  <2>3. Context(b)!Reset
    BY <1>6, <2>2 DEF Context!Reset
  <2> QED
    BY <2>3 DEF RowStep, Context!Next
<1> QED
  BY <1>7, <1>8

(* The next token is fed when every layer holds all before it, or the       *)
(* whole sequence is fed again.                                             *)
LEMMA NextTokenContext ==
  ASSUME WrapperInv, WrapperInv', NextToken, NEW b \in SeqIds
  PROVE  RowStep(b)
<1>1. PICK toks \in [Rows -> Token] :
        gen' = [gen EXCEPT !.ids =
                  [i \in SeqIds |-> IF i < gen.batch THEN Append(@[i], toks[i]) ELSE <<>>]]
  BY DEF NextToken
<1>2. /\ call.phase = "idle" /\ gen.batch \in 1 .. 2 /\ caches' = caches
      /\ call'.phase = "pass" /\ call'.layer = 0
      /\ gen'.batch = gen.batch /\ Rows' = Rows
      /\ b \in Rows <=> b < gen.batch
      /\ gen'.ids[b] = IF b < gen.batch THEN Append(gen.ids[b], toks[b]) ELSE <<>>
  BY <1>1 DEF NextToken, WrapperInv, TypeInv, GenType, Rows, SeqIds
<1>3. /\ gen'.ids[b] \in Seq(Token)
      /\ Len(gen'.ids[0]) \in Nat /\ Len(gen'.ids[0]) > 0
      /\ b \in Rows => Len(gen'.ids[b]) = Len(gen'.ids[0])
      /\ FreshPass' \/ StepPass'
  <2>1. gen'.ids[0] \in Seq(Token) /\ gen'.ids[b] \in Seq(Token)
    BY DEF WrapperInv, TypeInv, GenType, SeqIds
  <2> QED
    BY <1>2, <2>1, LenProperties DEF WrapperInv, GenInv, PassInv
<1>4. CASE b \notin Rows
  <2>1. gen'.ids[b] = <<>> /\ Seen(b)' = [l \in Layers |-> <<>>]
    BY <1>2, <1>4 DEF Seen
  <2>2. Context(b)!Reset
    BY <2>1 DEF Context!Reset
  <2> QED
    BY <2>2 DEF RowStep, Context!Next
<1>5. CASE b \in Rows /\ FreshPass'
  <2>1. CarriesAll'
    BY <1>2, <1>5 DEF CarriesAll, FreshPass
  <2>2. Seen(b)' = [l \in Layers |-> <<>>]
    BY <1>2, <2>1, LayerZero DEF Seen
  <2>3. gen'.ids[b] \in Seq(Token) \ {<<>>}
    BY <1>3, <1>5
  <2>4. Context(b)!NewPrompt
    BY <2>2, <2>3 DEF Context!NewPrompt
  <2> QED
    BY <2>4 DEF RowStep, Context!Next
<1>6. CASE b \in Rows /\ StepPass'
  <2>1. ~ CarriesAll /\ ~ CarriesAll'
    <3>1. call'.T = 1 /\ Len(gen'.ids[0]) > 1
      BY <1>6 DEF StepPass
    <3>2. ~ (call'.T = Len(gen'.ids[0]) /\ call'.T = 1 /\ Len(gen'.ids[0]) > 1)
      OBVIOUS
    <3>3. call.phase # "pass"
      BY <1>2
    <3> QED
      BY <3>1, <3>2, <3>3 DEF CarriesAll
  <2>2. /\ Seen(b) = [l \in Layers |-> caches[b].kv[l]]
        /\ Seen(b)' = [l \in Layers |-> caches[b].kv[l]]
    BY <1>2, <1>6, <2>1 DEF Seen
  <2>3. \A l \in Layers : caches[b].kv[l] = gen.ids[b]
    <3>1. gen.batch > 0
      BY <1>2
    <3>2. DoneLayers = Layers
      BY <1>2, <3>1 DEF DoneLayers
    <3> QED
      BY <1>6, <3>2 DEF WrapperInv, DoneInv, LayerDone
  <2>4. gen.ids[b] # <<>>
    <3>1. Len(gen.ids[b]) > 0
      BY <1>2, <1>6 DEF WrapperInv, GenInv
    <3> QED
      BY <3>1
  <2>5. toks[b] \in Token /\ gen'.ids[b] = Append(gen.ids[b], toks[b])
    BY <1>2, <1>6
  <2>6. Context(b)!NextToken
    BY <2>2, <2>3, <2>4, <2>5 DEF Context!NextToken
  <2> QED
    BY <2>6 DEF RowStep, Context!Next
<1> QED
  BY <1>3, <1>4, <1>5, <1>6

LEMMA RowSteps ==
  OneDeviceMap /\ WrapperInv /\ WrapperInv' /\ [Next]_vars => \A b \in SeqIds : RowStep(b)
<1> SUFFICES ASSUME OneDeviceMap, WrapperInv, WrapperInv', [Next]_vars, NEW b \in SeqIds
             PROVE  RowStep(b)
  OBVIOUS
<1>1. CASE ResetAll
  <2>1. gen'.ids[b] = <<>> /\ Seen(b)' = [l \in Layers |-> <<>>]
    BY <1>1 DEF ResetAll, NoGeneration, Seen, Rows
  <2>2. Context(b)!Reset
    BY <2>1 DEF Context!Reset
  <2> QED
    BY <2>2 DEF RowStep, Context!Next
<1>2. CASE NewGeneration
  BY <1>2, NewGenerationContext
<1>3. CASE NextToken
  BY <1>3, NextTokenContext
<1>4. CASE LayerForward
  BY <1>4, ForwardContext
<1>5. CASE LayerRaises
  BY <1>5, RaiseContext
<1>6. CASE UNCHANGED vars
  <2>1. gen' = gen /\ Seen(b)' = Seen(b)
    BY <1>6 DEF vars, Seen, Rows, CarriesAll
  <2> QED
    BY <2>1 DEF RowStep, Context!vars
<1> QED
  BY <1>1, <1>2, <1>3, <1>4, <1>5, <1>6 DEF Next

LEMMA RowsBegin == Init => \A b \in SeqIds : Context(b)!Init
<1> SUFFICES ASSUME Init, NEW b \in SeqIds PROVE Context(b)!Init
  OBVIOUS
<1>1. gen.ids[b] = <<>> /\ Seen(b) = [l \in Layers |-> <<>>]
  BY DEF Init, NoGeneration, Seen, Rows
<1> QED
  BY <1>1 DEF Context!Init

-------------------------------------------------------------------------------
(* Theorems *)

LEMMA InvariantHolds == OneDeviceMap /\ BatchesCached => (Spec => []WrapperInv)
<1> SUFFICES ASSUME OneDeviceMap, BatchesCached PROVE Spec => []WrapperInv
  OBVIOUS
<1>1. Init => WrapperInv
  BY BlankState
<1>2. WrapperInv /\ [Next]_vars => WrapperInv'
  BY WrapperStep
<1> QED
  BY <1>1, <1>2, PTL DEF Spec

(* On one device every layer attends over exactly the tokens of its         *)
(* sequence, however many layers there are, whatever aborted generations    *)
(* left behind, with and without a HuggingFace cache.                       *)
THEOREM Attends == OneDeviceMap /\ BatchesCached => (Spec => []AttendsContext)
<1> SUFFICES ASSUME OneDeviceMap, BatchesCached PROVE Spec => []AttendsContext
  OBVIOUS
<1>1. WrapperInv => AttendsContext
  BY DEF WrapperInv, DoneInv, LayerDone, AttendsContext
<1> QED
  BY <1>1, InvariantHolds, PTL

(* On one device each layer's part of the shared cache holds its sequence,  *)
(* no page of an earlier prefill among it.                                  *)
THEOREM Holds == OneDeviceMap /\ BatchesCached => (Spec => []CacheHoldsContext)
<1> SUFFICES ASSUME OneDeviceMap, BatchesCached PROVE Spec => []CacheHoldsContext
  OBVIOUS
<1>1. WrapperInv => CacheHoldsContext
  BY DEF WrapperInv, DoneInv, LayerDone, CacheHoldsContext
<1> QED
  BY <1>1, InvariantHolds, PTL

(* The length HuggingFace counts with the dummy updates is the number of    *)
(* tokens in the cache, in every layer that has run.                        *)
THEOREM LengthsAgree == OneDeviceMap /\ BatchesCached => (Spec => []HfLengthInStep)
<1> SUFFICES ASSUME OneDeviceMap, BatchesCached PROVE Spec => []HfLengthInStep
  OBVIOUS
<1>1. WrapperInv => HfLengthInStep
  <2> SUFFICES ASSUME WrapperInv, gen.use_cache, gen.synced,
                      NEW l \in DoneLayers, NEW b \in Rows
               PROVE  hf_len[l] = Len(caches[b].kv[l])
    BY DEF HfLengthInStep
  <2>1. caches[b].kv[l] = gen.ids[b] /\ hf_len[l] = Len(gen.ids[0])
    BY DEF WrapperInv, DoneInv, LayerDone, Cached
  <2>2. gen.batch > 0
    BY DEF WrapperInv, TypeInv, GenType, Rows
  <2> QED
    BY <2>1, <2>2 DEF WrapperInv, GenInv
<1> QED
  BY <1>1, InvariantHolds, PTL

(* No step of a pass takes away what an earlier layer of it has stored.     *)
THEOREM KeepsCaches == OneDeviceMap /\ BatchesCached => (Spec => LaterLayersKeepCaches)
<1> SUFFICES ASSUME OneDeviceMap, BatchesCached PROVE Spec => LaterLayersKeepCaches
  OBVIOUS
<1> DEFINE Kept == call.phase = "pass" /\ call.layer > 0 =>
                     \A b \in SeqIds : \A l \in 0 .. call.layer - 1 :
                       caches'[b].kv[l] = caches[b].kv[l]
<1>1. WrapperInv /\ [Next]_vars => Kept
  <2> SUFFICES ASSUME WrapperInv, Next, call.phase = "pass", call.layer > 0,
                      NEW b \in SeqIds, NEW k \in 0 .. call.layer - 1
               PROVE  caches'[b].kv[k] = caches[b].kv[k]
    BY DEF vars
  <2>1. call.layer \in Layers /\ call.layer \in Nat /\ k \in Layers /\ k # call.layer
    BY LayerZero, WrapperAssumption DEF WrapperInv, TypeInv, CallType, Layers
  <2>2. ResetCaches(call.layer) = caches
    BY <2>1 DEF ResetCaches
  <2>3. \A r \in Rows : CacheFor(call.layer, r) = caches[r] /\ caches[r] \in Caches
    BY <2>1, CacheFound, RowIds DEF WrapperInv, TypeInv, CachesType
  <2>4. \A r \in Rows, n \in Nat : Stored(call.layer, r, n).kv[k] = caches[r].kv[k]
    BY <2>1, <2>3 DEF Stored, Caches, Logs
  <2>5. CASE LayerForward
    <3>1. caches'[b] = IF b \in Rows THEN Stored(call.layer, b, call.T) ELSE caches[b]
      BY <2>2, <2>5 DEF LayerForward
    <3> QED
      BY <2>4, <3>1 DEF WrapperInv, TypeInv, CallType
  <2>6. CASE LayerRaises
    <3>1. PICK r \in Rows, n \in 0 .. call.T :
            caches' = [i \in SeqIds |-> IF i \in Rows /\ i < r THEN Stored(call.layer, i, call.T)
                                       ELSE IF i = r THEN Stored(call.layer, i, n)
                                       ELSE ResetCaches(call.layer)[i]]
      BY <2>6 DEF LayerRaises
    <3>2. call.T \in Nat /\ n \in Nat
      BY DEF WrapperInv, TypeInv, CallType
    <3> QED
      BY <2>2, <2>4, <3>1, <3>2
  <2> QED
    BY <2>5, <2>6 DEF Next, ResetAll, NewGeneration, NextToken
<1>2. WrapperInv /\ [Next]_vars => [Kept]_vars
  BY <1>1
<1> QED
  BY <1>2, InvariantHolds, PTL DEF Spec, LaterLayersKeepCaches

(* On one device every row of a batch keeps the promise of KVContext to     *)
(* the transformer: whatever generations came before, also those an         *)
(* exception ended, a layer only ever adds the next tokens of the row's     *)
(* sequence, and a single token is fed only when all layers have caught up. *)
THEOREM WrapperKeepsContext == OneDeviceMap /\ BatchesCached => (Spec => ImplementsContext)
<1> SUFFICES ASSUME OneDeviceMap, BatchesCached PROVE Spec => ImplementsContext
  OBVIOUS
<1>1. WrapperInv /\ WrapperInv' /\ [Next]_vars =>
        [\A b \in SeqIds : [Context(b)!Next]_(Context(b)!vars)]_vars
  BY RowSteps DEF RowStep
<1> QED
  BY <1>1, RowsBegin, InvariantHolds, PTL DEF Spec, ImplementsContext
=============================================================================
