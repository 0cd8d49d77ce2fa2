# A TLA+ development of CARE-KV

CARE-KV keeps the key/value cache of a LLaMA model in 2, 3 or 4 bits, stores the
largest quantization residuals of every page next to it, and reads a few of them
back to correct the attention of each query.  These modules model the control of
the program: which page, slot, row, scale or residual is written when, which are
read back, and what is left when something fails in between; and of the programs
around it: which settings an arm of an evaluation is measured under, and what a
killed run leaves on disk.  The arithmetic on real-valued tensors is not modelled;
where a decision depends on a score, every order of the scores is explored.

Paths below are relative to `src/`.

## 1. The system

| component | state | operations |
|---|---|---|
| Paged cache (`cache.py`) | `next_page`, `valid_tokens`, base codes, scales and masters, side buffer, `meta_table`, slot arenas and free lists | allocate page/slot, write page, append row, read concatenated rows |
| Residual store (`residual_store.py`) | none of its own; writes slots and `PageMeta` of a page | `process_page` |
| Layer (`layer.py`) | none of its own | `prefill` (page loop, base overrides, eviction, corrections), `decode_step` (head loop) |
| Attention and corrections (`attention.py`) | none | `forward` of a decode step, `apply_slot_corrections`, `vectorized_v_correction`, `vectorized_joint_correction` |
| Router (`residual_router.py`) | none | `_resolve_read_budgets`, `route` |
| Wrapper (`llama_patch.py`) | `_caches` shared by all layers, `_prefilled` of each layer | `forward`, `reset_cache`, `reset_all_caches` |
| Packing and quantization (`quantizer.py`) | none | `pack_codes_2d`, `unpack_codes_2d`, quantize, residual codecs |
| Budgets (`cache.py`, `residual_store.py`) | the size of the arenas, fixed at construction | `layer_budget_multiplier`, store budgets |
| Base quantizers (`kivi_helpers.py`, `blockgtq_base.py`) | calibration registry | quantize/dequantize |
| Estimator and utilities (`utils.py`) | none | `estimate_memory_bytes` |
| Method adapters (`baselines/`) | `os.environ`, the rotary function of the imported model code | `setup_model`, `teardown` |
| Evaluation drivers (`tools/`) | rows in memory, a CSV | loop over points and arms, resume, save, deltas |
| Ladder (`scripts/*ladder*.sh`, `run_bgtq_adapter.py`) | background jobs, pids, a CSV shared by all jobs | fork, wait, poll, skip, append |
| Results and figures, tests | recorded outputs; tests are read as documentation | |

How they interact.  HuggingFace's generation loop calls the wrapper once per layer
and pass.  The wrapper decides between `prefill` and `decode_step` and hands over
one cache object that all layers share.  The layer writes base rows page by page
or row by row, and calls `process_page`, which takes slots out of the arenas all
layers share.  A query then reads base rows back, asks the router which slots to
read, and corrects its attention output.  A driver measures one arm after the
other in one process: an adapter writes `os.environ`, builds the model, which
freezes some of the variables in its `CacheConfig` while the kernels read the
others at every pass, and patches imported functions.  The scripts run such
measurements as background jobs on disjoint GPUs; the jobs append to one file.

What is hard about each part:

* inside the library everything is synchronous in one thread; the hazards are
  *sequences of calls* (generations without a reset, a page stored twice, a call
  that raises between two layers), *shared arenas*, *the same decision taken in
  two or three places* (router and batched correction, three sets of quantizer
  names, offsets computed from counts and from metadata) and *rounding*;
* between arms: *state that outlives its owner* (environment, patched functions),
  failing arms, kills and restarts, a CSV that is read back;
* between jobs: real *interleavings* on a file without a lock and on GPUs, reboots,
  jobs that die or hang, pids that are given away again, and termination.

What makes each part correct:

* cache: a read returns the tokens fed, in order, whatever mix of prefill and
  decode wrote them; slots have one owner; a stored residual belongs to the rows
  it corrects and is added at their positions; the arenas last as long as the pages;
* layer: pages, attention and residuals use the same base; after an eviction a query
  attends to the kept keys up to its own, if there are any; each query of each head
  gets its own correction;
* wrapper: every layer attends over exactly its sequence's tokens;
* router: reads stay within the budgets and are the best; raising a budget costs
  no read; the batched selection and the short-circuits agree with `route`;
* formats: what is read is what was written, to within the precision of a scale,
  and a later row does not change an earlier one;
* budgets: a layer policy preserves the total, and the arena and the estimate
  cover it;
* drivers: an arm is measured as it would be alone; no arm is lost, doubled or,
  once on disk, measured again; deltas are complete;
* ladder: no two jobs on one GPU, one row per model, rows under their header, and
  the script ends.

## 2. Modules

| module | models | checked by |
|---|---|---|
| `KVContext` | what a KV cache promises: lanes hold prefixes of the context and a token is fed only when all have caught up | refined by `PagedCache` and by each row of `LlamaWrapper` |
| `PagedCache` | the paged cache with the page loop, the head loop and `process_page` | `PagedHeads`, `PagedJoint` |
| `SizedCache` (extends `PagedCache`) | the cache with the arenas and page budgets the code computes for it; implements `StoreBudget` | `PagedJoint` |
| `SlotCorrection` (extends `PagedCache`) | where each stored residual row is added, in the three implementations | `PagedJoint` |
| `LlamaWrapper` | `CAREKVLlamaAttention.forward` in every layer, between the generation loop and the cache | `WrapperGenerations`, `WrapperDevices` |
| `ResidualRouter` | read budgets and the selection of `route` and of `vectorized_joint_correction`, with their callers' gates | `Router` |
| `LayerPrefill` | one layer's `prefill`: which base is stored, attended and corrected; mixed precision, low rank, eviction; the correction loops | `Prefill` |
| `Packing` | bit packing of codes | through its users |
| `BasePage` | formats of the base rows of one lane: packed codes, int8 scales, side buffer | `BaseStorage`, `BaseFreshPage` |
| `ResidualSlots` | the residuals of one page from the quantizer to the slot bytes and back | `BaseStorage` |
| `StoreBudget` | store budgets of all layers against the arenas and the estimate | `StoreArena`, and refined by `SizedCache` |
| `Rounding` | `round`, `min`, `max` as the code uses them | through its users |
| `Adapters` | what each method adapter writes, freezes and patches | through `EvalArms` |
| `EvalArms` (extends `Adapters`) | the loop of an evaluation driver, with failing arms, kills and restarts | `Harness`, `HarnessRotation` |
| `PplDrivers`, `SweepDrivers`, `PaperDrivers` | 42 drivers and commands as data for `EvalArms` | `Harness`, `HarnessRotation` |
| `Ladder` | the ladder scripts: main shell, lanes, orphans, the shared CSV, faults | `Ladder` |
| `CommonLemmas` | induction over the natural numbers and finite sets, division and rounding, concatenation of sequences, sums | TLAPS |
| `PagedCacheProofs` | theorems about `PagedCache`, `SlotCorrection` and `SizedCache`, with the refinements of `KVContext` and of `StoreBudget` | TLAPS |
| `LlamaWrapperProofs`, `ResidualRouterProofs`, `LayerPrefillProofs`, `StoreBudgetProofs` | theorems about the module in the name | TLAPS |
| `BaseStorageProofs` | theorems about `BasePage` and `ResidualSlots`, lemmas about `Packing` | TLAPS |
| `HarnessProofs` | theorems about `EvalArms` and `Ladder` | TLAPS |

The `MC...` modules define the small instances.  `MCBasePage` puts the page of
`BasePage` and the slots of `ResidualSlots` side by side as two independent
machines of which a behaviour moves one.  Definitions whose comment begins with
*Mutant* are faulty variants of the definition that follows; the specifications do
not use them.  They record which defect each property would notice.

### State and actions against the code

`PagedCache`.  One action is one iteration of the innermost loop, because a failed
assertion leaves the earlier iterations done.  `BeginPrefill` and `BeginDecode`
are the entries; `PrefillPage` is one page of `_write_pages_for_kv_head`
(`alloc_page`, `write_base`, `process_page`); `DecodeHead` is one head of
`decode_step` (`get_open_page` or `alloc_page`, `append_to_page`, and
`process_page` when the page has filled); `PrefillNoSlot` and `DecodeNoSlot` are
those iterations with an allocation assertion that fails half-way, and
`CacheFull` the failing `alloc_page`.  A row holds a token identity: K and V of a
token are written side by side and are one value.  A residual payload is the
lane, page, group and rows it was computed from, so that a stale or foreign
payload is visible.  Which candidates win is open; how many may, which blocks are
eligible and which slot each gets is the code's.  `process_page` gives a decoded
page `K_hat` as its original, so its residuals vanish unless the dtype of K and V
rounds the dequantized row: the constant `DecodeResidual` covers both.

`SlotCorrection` adds no state.  A term is a slot, the position at which its row is
added and the row of the page it came from; `apply_slot_corrections` walks the
pages, `vectorized_v_correction` asks for each position which V slot covers it,
`vectorized_joint_correction` keeps a cursor over the pages.  The two properties
compare the sets of terms in every state of `PagedCache`.

`LlamaWrapper`.  `LayerForward` is one layer's `forward`: inference of
`full_prefill`, the reset of the shared cache in layer 0, `_get_or_create_cache`
with its device test, the choice between prefill and decode for each row, and the
dummy `past_key_value.update`.  `LayerRaises` is the same with an exception in row
`r` after `n` tokens.  `NewGeneration`, `NextToken` and `ResetAll` are the caller;
the first two are HuggingFace's and modelled from what `forward` is handed.  The
cache is seen as one token log per layer: `PagedCache` implements `KVContext` with a
log per lane, and each row of a batch in `LlamaWrapper` implements the same
`KVContext` with a log per layer.  A layer that a pass over a whole sequence has not
reached counts as empty there, because it is about to replace its part of the cache.

`ResidualRouter`.  A state is a query, the path that serves it and the slots it
reads.  Scores are small naturals, ranked with the code's stable order; ratios,
thresholds and layer multipliers are in units of `1/Den`.  `route` is
deterministic; `vectorized` is a set of outcomes, because `torch.topk` promises
nothing about equal scores.

`LayerPrefill`.  A base is a name (which quantizer, before or after RoPE, which
tokens at high precision, low-rank or exact), so that the question "are pages,
attention and residuals based on the same thing" can be asked.  Which quantizer a
name stands for follows the dispatch by configuration and the registry that
`calibrate` fills for each head, which raises when a head was left out.  `WriteHead` is one
head of the page loop, `Attend` the attention over the prompt, `Evict` the tokens
a query keeps, with heavy hitters in any order; `CorrectHead`, `CorrectEval` and
`CorrectChunk` are the stored, the eval-mode and the batched correction.

`BasePage`.  `Prefill` writes the pages of a prompt, `DecodeStep` appends a row.
A row is its codes and the scale they are multiplied by.  Codes are really packed
and unpacked, through `uint8` and `int8`.  Scales are naturals in units that keep
the rounding of the int8 encoding exact.

`ResidualSlots`.  `StorePage` quantizes the rows of a page, takes what is left over,
cuts it into K and V blocks, quantizes and packs each and writes it to a slot of
the size the cache computes.  Units are chosen so that every division is exact.

`StoreBudget`.  `StorePage` is a page of some lane taking any number of slots its
budgets admit; `StoreAgain` is the second `process_page` of the page a prompt
ended in.  `ArenaDry` is an allocation that fails after some slots of the page are
taken, which stay taken; `NewCache` is the prompt that replaces the cache.
Multipliers are exact fractions.  `estimate_memory_bytes` is compared
by its slot counts.

`SizedCache`.  `Sized` says that the constants of `PagedCache` (arenas, budgets of a
page in each layer) are what `StoreBudget` computes for one configuration.  A history
variable remembers which lanes have stored the page their prompt ended in again.
`Budget` is `StoreBudget` with the pages that have metadata, the slots missing from
the free lists, and the failed allocation.

`Adapters`, `EvalArms`.  An adapter is what it writes to `os.environ`, what the
`CacheConfig` freezes of it, and the rotary function it replaces.  `Begin` reads
the CSV, `Skip`, `Stub`, `Setup`, `SetupFails`, `Measure` and `OutOfMemory` are the
fates of an arm, `EndPoint` computes deltas, `Truncate` and `Fill` (or `FillRaises`
on a row with columns the header lacks) are the two halves of rewriting the CSV,
`Crash` and `Restart` a kill and the next start.  A driver is a record: its arms,
what it pops, when it saves, what it catches, how it resumes.  The values are those
of the sources; only variables some modelled kernel or `CacheConfig` reads appear.

`Ladder`.  A script is a record: its steps, the queue of each lane and the jobs an
earlier script left running.  `Fork` and `Wait` are the main shell, `Wait` both the
builtin and the `kill -0` loop on an orphan's pid; `Check`, `RunArms`, `Die`, `Open`, `Write` are a
job (skip test of the script, the measurement, a job that ends without a row, the
header test of `run_bgtq_adapter.py`, the append); `Hang`, `Reboot`, `Rerun` and
`ForeignExits` are the world.  A row that is appended by one `write` is atomic; the
test for a missing or foreign header before it is not.

## 3. Runs

Twelve runs: nine that hold and three that show where the code does something
other than its comments say.

| run | asks | bounds |
|---|---|---|
| `PagedHeads` | offsets, payloads, refinement of `KVContext` | 1 layer, 2 heads, 2 pages of 2 rows with one V block, 2 tokens, residuals in decoded pages, a K arena one slot short of the pages, prompts up to 4, one token more than fits |
| `PagedJoint` | slot ownership and orphaned slots when arenas run dry; where residual rows are added; refinement of `StoreBudget` | 2 layers, pages of 3 rows with V blocks of 2, the arenas (5 slots each) and page budgets (1 and 2 slots) the code computes for a joint ratio of one third of which the policy gives layer 0 only the floor, 1 token, residuals in decoded pages, prompts and contexts that overflow the pages |
| `WrapperGenerations` | every layer attends over and holds the context; each row of a batch implements `KVContext` | 3 layers, batch 1 and 2, prompts of 1 and 2 tokens, contexts of 4 |
| `Router` | budgets, best reads, monotonicity, gate, mirror | up to 3 K and 2 V slots, scores 0..2, every policy with absolute, ratio and thresholded budgets |
| `Prefill` | one base; what an eviction leaves each query; each query its correction | 4 heads of 2 KV heads, prompts up to 5, every mode, quantizer and store mode, fractions in eighths, chunks of sizes that cut heads |
| `BaseStorage` | what decode and corrections read is what was written | 2 pages of 2 rows of 8 codes with the extreme and the negative codes, scales 1, 3 and 500; residual pages with blocks that fill, cross and exceed the page, odd K blocks, values -9, 2, 7 |
| `StoreArena` | arenas last, totals preserved, the estimate covers a prompt | 1 to 3 layers, 3 pages, budgets 0..2 and tenths, every layer and store policy, with and without a K arena |
| `Harness` | isolation of arms, resume, deltas | every driver but one with its real arms, two failing arms, one kill at any step |
| `Ladder` | GPUs, one row per model, header, end of the script | nine scripts, 4 models on GPUs 0-5, the file missing, new or of an older layout, two reboots, two failures, one hang |
| `WrapperDevices` | layers on two devices | refuted |
| `BaseFreshPage` | int8 scales on a page a decode step allocated | refuted |
| `HarnessRotation` | `eval_rotation_confirm` at two sequence lengths | refuted |

Why these bounds are enough to meet the interesting cases.  Two pages of two rows
give a full page, an open page, a padded page, a page re-processed when it fills,
and a cache that is full.  Two heads are needed for `pos_abs` (taken on head 0) to
be able to disagree with a lane, two layers for the arenas to be shared, three
layers in the wrapper for a first, a middle and a last one.  Pages of three rows
with blocks of two give a V block that the page cuts short.  Three scores give
ties, strict orders and a score below the mean; three K and two V slots let each
budget cut and not cut.  A scale of 500 against 1 is below half a step of the int8
encoding and above what a master of 1 can express.  A row of eight codes holds
whole bytes for every number of bits, and eight 3-bit codes cross every byte
boundary of their three bytes.  Five tokens with two heads in a group give a batch
of ten queries, which chunks of one to five cut inside a head or at its end, with
and without a short rest.  Two failing arms let a reference and its target fail, one kill
meets every step of every driver, and the arms are the drivers' own, so nothing is
scaled down there.  Two reboots let the second start find what the first one and
its orphans left.

The arenas of `PagedHeads` are smaller than the code's, so that allocations fail;
those of `PagedJoint` follow the code's formula, but for the least size of 64 slots
(`MinSlots`), which at this scale would hide the formula.

`MaxPrompt`, `MaxContext` (`PagedCache`, `LlamaWrapper`), `MaxK`, `MaxV` (router),
`MaxTokens` (`LayerPrefill`), `MaxErrors`, `MaxCrashes` (`EvalArms`) and
`MaxReboots`, `MaxFailures`, `MaxHangs` (`Ladder`) bound the model, not the code.
Every other constant is a parameter of the program.

`CHECK_DEADLOCK FALSE` is set where the program really stops: a lane whose pages
are full (`BasePage`), a prefill
that has returned (`LayerPrefill`), a driver (`EvalArms`) or a script (`Ladder`)
that has ended.  In the other runs deadlock checking covers the loops: no iteration
can be left without a successor.

Fairness.  The library is a set of synchronous calls; each is a bounded loop, and
whether another call comes is up to the caller, so nothing in the code justifies a
fairness condition on it.  The ladder is different: its main shell polls and waits
for other processes.  `FairSpec` assumes that the operating system schedules the
shells and the jobs (weak fairness of `Fork \/ Wait` and of every lane's step),
that a job which does not hang ends, that the operator starts the script again
after a reboot, and that a foreign process which was given a polled pid ends some
day.  A hang is a fault the script does not handle; `Finishes` therefore promises
the end only when no job hangs for ever.

### Properties worth a second look

* `TokenStartExact`: a decode step computes `token_start` from a position counted
  on KV head 0; it is right for every head because a pass never leaves heads of
  different length behind that a later step could meet.
* `RouterOffsetsAligned`: the router walks metadata and skips pages without any,
  the attention concatenates all valid rows.  The two offsets agree only because
  a page without metadata is always the last one (theorem `OnlyLastOpen`).
* `LeakBounded`: nothing ever calls `free_k_slot`; a lane loses at most the slots
  of the page its prompt ended in.
* `BatchedAddsTheSame`: one implementation keeps a cursor over pages, another asks
  which slot covers a position, the third adds block offsets; the agreement rests
  on `OnlyLastOpen` again.
* `ImplementsBudget`: `StoreBudget` knows no pages, rows or free lists, the cache no
  multipliers; that a page is stored at most twice and for no more than its layer's
  share follows from how prefill, decode and `process_page` interleave.
* `MoreBudgetKeepsReads`: under `k_first` K and V share an allowance, so this is
  not obvious: an additional K slot takes from V only what it adds.
* `ScaleErrorBounded` and `EarlierRowsKept`: a page has one master for all rows,
  which must neither move under earlier rows nor exceed them by rounding.
* `RowsRestored`: two quantizations, a cut into blocks and a packing, undone with
  error at most half a step of the block's own scale.
* `TotalPreserved`: each layer rounds on its own.
* `OneBase`: three places may compute the base; an override must reach all three.
* `MeasuredAlone`: compares what an arm's model and kernels see with what they would
  see in a fresh process; it holds for 41 drivers for different reasons (drivers
  that pop, adapters that overwrite, variables no later arm reads), which `Isolated`
  states as one condition on a table.
* `CrashCostsOneArm`: between reading the CSV, skipping and rewriting, no measurement
  is taken twice beyond the one a kill interrupts.
* `CausalUnlessAllEvicted`: the causal mask is finite, so a query that lost every key
  up to its own attends to later ones instead of none.  The property says which
  queries that can happen to: without sink tokens, outside the recent window, and
  no more of the first ones than the evicted share.
* `RowsUnderTheirHeader`: two jobs may both find the file missing, and both write a
  header.  Only lanes that run side by side can: no lane does it twice, and no
  job that a script or a reboot put after another adds a header to that one's.
* `Finishes`: a reused pid delays the script, it does not stop it.

### Where code and comments disagree

* **Two devices** (`WrapperDevices`): `_get_or_create_cache` replaces the shared
  cache when the device of the calling layer differs, so a model split over
  devices loses what the layers before wrote.
* **int8 scales in decode** (`BaseFreshPage`): a page allocated by a decode step
  has a master of 0 and reads as zeros.
* **A rotation that stays** (`HarnessRotation`): `eval_rotation_confirm` measures
  `base_int3` of the second sequence length with the rotation that the CARE-KV arm
  of the first left in the environment.

Seen while modelling, without a run of their own.  In the library:

* a batch without `use_cache`: only the branch for one sequence resets
  (`llama_patch.py:228`); a batch appends the whole prompt again at each call;
* a one-token prompt after a generation that was not reset, and a second batch
  after a first, are taken for decode steps; a further turn with several tokens
  drops the first turn.  `LlamaWrapper` makes the reset the callers' duty there;
* absolute read budgets with a ratio of 0 correct a prefill but never a decode step
  (`attention.py:1025` looks at the ratio);
* `randrot_style` and `blockgtq_style` write the side buffer, decode attention
  reads the code buffer (`attention.py:997`); `blockgtq_style` raises in every
  decode step anyway, because the dispatch gets no layer and head
  (`layer.py:1070`), after the page has been allocated;
* the arena under absolute budgets counts each slot twice, which `cache.py:503`
  calls the worst case.  It covers the page that is stored twice and what rounding
  adds to a layer from three pages on.  With one or two pages it need not: three
  layers, one page, sensitivities 0, 1, 1 and a budget of 1 may store 8 slots in 6.
  The least size of 64 slots hides it;
* `CAREKV_STORE_K_FRACTION` or `..._V_FRACTION` above 1, and `joint` on a page
  without K candidates, make the estimator count less than a page takes;
* with the default ratio the arena is 0.4 slots per page while one slot per kind
  and page is the floor (`cache.py:507`);
* the batched correction reads other counts than `route` under `k_first`,
  `adaptive`, and `joint` with one budget 0 (`attention.py:856`), though
  `layer.py:534-537` says it handles every policy; with a pre-filter smaller than
  the K budget it reads masked slots (`attention.py:869`).  `VectorizedMirrorsRoute`
  is stated for what both implement;
* residuals are taken against raw scales while decode reads int8 scales;
* under `u_shaped` a middle layer with one slot is rounded to zero, which the
  comment at `residual_store.py:387-389` means to prevent;
* `cache.py:259-260` says a budget override of `None` or 0 falls back to the
  legacy ratio; a ratio override of 0 means 0;
* `vdom_optimized` under `joint` may still pick a K candidate, and `alloc_k_slot`
  raises, though the message at `cache.py:550` tells the user to set `KIND=v` and
  `STORE_ABS_K=0`, which does not exclude it;
* 4-bit residuals with an odd `page_size * k_channel_group`: the packing rounds the
  bytes up, the slot rounds them down, and the write raises; a V block of an odd
  `v_token_block` and an odd head size would too, but heads have an even size;
* `residual_bits` other than 4 and 8 are packed as 4 but sized by their bits;
* the estimator ignores absolute budgets, the floor per kind, the lifting of
  layers, pages that are stored twice, and counts 4 bits per residual value;
* the eval-mode correction corrects at least `min_residuals` keys at ratio 0; an
  unknown prefill mode raises only after the cache has been written; mixed
  precision is ignored under `uniform` and replaces a pre-RoPE override; low rank
  and eviction act on the attention of the prompt only, decode sees all rows;
  eviction without sink tokens may leave a query later keys only
  (`CausalUnlessAllEvicted` says which);
* `layer.py:562-585`, `allocate_impact_budget` and
  `attention_output_residual_scores` are not reached by any caller.

In the drivers and scripts:

* `eval_combined_vs_turbo` and `eval_rotation_confirm` never compute deltas between
  rows of the same start (their look-ups compare numbers with texts);
  `eval_gqa_scaling` has no reference after resuming past its fp16 arm;
* `eval_longctx_ppl.py:202` prints global counters for every arm;
* `eval_longbench_real` and `eval_longbench_subset` do not save after a model that
  fails to load, and take the header from the first row; `bench_latency` and
  `cmd_memory_pareto` raise when rows with different columns meet, and leave part
  of the table;
* a start of `eval_longbench_real` that measures nothing leaves the CSV of an
  earlier start, whose rows may show measurements this start did not get.  The
  proof of `NoArmLost` found it; it takes more failing arms than the run has;
* `sweep_bgtq_config` gives a configuration that failed a perplexity of 0, which it
  then prints as the best, and divides by zero when the reference failed;
* `eval_longbench_subset` scores failed generations 0 and calls the row real;
* in `eval_downstream_mc` error rows count as done and set-up errors pile up;
* the ladder: two jobs that find the file missing may both write a header; a row
  of a failed arm makes every later start skip the model; the orphans
  `improved_ladder_fine_gpu0123.sh` polls are never measured again when a reboot
  killed them; `ladder_n32.sh` waits for a word in a log that a failed job never
  writes.

## 4. Proofs

Eight modules; the 42 theorems listed in `PROJECT.json` state 39 of the 40 properties
the runs check and three facts beside them, each for every value of the constants
that the named assumptions allow.  Each module has lemmas about the operators, an inductive invariant with one
step per action, and a last step that combines them.

Where a theorem has a hypothesis beyond the assumptions on the constants, it is one
the code needs:

| theorem | hypothesis | why |
|---|---|---|
| `Attends`, `Holds`, `LengthsAgree`, `KeepsCaches`, `WrapperKeepsContext` | layers on one device; batches use the cache | `WrapperDevices` refutes the first; the code has no reset for the second |
| `ReadsAreWritten` | a quantizer that writes the side buffer is read from there | `attention.py:997` reads another buffer for `randrot_style` |
| `SlotsRestoreRows` | the head size is even | the rotary embedding turns the two halves of a head |
| `ArmsIndependent` | the driver's table is `Isolated` | `HarnessRotation` refutes it otherwise; TLC evaluates it on the tables of run `Harness` and, negated, on that of `HarnessRotation` |
| `SizedCacheKeepsBudget`, `ArenasNeverDry` | `Sized`: arenas and page budgets are those the code computes | with others the cache is another program; TLC evaluates it on run `PagedJoint` |

The properties themselves carry conditions of the same kind, as their comments say:
`ArenaSuffices` is about three pages or more, `EstimateCoversPages` about budgets
that no floor lifts, `VectorizedMirrorsRoute` about what both paths implement.  The
theorems about `Ladder` assume of a script what the repository's scripts do
(`ArrangedAssumption`: each model in one lane, lanes that need the same card in
order, every lane waited for) and of an old file that one writer wrote it
(`FilesAssumption`); TLC evaluates both on the nine scripts and three files of the run.

**`CommonLemmas`.**  The induction theorems of the library take a predicate, which
the provers cannot instantiate.  Every set of natural numbers has a least member
(`LeastMember`), and with a set in the place of the predicate that is induction
(`UpTo`, `SetInduction`).  On it rest the lemmas that take a fold apart: that
`FlattenSeq` puts element `t` of part `p` where the lengths before it say
(`FlattenLaid`), and that a sum over a finite set has the value its recursion gives
(`SumSolved`), is linear and monotone, and splits over a union.  Rounding is within
half of the quotient and monotone (`RoundNear`, `RoundMonotone`).

**`PagedCacheProofs`**, for every number of layers, heads, pages, rows and groups, every
budget and every size of the arenas.

* `TypeCorrect`.  `TypeOK` is not inductive: nothing in it bounds the page counter of
  a prefill.  `TypeInv` adds `InPrompt`: the page of a running prefill begins inside
  the prompt, and a decode step has a token to write.
* `SlotsNeverShared`, `ResidualsStayRight`.  The arenas of K and V have the same
  shape, so the lemmas are about one arena with an arbitrary set of groups and are
  used twice.  `SlotInv` adds `MetaBehindRows`: metadata speaks only of rows that are
  written, so a row appended later is not one a residual was computed from.  The
  allocation that fails half-way is a case of its own.
* `OnlyLastOpen`, `PositionsExact`, `RouterAligned`.  `PositionInv` says that every
  lane is in order and how many tokens each holds in each phase; in a pass the heads
  before the current one hold more than those after it.  That is what makes the
  position counted on head 0 right for all.
* `CacheKeepsContext`, the refinement: `ContextInv` says that outside a failed pass
  the rows of a lane are the tokens fed.  Each action is a step of `KVContext` or a
  stutter (`ContextStep`); what a lane reads before and after is compared with
  `FlattenLaid`.
* `FormsAgree`, `CorrectionsLand`: from `PositionInv`, the three implementations put
  a residual row at the same position, the one its token was fed at.
* `LeaksBounded`: `LossInv` says of every lost slot which page lost it.  A page loses
  slots only when it is stored again, which only the page a prompt ended in is.
* `SizedCacheKeepsBudget`, the refinement of `StoreBudget`: `ReopenInv` says which lanes
  may still store a page again - at most the last page of a lane has metadata and room
  left, and it is the one its prompt ended in - so a page that fills is either the next
  one or the second storing of that page.  Every selection `process_page` can make is
  one of `Takes`, also when the free list ends in the middle of it.
* `ArenasNeverDry`: `StoreBudgetProofs` instantiated with the configuration of the
  cache, whose theorem `ArenasSuffice` the refinement carries to the pages and free
  lists themselves.

**`LlamaWrapperProofs`.**  The invariant says what a layer that has run leaves behind
(`LayerDone`) and that a pass is one of two kinds: `FreshPass`, whose call carries the
whole sequence and whose remaining layers find an empty part of the cache, and
`StepPass`, whose call carries the newest token and whose remaining layers hold
everything before it.  An aborted pass, a reset and a new generation each lead back
to the first kind.  From it each layer of `WrapperKeepsContext` is a step of `KVContext`:
a layer that stores the newest token lets its log catch up, one that replaces its part
of the cache starts a log anew, and in a batch each row does so for itself.

**`ResidualRouterProofs`**, for every set of configurations, every natural scores and every
number of slots.  Each property is about a query and what is read for it, so each
invariant adds that the query is one of `Queries`; the work is in the operators.

* `BudgetsRespected`: `Beats` is a strict total order on the slots of a query, so
  `TopN(q, S, n)` has at most `n` members; budgets are natural numbers that no
  pre-filter raises; each policy divides, merges or shares the two without exceeding
  their sum.
* `ReadsAreBest`: the first of a ranking beat the rest, thresholds cut a ranking from
  below, and each policy's selection is made of such sets.
* `ShortCircuitExact`: where no read budget is set, ratios, overrides, multipliers and
  floors all come to budgets of zero, with which both implementations may read nothing.
* `BatchedMirrorsRouter`: the first `n` of a ranking are `n` slots or all there are, so
  the selection of `route` is one of the sets `topk` may return.
* `BudgetsMonotone`: a larger budget gives every policy more places, by `RoundMonotone`;
  what a selection gains ranks below what it has, so that the best score, the threshold
  relative to it and the floor stay; under `k_first` K gains at most what its budget does.

**`LayerPrefillProofs`.**  `PrefillInv` says which heads the page loop has written and from
which base, which keys each query keeps, and which queries have their correction.
`SameBaseEverywhere` follows override by override.
`CausalAfterEviction` has no condition on sink tokens: where a query keeps no key up to
its own, the whole kept share lies behind it (`LosersComeFirst`), which bounds how many
such queries there are.  `OwnCorrections` needs that the
flat row of a batch determines head and query, chunk by chunk.

**`StoreBudgetProofs`.**  The multipliers of a layer policy share a denominator and their
numerators add up to the number of layers times it (`MultipliersBalance`), so the
rounded budgets add up to within half a slot a layer (`PoliciesKeepTotal`).  The slots
in use never exceed the charge: the times each lane has stored a page times what its
layer admits.  A page that runs an arena dry keeps what it took, less than its layer
admits, and ends the charging.  `ArenasSuffice` compares the charge with the arena; the
margin is that `P` pages are stored at most `P + 1` times and `3 (P + 1) <= 4 P` from
three pages on.  `EstimateCovers` compares the charge with the estimate.

**`BaseStorageProofs`.**  A word of packed codes gives back its fields, for each of the three
widths (`UnpackPackGroup`), hence a row its codes (`UnpackPackRow`).  `BaseInv` says that
the pages before the last are full and that at the place of token `i` stand the packed
codes and the stored scale of row `i`; `ReadsAreWritten`, `ScalesNear` and the action
property `ReadsStay` follow with `FlattenLaid`.  A prefill's scales are at most the
master and an appended one is clamped, so an int8 scale is within half a master step.
`SlotsRestoreRows` is about `ResidualSlots`: every channel of every row has its element
of one K block and of one V block (`KPlace`, `VPlace`), a code is within half a step
of its value because the peak of its block bounds it (`CodeNear`), and a payload has
the size of its slot unless the block is odd.

**`HarnessProofs`**, for every table of drivers, every script, and every number of failures.

* `EvalArms`: `OrderInv` says that a table holds rows of the first jobs in order and
  where the next one goes; `SyncInv` what the file is worth beside the rows in memory,
  `CountInv` that rows, kills and errors account for every measurement, `SavedInv` that
  a measurement once on disk is in the file or about to be, `DeltaInv` that the points
  that are over have their deltas.
* `ArmsIndependent`: `EnvInv` says what each variable may hold before an arm (`LeftBy`):
  what the driver started with, nothing because it was popped, or what an earlier arm
  wrote and nobody popped; and that during a measurement model and adapter are those
  of the arm.  `Isolated` asks of each variable a measured arm depends on that the arm
  writes it or the driver pops it before; or the driver pops it after each arm, where
  that gives what it started with; or the arms that may have run before write what it
  started with.  Then what an arm sees is what it would see alone, also after an arm
  that ran out of memory.
* `Ladder`: `HeaderInv` adds what a job knows after its header test, `HeadersInv` that a
  lane about to add a header runs beside every lane that added one, `PlaceInv` says
  where main shell and lanes stand and which lanes the shell has waited for, `RowsInv`
  that a lane that measures or writes finds no row of its model, `SettledInv` that the models
  before a lane's next one are settled.

Only model-checked: `Finishes`.  Liveness under fairness, and `ENABLED`, are out of the
prover's reach.

## 5. Not modelled, and why

* The values: softmax, RoPE, rotations, scores, the arithmetic of the base
  quantizers on reals.  The properties are about which data meet, not about what
  comes out; `BasePage` and `ResidualSlots` keep the integers, where rounding and
  packing can go wrong.
* `free_k_slot`, `free_v_slot` (no caller), `read_base` of a single page (not on the
  decode path), sketches (data).
* Parsing of environment variables, byte totals of the estimator, calibration and
  perplexity helpers.
* Drivers: `eval_kstab_screening`, `eval_phase11b_*`, `eval_phase11c_*` and
  `eval_kscore_ablation` import modules that are not in the repository;
  `bench_prefill_decode_perf`, `profile_*`, `debug_*` and `diag_*` (but the router
  bottleneck) measure time or print tensors of one model; `eval_downstream_mc`
  sets a model up once for several tasks, which `EvalArms` does not;
  `eval_per_layer_importance` has no arms; `run_multigpu_eval.py` starts jobs with
  files of their own and waits for all; the `eval_*` and `run_*` programs at the top
  level measure one setting; `make_*`, `plot_*` and
  `summarize_*` read tables; of `paper_eval` the memory, generation and figure
  commands and of `eval_7b_validation` the merge of arms compute no arm.  The
  "all" mode of `eval_budget_experiments` is modelled table by table.
* `openllama_sharded.sh`, which looks for its row once and polls afterwards, and the
  scripts without a skip test (`serial_ladder`, `ladder_n32`,
  `improved_full_ladder`, `improved_remaining`, `run_*`).
* CUDA streams: kernels are ordered as issued, and the library starts no threads.
* Recorded results, figures, tests.

## 6. Plan

Done: the core (`PagedCache` with `KVContext`, `LlamaWrapper`, `ResidualRouter`,
`BasePage`, `StoreBudget`), the rest of the prefill, the correction kernels, the
residual codecs, the estimator, adapters and drivers, the ladder with its
liveness, and the theorems of section 4.

Left:

1. `LlamaWrapper` and `PagedCache` side by side in one module.  Both implement
   `KVContext`, which says that the wrapper may see the cache as logs; the composition
   would say so of one behaviour;
2. the performance driver `bench_prefill_decode_perf`, whose grid has a guard for
   methods that failed that a resumed run forgets.

Stays with TLC: liveness.
