------------------------------ MODULE SizedCache ------------------------------
(***************************************************************************)
(* The paged cache with the arenas and the page budgets the code computes  *)
(* for it: CAREKVCache sizes the arenas when it is built (cache.py),       *)
(* process_page computes the budget of each page when it stores it         *)
(* (residual_store.py).  StoreBudget counts slots without knowing pages,   *)
(* free lists or the order of a pass; here the cache itself is shown to    *)
(* take its slots the way StoreBudget says.                                *)
(***************************************************************************)
EXTENDS PagedCache

CONSTANTS Config,            \* the configuration, see StoreBudget
          Den, MinSlots, Sensitivity(_, _)

(* Whether the page a prompt ended in has been stored again, per lane: the *)
(* cache does not remember it.                                             *)
VARIABLE reopened

(* Pages with metadata. *)
PagesStored(c) == Cardinality({p \in Pages : HasMeta(meta_table[c][p])})

Budget == INSTANCE StoreBudget WITH
            Configs <- {Config}, cfg <- Config,
            pages <- [c \in Lanes |-> PagesStored(c)],
            used_k <- KArena - Len(k_free), used_v <- VArena - Len(v_free),
            phase <- IF call.phase = "slots_full" THEN "slots_full" ELSE "running"

(* The budget of a page, nothing where process_page returns early. *)
Admitted(budget) == IF Budget!StoresNothing(Config) THEN 0 ELSE budget

(* The constants of the cache are those the code computes. *)
Sized ==
  /\ Config \in Budget!ConfigShape
  /\ Den \in Nat \ {0} /\ MinSlots \in Nat
  /\ \A l \in Layers : Sensitivity(NumLayers, l) \in Nat
  /\ NumLayers = Config.L
  /\ Joint <=> Config.store_policy = "joint"
  /\ KArena = Budget!k_slots(Config) /\ VArena = Budget!max_slots(Config)
  /\ KBudget = [l \in Layers |-> Admitted(Budget!k_budget(Config, l))]
  /\ VBudget = [l \in Layers |-> Admitted(Budget!v_budget(Config, l))]
  /\ JointBudget = [l \in Layers |-> Admitted(Budget!joint_budget(Config, l))]

(* A page that has metadata gets new metadata: it was partial and is full. *)
StoredAgain(c) ==
  \E p \in Pages : HasMeta(meta_table[c][p]) /\ meta_table'[c][p] # meta_table[c][p]

SizedInit == Init /\ reopened = [c \in Lanes |-> FALSE]

SizedNext ==
  \/ BeginPrefill /\ reopened' = [c \in Lanes |-> FALSE]
  \/ /\ PrefillPage \/ PrefillNoSlot \/ BeginDecode \/ DecodeHead \/ DecodeNoSlot \/ CacheFull
     /\ reopened' = [c \in Lanes |-> reopened[c] \/ StoredAgain(c)]

SizedSpec == SizedInit /\ [][SizedNext]_<<vars, reopened>>

-------------------------------------------------------------------------------
(* Properties *)

(* Whatever pages the prompts and decode steps of a sequence store, in any  *)
(* interleaving of layers and heads and also where an allocation fails half *)
(* way through a page, the cache takes slots as StoreBudget lets it: no     *)
(* more for a page than the layer's budget, no page stored a third time,    *)
(* and a failed allocation only when an arena really is too small.          *)
ImplementsBudget == Budget!Spec

(* Under absolute budgets a cache of at least three pages never raises "no  *)
(* slot left": every prompt and every decode step that fits the pages has   *)
(* the slots for its residuals.                                             *)
ArenaNeverDry ==
  /\ MaxPages >= 3
  /\ Config.mode = "absolute"
  /\ Config.vdom_optimized => Budget!VOnly(Config)
  => call.phase # "slots_full"
=============================================================================
