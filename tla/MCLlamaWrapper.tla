---------------------------- MODULE MCLlamaWrapper ----------------------------
(* Small instances of LlamaWrapper for TLC. *)
EXTENDS LlamaWrapper

CONSTANTS cuda0, cuda1

OneDevice  == [l \in 0 .. NumLayers - 1 |-> cuda0]
TwoDevices == [l \in 0 .. NumLayers - 1 |-> IF l = 0 THEN cuda0 ELSE cuda1]
OneRow      == {<<1, TRUE, TRUE>>}
AllUses     == ({1} \X BOOLEAN \X BOOLEAN) \cup {<<2, TRUE, TRUE>>}
=============================================================================
