------------------------------ MODULE KVContext ------------------------------
(***************************************************************************)
(* What a KV cache promises to the transformer that uses it: every lane    *)
(* (one per layer and KV head) holds the tokens the model has been fed, in *)
(* order and without holes.  A lane may lag behind while a forward pass is *)
(* running, and a pass may be abandoned, but a new token is only fed when  *)
(* every lane has caught up.                                               *)
(***************************************************************************)
EXTENDS Naturals, Sequences

CONSTANTS Lane,     \* the (layer, KV head) pairs
          Token     \* the tokens the model can be fed

VARIABLES context,  \* the tokens fed since the last prefill began
          seen      \* seen[c]: what lane c returns when it is read

vars == <<context, seen>>

TypeOK == /\ context \in Seq(Token)
          /\ seen \in [Lane -> Seq(Token)]

Init == /\ context = <<>>
        /\ seen = [c \in Lane |-> <<>>]

(* A prefill replaces the context and empties every lane. *)
NewPrompt == /\ context' \in Seq(Token) \ {<<>>}
             /\ seen' = [c \in Lane |-> <<>>]

(* The context is dropped and every lane emptied. *)
Reset == /\ context' = <<>>
         /\ seen' = [c \in Lane |-> <<>>]

(* One generated token extends the context once all lanes hold all of it. *)
NextToken == /\ context # <<>>
             /\ \A c \in Lane : seen[c] = context
             /\ \E tok \in Token : context' = Append(context, tok)
             /\ UNCHANGED seen

(* One lane takes in the next few tokens of the context. *)
Absorb(c) == /\ Len(seen[c]) < Len(context)
             /\ \E n \in Len(seen[c]) + 1 .. Len(context) :
                   seen' = [seen EXCEPT ![c] = SubSeq(context, 1, n)]
             /\ UNCHANGED context

Next == NewPrompt \/ Reset \/ NextToken \/ \E c \in Lane : Absorb(c)

Spec == Init /\ [][Next]_vars
=============================================================================
