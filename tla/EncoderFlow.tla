----------------------------- MODULE EncoderFlow -----------------------------
(***************************************************************************)
(* Which tokens of a batch the outputs of the model depend on (model.py).  *)
(*                                                                         *)
(* A forward pass is a sequence of layers.  In each, a token of a row (the *)
(* query) takes in other tokens of its row (the keys), those that the      *)
(* layer's mask lets it see; all else in a layer is done token by token.   *)
(* So the numbers are left out, and what is kept of a hidden vector is     *)
(* the set of positions whose input token it depends on.                   *)
(***************************************************************************)
EXTENDS Integers, Sequences

CONSTANT
  Batches    \* batches: the length they are padded to, and the rows' tokens and markers

Kinds == {"full_attention", "sliding_attention"}

ASSUME FlowAssumption ==
  \A b \in Batches :
    /\ b.width \in Nat
    /\ b.rows \in Seq([tokens : 1 .. b.width, markers : Seq(1 .. b.width)])
    /\ \A r \in DOMAIN b.rows : \A m \in DOMAIN b.rows[r].markers :
         b.rows[r].markers[m] <= b.rows[r].tokens

VARIABLES
  net,       \* the network: kinds of the encoder's layers, half window, head layers
  batch,     \* what forward() is called with
  done,      \* layers that have run, those of the head included
  reach,     \* for each row and position: the positions that it depends on
  logits     \* for each row: what its logits depend on, once they are there

flowVars == <<net, batch, done, reach, logits>>

Positions == 1 .. batch.width
Valid(r) == 1 .. batch.rows[r].tokens
Encoder == Len(net.layers)
Depth == Encoder + net.head

\* Embeddings.forward().
Embedded(b) == [r \in DOMAIN b.rows |-> [p \in 1 .. b.width |-> {p}]]

----------------------------------------------------------------------------
\* attention_masks(): padded keys are never seen; the window bounds the queries of
\* sliding layers, but padded queries see every valid key.
Near(p, k) == p - k <= net.half /\ k - p <= net.half
WindowOnly(r, p) == {k \in Valid(r) : Near(p, k)}          \* mutant: padded queries too
PaddingSeen(r, p) == {k \in Positions : Near(p, k)}        \* mutant: padded keys are seen
LocalKeys(r, p) == {k \in Valid(r) : Near(p, k) \/ p \notin Valid(r)}
FullKeys(r, p) == Valid(r)
Keys(kind, r, p) == IF kind = "full_attention" THEN FullKeys(r, p) ELSE LocalKeys(r, p)

\* A key is masked by the least finite number, not by infinity: where no key is left, the
\* softmax spreads its weight over all of them, padding included.
Attended(kind, r, p) == IF Keys(kind, r, p) = {} THEN Positions ELSE Keys(kind, r, p)

\* The layers of the head see every valid key.
KindOf(layer) == IF layer <= Encoder THEN net.layers[layer] ELSE "full_attention"

\* EncoderLayer.forward(), and a layer of DecisionHead.forward(): x + attention(x).
Mixed(kind) ==
  [r \in DOMAIN reach |->
     [p \in Positions |-> reach[r][p] \cup UNION {reach[r][k] : k \in Attended(kind, r, p)}]]

RunLayer ==
  /\ done < Encoder
  /\ reach' = Mixed(net.layers[done + 1])
  /\ done' = done + 1
  /\ UNCHANGED <<net, batch, logits>>

RunHeadLayer ==
  /\ Encoder <= done /\ done < Depth
  /\ reach' = Mixed("full_attention")
  /\ done' = done + 1
  /\ UNCHANGED <<net, batch, logits>>

\* DecisionModel.forward(): the logits are read at the markers; those of padded slots
\* are constants.
ReadMarkers ==
  /\ done = Depth
  /\ logits = << >>
  /\ logits' = [r \in DOMAIN batch.rows |->
                  [m \in DOMAIN batch.rows[r].markers |-> reach[r][batch.rows[r].markers[m]]]]
  /\ UNCHANGED <<net, batch, done, reach>>

FlowNext == RunLayer \/ RunHeadLayer \/ ReadMarkers

----------------------------------------------------------------------------
Spread(r, p) == {k \in Valid(r) : p - k <= net.half * done /\ k - p <= net.half * done}
Global == \E i \in 1 .. done : KindOf(i) = "full_attention"

\* No checkpoint is refused for a negative window, in which no position is near another.
Leaks == net.half < 0 /\ \E i \in 1 .. done : KindOf(i) # "full_attention"

\* A token depends on the tokens of its row and never on padding: after one full layer on
\* all of them, before that on exactly those within as many half windows as layers have
\* run (model.py:116).  Only a sliding layer of a negative window lets padding in.
ReachIsExact ==
  \A r \in DOMAIN batch.rows : \A p \in Valid(r) :
    reach[r][p] = IF Leaks THEN Positions ELSE IF Global THEN Valid(r) ELSE Spread(r, p)

\* Every query, padded ones included, has a key to see in every layer, so that no row of
\* a softmax is masked throughout (model.py:114): but for the valid queries of a sliding
\* layer of a negative window, which have none.
EmptyOnlyIfNegative ==
  done < Depth =>
    \A r \in DOMAIN batch.rows : \A p \in Positions :
      Keys(KindOf(done + 1), r, p) = {} <=>
        net.half < 0 /\ KindOf(done + 1) # "full_attention" /\ p \in Valid(r)
=============================================================================
