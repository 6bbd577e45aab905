---------------------------- MODULE MCLoadedModel ----------------------------
(* Every device on every machine, and a good checkpoint with one thing     *)
(* changed at a time, or with layers of its own.                           *)
EXTENDS LoadedModel

Full == "full_attention"
Sliding == "sliding_attention"

\* Weights that are just what the configuration asks for.
Fitting(c) == [weights |-> Parameters(c)] @@ c

GoodEncoder ==
  [family |-> "modernbert", activation |-> "gelu", hidden |-> 4, heads |-> 2, count |-> 3,
   every |-> 3, named |-> FALSE, layers |-> << >>, window |-> 3, scaledRope |-> FALSE]
Base ==
  [temperatures |-> << 1, 2, 1 >>, tokenizerFiles |-> TRUE,
   specialTokens |-> {"cls_token", "sep_token", "pad_token", "mask_token"},
   encoder |-> GoodEncoder, headLayers |-> 1, actCosts |-> 1, amp |-> "bf16"]
Good == Fitting(Base)

Named(kinds) == [GoodEncoder EXCEPT !.named = TRUE, !.layers = kinds, !.count = Len(kinds)]
Networks ==
  {Fitting([Base EXCEPT !.encoder = Named(kinds), !.headLayers = h]) :
     kinds \in UNION {[1 .. n -> Kinds] : n \in 0 .. 3}, h \in 0 .. 2}
  \cup {Fitting([Base EXCEPT !.encoder.every = n, !.encoder.window = w]) :
          n \in 1 .. 2, w \in {-2, -1, 0, 2, 4}}
  \cup {Fitting([Base EXCEPT !.encoder = [Named(kinds) EXCEPT !.window = -1]]) :
          kinds \in [1 .. 2 -> Kinds]}

Broken ==
  {[Good EXCEPT !.temperatures = t] : t \in {<< 1, 1 >>, << 1, 0, 1 >>}}
  \cup {[Good EXCEPT !.tokenizerFiles = FALSE], [Good EXCEPT !.specialTokens = {"cls_token"}]}
  \cup {Fitting([Base EXCEPT !.encoder = e]) :
          e \in {[GoodEncoder EXCEPT !.family = "bert"], [GoodEncoder EXCEPT !.heads = 0],
                 [GoodEncoder EXCEPT !.heads = 3], [GoodEncoder EXCEPT !.every = 0],
                 [GoodEncoder EXCEPT !.named = TRUE], [GoodEncoder EXCEPT !.scaledRope = TRUE],
                 Named(<< Full, "other" >>), [GoodEncoder EXCEPT !.count = -1],
                 [GoodEncoder EXCEPT !.hidden = 129, !.heads = 3]}}
  \cup {[Good EXCEPT !.headLayers = h] : h \in {-1, 2}}
  \cup {[Good EXCEPT !.weights.encoder = << 4, 4 >>], [Good EXCEPT !.weights.scorer = << 4, 4 >>],
        [Good EXCEPT !.weights.head = << >>], [Good EXCEPT !.actCosts = 2]}

OtherAmp == [Good EXCEPT !.amp = "none"]
AllCheckpoints == Networks \cup Broken \cup {Good, OtherAmp}

Wish(device, dtype) == [device |-> device, dtype |-> dtype, batchSize |-> 16, padToMultiple |-> 8]
Plain == Wish(AutoDevice, "auto")
AllWishes ==
  {Wish(d, t) : d \in {AutoDevice, Cpu, Cuda(0), Cuda(1), [type |-> "mps", index |-> 0]},
                t \in {"auto", "float32", "float16", "bfloat16", "other"}}
  \cup {[Plain EXCEPT !.batchSize = 0], [Plain EXCEPT !.padToMultiple = 0]}

\* No GPU, an old or a new one, two of a kind, and two of different kinds.
AllMachines == {<< >>, << 7 >>, << 9 >>, << 9, 9 >>, << 9, 7 >>}

Row(tokens, markers) == [tokens |-> tokens, markers |-> markers]
AllBatches ==
  {[width |-> 6, rows |-> << Row(6, << 3, 5 >>), Row(2, << 2 >>) >>],
   [width |-> 8, rows |-> << Row(1, << 1 >>), Row(5, << 2, 4 >>) >>]}

\* Devices matter to a good checkpoint only, and checkpoints are told apart on the CPU.
Paired ==
  \/ checkpoint \in {Good, OtherAmp}
  \/ wish = Plain /\ machine = << >>
MCInit == Init /\ Paired
MCSpec == MCInit /\ [][Next]_loadedVars
=============================================================================
