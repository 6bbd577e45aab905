--------------------------- MODULE LoadedModelProofs ---------------------------
(***************************************************************************)
(* What the outputs of a loaded model depend on, proved for every network, *)
(* batch and checkpoint: all tokens of the same row once the head has run, *)
(* and padding only where the window is negative.                          *)
(***************************************************************************)
EXTENDS LoadedModel, TLAPS

\* The state of a pass that the properties rest on.
FlowInv ==
  /\ done \in Nat
  /\ Len(net.layers) \in Nat /\ net.half \in Int /\ net.head \in Nat
  /\ batch \in Batches
  /\ DOMAIN reach = DOMAIN batch.rows
  /\ \A r \in DOMAIN batch.rows : DOMAIN reach[r] = Positions
  /\ \A r \in DOMAIN batch.rows : \A p \in Positions :
       p \in reach[r][p] /\ reach[r][p] \subseteq Positions
  /\ ReachIsExact

\* Between two positions that are two windows apart lies one within each.
LEMMA Between ==
  ASSUME NEW T \in Nat, NEW p \in 1 .. T, NEW k \in 1 .. T, NEW near \in Nat, NEW far \in Nat,
         p - k <= far + near, k - p <= far + near
  PROVE  \E m \in 1 .. T : p - m <= near /\ m - p <= near /\ m - k <= far /\ k - m <= far
<1>1. CASE p - k <= near /\ k - p <= near
  <2>1. k - k <= far
    OBVIOUS
  <2> QED
    BY <1>1, <2>1
<1>2. CASE p - k > near
  <2>1. p - near \in 1 .. T
    BY <1>2
  <2>2. /\ p - (p - near) <= near /\ (p - near) - p <= near
        /\ (p - near) - k <= far /\ k - (p - near) <= far
    BY <1>2
  <2> QED
    BY <2>1, <2>2
<1>3. CASE k - p > near
  <2>1. p + near \in 1 .. T
    BY <1>3
  <2>2. /\ p - (p + near) <= near /\ (p + near) - p <= near
        /\ (p + near) - k <= far /\ k - (p + near) <= far
    BY <1>3
  <2> QED
    BY <2>1, <2>2
<1> QED
  BY <1>1, <1>2, <1>3

\* A row has tokens, and no more than its batch is wide.
LEMMA RowTyped ==
  ASSUME FlowAssumption, batch \in Batches, NEW r \in DOMAIN batch.rows
  PROVE  /\ Valid(r) \subseteq Positions
         /\ batch.rows[r].tokens \in Nat
         /\ 1 \in Valid(r)
         /\ \A m \in DOMAIN batch.rows[r].markers : batch.rows[r].markers[m] \in Valid(r)
<1> DEFINE Rows == [tokens : 1 .. batch.width, markers : Seq(1 .. batch.width)]
<1>1. batch.width \in Nat /\ batch.rows \in Seq(Rows)
  BY DEF FlowAssumption
<1>2. batch.rows[r] \in Rows
  <2> HIDE DEF Rows
  <2> QED
    BY <1>1
<1>3. batch.rows[r].tokens \in 1 .. batch.width /\ batch.rows[r].markers \in Seq(1 .. batch.width)
  BY <1>2
<1>4. \A m \in DOMAIN batch.rows[r].markers : batch.rows[r].markers[m] \in 1 .. batch.width
  <2> DEFINE Marks == batch.rows[r].markers
             Width == 1 .. batch.width
  <2>1. Marks \in Seq(Width)
    BY <1>3
  <2> HIDE DEF Marks, Width
  <2>2. \A m \in DOMAIN Marks : Marks[m] \in Width
    BY <2>1
  <2> QED
    BY <2>2 DEF Marks, Width
<1>5. ASSUME NEW m \in DOMAIN batch.rows[r].markers
      PROVE  batch.rows[r].markers[m] <= batch.rows[r].tokens
  BY DEF FlowAssumption
<1>6. Valid(r) \subseteq Positions /\ batch.rows[r].tokens \in Nat /\ 1 \in Valid(r)
  BY <1>1, <1>3 DEF Valid, Positions
<1> QED
  BY <1>1, <1>4, <1>5, <1>6 DEF Valid

\* Which queries have no key, for any window: the valid ones of a sliding layer, if the
\* window is negative.
LEMMA WhoIsBlind ==
  ASSUME FlowAssumption, batch \in Batches, net.half \in Int,
         NEW r \in DOMAIN batch.rows, NEW p \in Positions, NEW kind
  PROVE  Keys(kind, r, p) = {} <=> net.half < 0 /\ kind # "full_attention" /\ p \in Valid(r)
<1>1. 1 \in Valid(r) /\ batch.rows[r].tokens \in Nat /\ batch.width \in Nat
  BY RowTyped DEF FlowAssumption
<1>2. CASE kind = "full_attention"
  BY <1>1, <1>2 DEF Keys, FullKeys
<1>3. CASE kind # "full_attention" /\ p \notin Valid(r)
  <2>1. 1 \in Keys(kind, r, p)
    BY <1>1, <1>3 DEF Keys, LocalKeys
  <2> QED
    BY <1>3, <2>1
<1>4. CASE kind # "full_attention" /\ p \in Valid(r) /\ net.half >= 0
  <2>1. p \in Keys(kind, r, p)
    BY <1>1, <1>4 DEF Keys, LocalKeys, Near, Valid
  <2> QED
    BY <1>4, <2>1
<1>5. CASE kind # "full_attention" /\ p \in Valid(r) /\ net.half < 0
  <2>1. ASSUME NEW k \in Valid(r) PROVE ~Near(p, k)
    BY <1>1, <1>5, <2>1 DEF Near, Valid
  <2> QED
    BY <1>5, <2>1 DEF Keys, LocalKeys
<1> QED
  BY <1>2, <1>3, <1>4, <1>5

\* One layer turns exact reach into exact reach: the keys of a valid query are valid, and
\* their reach joins to that of one more window, or to the whole row; a query without keys
\* takes in every position, as does what it has reached from then on.
LEMMA MixingIsExact ==
  ASSUME NEW kind, FlowInv, reach' = Mixed(kind), done' = done + 1, UNCHANGED <<net, batch>>,
         done < Depth, kind = KindOf(done + 1), FlowAssumption
  PROVE  FlowInv'
<1> DEFINE H == net.half * done
<1>1. /\ H \in Int /\ net'.half * done' = H + net.half /\ net.half \in Int
      /\ net.half >= 0 => H \in Nat
  BY DEF FlowInv
<1> HIDE DEF H
<1>2. /\ Positions' = Positions
      /\ \A r : Valid(r)' = Valid(r)
  BY DEF Positions, Valid
<1>3. ASSUME NEW r \in DOMAIN batch.rows
      PROVE  Valid(r) \subseteq Positions /\ batch.rows[r].tokens \in Nat
  BY <1>3, RowTyped DEF FlowInv
<1>4. ASSUME NEW r \in DOMAIN batch.rows, NEW p \in Positions
      PROVE  /\ Attended(kind, r, p) \subseteq Positions
             /\ reach'[r][p] = reach[r][p] \cup UNION {reach[r][k] : k \in Attended(kind, r, p)}
             /\ p \in reach'[r][p] /\ reach'[r][p] \subseteq Positions
  <2>1. Attended(kind, r, p) \subseteq Positions
    BY <1>3 DEF Attended, Keys, FullKeys, LocalKeys
  <2>2. reach'[r][p] = reach[r][p] \cup UNION {reach[r][k] : k \in Attended(kind, r, p)}
    BY DEF Mixed, FlowInv
  <2>3. p \in reach[r][p] /\ \A k \in Positions : reach[r][k] \subseteq Positions
    BY DEF FlowInv
  <2> QED
    BY <2>1, <2>2, <2>3
<1>5. Global' <=> Global \/ kind = "full_attention"
  BY DEF Global, FlowInv, KindOf, Encoder
<1>6. Leaks' <=> Leaks \/ (net.half < 0 /\ kind # "full_attention")
  BY DEF Leaks, FlowInv, KindOf, Encoder
<1>7. SUFFICES ASSUME NEW r \in DOMAIN batch.rows, NEW p \in Valid(r)
               PROVE  reach'[r][p] =
                        IF Leaks' THEN Positions
                        ELSE IF Global' THEN Valid(r)
                        ELSE {k \in Valid(r) : p - k <= H + net.half /\ k - p <= H + net.half}
  <2>1. DOMAIN reach' = DOMAIN batch.rows /\ \A r \in DOMAIN batch.rows : DOMAIN reach'[r] = Positions
    BY DEF Mixed, FlowInv
  <2>2. \A r, p : Spread(r, p)' = {k \in Valid(r) : p - k <= H + net.half /\ k - p <= H + net.half}
    BY <1>1, <1>2 DEF Spread
  <2>3. \A r \in DOMAIN batch.rows : \A p \in Valid(r) :
          reach'[r][p] = IF Leaks' THEN Positions ELSE IF Global' THEN Valid(r) ELSE Spread(r, p)'
    BY <1>7, <2>2
  <2>4. ReachIsExact'
    BY <1>2, <2>3 DEF ReachIsExact
  <2> QED
    BY <1>2, <1>4, <2>1, <2>4 DEF FlowInv
<1>8. p \in Positions /\ Valid(r) \subseteq Positions
  BY <1>3
<1>9. \A k \in Valid(r) :
        reach[r][k] = IF Leaks THEN Positions ELSE IF Global THEN Valid(r) ELSE Spread(r, k)
  BY DEF FlowInv, ReachIsExact
<1>10. \A k \in Positions : k \in reach[r][k]
  BY DEF FlowInv
<1>11. /\ reach'[r][p] = reach[r][p] \cup UNION {reach[r][k] : k \in Attended(kind, r, p)}
       /\ reach'[r][p] \subseteq Positions
  BY <1>4, <1>8
<1>12. CASE Leaks
  <2>1. Leaks' /\ reach[r][p] = Positions
    BY <1>6, <1>9, <1>12
  <2>2. Positions \subseteq reach'[r][p]
    BY <1>11, <2>1
  <2> QED
    BY <1>11, <2>1, <2>2
<1>13. CASE ~Leaks /\ net.half < 0 /\ kind # "full_attention"
  <2>1. Attended(kind, r, p) = Positions
    BY <1>8, <1>13, WhoIsBlind DEF Attended, FlowInv
  <2>2. Positions \subseteq reach'[r][p]
    BY <1>10, <1>11, <2>1
  <2> QED
    BY <1>6, <1>13, <1>11, <2>2
<1>14. CASE ~Leaks'
  <2>1. ~Leaks /\ (net.half >= 0 \/ kind = "full_attention")
    BY <1>1, <1>6, <1>14
  <2>2. Attended(kind, r, p) = Keys(kind, r, p)
    <3>1. Keys(kind, r, p) = {} <=> net.half < 0 /\ kind # "full_attention" /\ p \in Valid(r)
      BY <1>1, <1>8, WhoIsBlind DEF FlowInv
    <3>2. ~(net.half < 0 /\ kind # "full_attention")
      BY <1>1, <2>1
    <3> QED
      BY <3>1, <3>2 DEF Attended
  <2>3. Keys(kind, r, p) \subseteq Valid(r)
    BY DEF Keys, FullKeys, LocalKeys
  <2>4. CASE Global
    <3>1. reach[r][p] = Valid(r) /\ \A k \in Valid(r) : reach[r][k] = Valid(r)
      BY <1>9, <2>1, <2>4
    <3>2. reach'[r][p] = Valid(r)
      BY <1>11, <2>2, <2>3, <3>1
    <3> QED
      BY <1>5, <1>14, <2>4, <3>2
  <2>5. CASE ~Global /\ kind = "full_attention"
    <3>1. Keys(kind, r, p) = Valid(r)
      BY <2>5 DEF Keys, FullKeys
    <3>2. \A k \in Valid(r) : reach[r][k] \subseteq Valid(r)
      BY <1>9, <2>1, <2>5 DEF Spread
    <3>3. reach'[r][p] = Valid(r)
      <4>1. Attended(kind, r, p) = Valid(r)
        BY <2>2, <3>1
      <4>2. reach'[r][p] \subseteq Valid(r)
        BY <1>11, <3>2, <4>1
      <4>3. Valid(r) \subseteq reach'[r][p]
        BY <1>8, <1>10, <1>11, <4>1
      <4> QED
        BY <4>2, <4>3
    <3> QED
      BY <1>5, <1>14, <2>5, <3>3
  <2>6. CASE ~Global /\ kind # "full_attention"
    <3>1. Keys(kind, r, p) = {k \in Valid(r) : Near(p, k)} /\ net.half \in Nat /\ H \in Nat
      BY <1>1, <2>1, <2>6 DEF Keys, LocalKeys
    <3>2. \A k \in Valid(r) : reach[r][k] = {j \in Valid(r) : k - j <= H /\ j - k <= H}
      BY <1>9, <2>1, <2>6 DEF Spread, H
    <3>3. ASSUME NEW j \in reach'[r][p]
          PROVE  j \in Valid(r) /\ p - j <= H + net.half /\ j - p <= H + net.half
      <4>1. PICK k \in Valid(r) : (k = p \/ Near(p, k)) /\ j \in reach[r][k]
        BY <1>11, <2>2, <3>1
      <4>2. j \in Valid(r) /\ k - j <= H /\ j - k <= H
        BY <3>2, <4>1
      <4> QED
        BY <1>3, <3>1, <4>1, <4>2 DEF Near, Valid
    <3>4. ASSUME NEW j \in Valid(r), p - j <= H + net.half, j - p <= H + net.half
          PROVE  j \in reach'[r][p]
      <4>1. PICK k \in Valid(r) : p - k <= net.half /\ k - p <= net.half /\ k - j <= H /\ j - k <= H
        BY <1>3, <3>1, <3>4, Between DEF Valid
      <4>2. k \in Keys(kind, r, p) /\ j \in reach[r][k]
        BY <3>1, <3>2, <4>1 DEF Near
      <4> QED
        BY <1>11, <2>2, <4>2
    <3> QED
      BY <1>5, <1>14, <2>6, <3>3, <3>4
  <2> QED
    BY <2>4, <2>5, <2>6
<1> QED
  BY <1>6, <1>12, <1>13, <1>14

----------------------------------------------------------------------------
\* The logits of a pass that has run the head are read from whole rows, and a model that
\* has loaded has a head.
LoadedInv ==
  /\ FlowInv
  /\ checkpoint \in Checkpoints
  /\ stage = "new" => done = 0 /\ reach = Embedded(batch) /\ logits = << >>
  /\ stage = "loaded" => net.head >= 1
  /\ logits # << >> =>
       /\ DOMAIN logits = DOMAIN batch.rows
       /\ net.head >= 1 =>
            \A r \in DOMAIN logits : \A m \in DOMAIN logits[r] :
              Valid(r) \subseteq logits[r][m] /\ (net.half >= 0 => logits[r][m] = Valid(r))

Fresh ==
  /\ batch \in Batches /\ done = 0 /\ reach = Embedded(batch)
  /\ Len(net.layers) \in Nat /\ net.half \in Int /\ net.head \in Nat

LEMMA EmbeddedIsExact == Fresh => FlowInv
<1> SUFFICES ASSUME Fresh PROVE FlowInv
  OBVIOUS
<1> USE FlowAssumption DEF Fresh
<1>1. /\ DOMAIN reach = DOMAIN batch.rows
      /\ \A r \in DOMAIN batch.rows : reach[r] = [p \in Positions |-> {p}]
  BY DEF Embedded, Positions
<1>3. \A r \in DOMAIN batch.rows : \A p \in Positions : reach[r][p] = {p}
  BY <1>1
<1>2. ASSUME NEW r \in DOMAIN batch.rows, NEW p \in Valid(r)
      PROVE  reach[r][p] = IF Leaks THEN Positions ELSE IF Global THEN Valid(r) ELSE Spread(r, p)
  <2>1. Valid(r) \subseteq Positions /\ batch.rows[r].tokens \in Nat
    BY RowTyped
  <2>2. ~Global /\ ~Leaks
    BY DEF Global, Leaks
  <2>3. reach[r][p] = {p}
    BY <1>3, <2>1
  <2>4. net.half * done = 0
    OBVIOUS
  <2>5. Spread(r, p) = {p}
    BY <2>1, <2>4 DEF Spread, Valid
  <2> QED
    BY <2>2, <2>3, <2>5
<1>4. ReachIsExact
  BY <1>2 DEF ReachIsExact
<1>5. \A r \in DOMAIN batch.rows : DOMAIN reach[r] = Positions
  BY <1>1
<1> QED
  BY <1>1, <1>3, <1>4, <1>5 DEF FlowInv

LEMMA LoadedInit == ASSUME Init, FlowAssumption PROVE LoadedInv
<1>1. Len(net.layers) \in Nat /\ net.half \in Int /\ net.head \in Nat
  BY DEF Init
<1>2. FlowInv
  BY <1>1, EmbeddedIsExact DEF Init, Fresh
<1> QED
  BY <1>2 DEF Init, LoadedInv

\* The weights of a checkpoint without head layers have no part "head", which is refused.
LEMMA NetworkHasHead ==
  ASSUME NEW c \in Checkpoints, LoadedAssumption, ~VerifyCompatibility(c)
  PROVE  /\ Len(Network(c).layers) \in Nat
         /\ Network(c).half \in Int
         /\ Network(c).head \in Nat /\ Network(c).head >= 1
<1>1. c.encoder.window \in Int /\ c.encoder.count \in Int /\ c.headLayers \in Int
  BY DEF LoadedAssumption
<1>2. c.encoder.window \div 2 \in Int
  BY <1>1
<1>3. Len(Layers(c.encoder)) \in Nat
  <2>1. Len(c.encoder.layers) \in Nat
    BY DEF LoadedAssumption
  <2>2. Len(DefaultLayers(c.encoder)) \in Nat
    <3>1. CASE c.encoder.count \in Nat
      BY <3>1 DEF DefaultLayers
    <3>2. CASE c.encoder.count \notin Nat
      <4>1. 1 .. c.encoder.count = 1 .. 0
        BY <1>1, <3>2
      <4>2. DefaultLayers(c.encoder) \in [1 .. 0 -> Kinds]
        BY <4>1 DEF DefaultLayers, Kinds
      <4> QED
        BY <4>2
    <3> QED
      BY <3>1, <3>2
  <2> QED
    BY <2>1, <2>2 DEF Layers
<1>4. Parameters(c).head = [i \in 1 .. c.headLayers |-> c.encoder.hidden] /\ "head" \in DOMAIN Parameters(c)
  BY DEF Parameters
<1>5. c.weights["head"] # << >> /\ c.weights["head"] = Parameters(c).head
  BY <1>4 DEF VerifyCompatibility, VerifyWeights, Incomplete
<1>6. c.headLayers >= 1
  <2>1. ASSUME ~(c.headLayers >= 1)
        PROVE  [i \in 1 .. c.headLayers |-> c.encoder.hidden] = << >>
    BY <1>1, <2>1
  <2> QED
    BY <1>1, <1>4, <1>5, <2>1
<1> QED
  BY <1>1, <1>2, <1>3, <1>6 DEF Network

\* The pass does not depend on what only the constructor looks at.
LEMMA FlowInvKept == ASSUME FlowInv, UNCHANGED <<net, batch, done, reach>> PROVE FlowInv'
<1>1. Positions' = Positions /\ Global' = Global /\ Leaks' = Leaks
  BY DEF Positions, Global, Leaks, KindOf, Encoder
<1>2. \A r : Valid(r)' = Valid(r)
  BY DEF Valid
<1>3. \A r, p : Spread(r, p)' = Spread(r, p)
  BY <1>2 DEF Spread
<1>4. ReachIsExact'
  BY <1>1, <1>2, <1>3 DEF FlowInv, ReachIsExact
<1> QED
  BY <1>1, <1>4 DEF FlowInv

LEMMA ConstructInv ==
  ASSUME LoadedInv, Construct, FlowAssumption, LoadedAssumption
  PROVE  LoadedInv'
<1> checkpoint' = checkpoint /\ checkpoint \in Checkpoints
  BY DEF Construct, Refuse, LoadedInv
<1>1. CASE UNCHANGED <<net, batch, done, reach, logits>> /\ stage' = "refused"
  <2>1. FlowInv'
    BY <1>1, FlowInvKept DEF LoadedInv
  <2> QED
    BY <1>1, <2>1 DEF LoadedInv, Valid
<1>2. CASE ~VerifyCompatibility(checkpoint) /\ net' = Network(checkpoint) /\ stage' = "loaded"
           /\ UNCHANGED <<batch, done, reach, logits>>
  <2>1. Len(net'.layers) \in Nat /\ net'.half \in Int /\ net'.head \in Nat /\ net'.head >= 1
    BY <1>2, NetworkHasHead
  <2>2. done' = 0 /\ reach' = Embedded(batch') /\ logits' = << >> /\ batch' \in Batches
    BY <1>2 DEF LoadedInv, FlowInv, Construct
  <2>3. FlowInv'
    <3>1. Fresh'
      BY <2>1, <2>2 DEF Fresh, Embedded
    <3> QED
      BY <3>1, EmbeddedIsExact, PTL
  <2> QED
    BY <1>2, <2>1, <2>2, <2>3 DEF LoadedInv
<1> QED
  BY <1>1, <1>2 DEF Construct, Refuse, flowVars, WeightsError, Check

LEMMA ForwardInv ==
  ASSUME LoadedInv, Forward, FlowAssumption
  PROVE  LoadedInv'
<1> checkpoint' = checkpoint /\ checkpoint \in Checkpoints
  BY DEF Forward, LoadedInv
<1>1. stage = "loaded" /\ stage' = "loaded" /\ net.head >= 1 /\ FlowInv
  BY DEF Forward, LoadedInv
<1>2. CASE RunLayer
  <2>1. done < Depth /\ KindOf(done + 1) = net.layers[done + 1]
    BY <1>1, <1>2 DEF RunLayer, Depth, KindOf, Encoder, FlowInv
  <2>2. FlowInv'
    BY <1>1, <1>2, <2>1, MixingIsExact DEF RunLayer
  <2> QED
    BY <1>1, <1>2, <2>2 DEF RunLayer, LoadedInv, Valid
<1>3. CASE RunHeadLayer
  <2>1. done < Depth /\ KindOf(done + 1) = "full_attention"
    BY <1>1, <1>3 DEF RunHeadLayer, Depth, KindOf, Encoder, FlowInv
  <2>2. FlowInv'
    BY <1>1, <1>3, <2>1, MixingIsExact DEF RunHeadLayer
  <2> QED
    BY <1>1, <1>3, <2>2 DEF RunHeadLayer, LoadedInv, Valid
<1>4. CASE ReadMarkers
  <2>1. FlowInv'
    BY <1>1, <1>4, FlowInvKept DEF ReadMarkers
  <2>2. Global
    <3>1. done \in 1 .. done /\ KindOf(done) = "full_attention"
      BY <1>1, <1>4 DEF ReadMarkers, Depth, KindOf, Encoder, FlowInv
    <3> QED
      BY <3>1 DEF Global
  <2>3. ASSUME NEW r \in DOMAIN batch.rows, NEW m \in DOMAIN batch.rows[r].markers
        PROVE  /\ Valid(r) \subseteq reach[r][batch.rows[r].markers[m]]
               /\ net.half >= 0 => reach[r][batch.rows[r].markers[m]] = Valid(r)
    <3>1. batch.rows[r].markers[m] \in Valid(r) /\ Valid(r) \subseteq Positions
      BY <1>1, RowTyped DEF FlowInv
    <3>2. reach[r][batch.rows[r].markers[m]] = IF Leaks THEN Positions ELSE Valid(r)
      BY <1>1, <2>2, <3>1 DEF FlowInv, ReachIsExact
    <3>3. net.half >= 0 => ~Leaks
      BY <1>1 DEF Leaks, FlowInv
    <3> QED
      BY <3>1, <3>2, <3>3
  <2>4. DOMAIN logits' = DOMAIN batch'.rows
        /\ \A r \in DOMAIN logits' : \A m \in DOMAIN logits'[r] :
             Valid(r)' \subseteq logits'[r][m] /\ (net.half >= 0 => logits'[r][m] = Valid(r)')
    BY <1>4, <2>3 DEF ReadMarkers, Valid
  <2> QED
    BY <1>1, <1>4, <2>1, <2>4 DEF ReadMarkers, LoadedInv
<1> QED
  BY <1>2, <1>3, <1>4 DEF Forward, FlowNext

LEMMA LoadedInvHolds == Spec => []LoadedInv
<1>1. Init => LoadedInv
  BY LoadedInit, FlowAssumption
<1>2. ASSUME LoadedInv, [Next]_loadedVars
      PROVE  LoadedInv'
  <2>1. CASE Construct
    BY <1>2, <2>1, ConstructInv, FlowAssumption, LoadedAssumption
  <2>2. CASE Forward
    BY <1>2, <2>2, ForwardInv, FlowAssumption
  <2>3. CASE UNCHANGED loadedVars
    <3>1. FlowInv'
      BY <1>2, <2>3, FlowInvKept DEF LoadedInv, loadedVars, flowVars
    <3> QED
      BY <1>2, <2>3, <3>1 DEF LoadedInv, loadedVars, flowVars, Valid, Embedded
  <2> QED
    BY <1>2, <2>1, <2>2, <2>3 DEF Next, Rest
<1> QED
  BY <1>1, <1>2, PTL DEF Spec

\* Tokens depend on their own row, exactly as far as the layers that have run carry, and on
\* padding only after a sliding layer of a negative window, for every checkpoint and batch
\* (model.py, attention_masks).
THEOREM ReachExact == Spec => []ReachIsExact
<1>1. LoadedInv => ReachIsExact
  BY DEF LoadedInv, FlowInv
<1> QED
  BY <1>1, LoadedInvHolds, PTL

\* The logits of every loaded model are read from whole rows, and from nothing else unless
\* the window is negative (model.py, verify_weights: no model loads without a head).
THEOREM WholeRowSeen == Spec => []SeesWholeRow
<1>1. LoadedInv => SeesWholeRow
  BY DEF LoadedInv, SeesWholeRow
<1> QED
  BY <1>1, LoadedInvHolds, PTL

\* A row of a softmax is masked throughout in one case only, in any layer of any network
\* that loads: a valid query of a sliding layer whose window is negative.
THEOREM OnlyNegativeWindowsBlind == Spec => []EmptyOnlyIfNegative
<1>1. ASSUME LoadedInv, FlowAssumption PROVE EmptyOnlyIfNegative
  BY <1>1, WhoIsBlind DEF LoadedInv, FlowInv, EmptyOnlyIfNegative
<1> QED
  BY <1>1, FlowAssumption, LoadedInvHolds, PTL

\* What a loaded model's plan says is where its parameters are (devices.py, agent.py).
THEOREM PlansAreReal == Spec => []PlanIsReal
<1>1. Init => PlanIsReal
  BY DEF Init, PlanIsReal
<1>2. ASSUME PlanIsReal, [Next]_loadedVars
      PROVE  PlanIsReal'
  <2>1. CASE Construct
    <3>1. CASE stage' = "refused"
      BY <3>1 DEF PlanIsReal
    <3>2. CASE plan' = Chosen /\ placed' = Place(Chosen) /\ DeviceError = "none" /\ UNCHANGED wish
      <4>1. Chosen.error = "none"
        BY <3>2 DEF DeviceError
      <4>2. /\ Chosen.device.type = "cpu" => Chosen.dtype = "float32"
            /\ wish.device.type # "auto" => Chosen.device = wish.device
        BY <4>1 DEF Chosen, SelectDevice, OnGpu, ResolveDtype, CapabilityDefault, Refused, Plan, FallBack, Cpu, Cuda
      <4> QED
        BY <3>2, <4>2 DEF PlanIsReal, Place
    <3> QED
      BY <2>1, <3>1, <3>2 DEF Construct, Refuse
  <2>2. CASE Forward
    BY <1>2, <2>2 DEF Forward, PlanIsReal
  <2>3. CASE UNCHANGED loadedVars
    BY <1>2, <2>3 DEF PlanIsReal, loadedVars
  <2> QED
    BY <1>2, <2>1, <2>2, <2>3 DEF Next, Rest
<1> QED
  BY <1>1, <1>2, PTL DEF Spec
=============================================================================
