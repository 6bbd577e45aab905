----------------------------- MODULE LoadedModel -----------------------------
(***************************************************************************)
(* An Agent from its constructor to its outputs (agent.py, model.py,       *)
(* tokenizer.py): a checkpoint is validated, its network built, its        *)
(* weights verified, a device chosen, and batches run through the network. *)
(* The files of the checkpoint are ModelPackage's; here they are read.     *)
(***************************************************************************)
EXTENDS EncoderFlow, DevicePlan, SequencesExt

CONSTANTS
  Wishes,       \* how an Agent is made: device, dtype, and whether its sizes are valid
  Machines,     \* the compute capabilities of the GPUs that PyTorch can use
  Checkpoints   \* what a model package says

ASSUME LoadedAssumption ==
  \A c \in Checkpoints :
    /\ c.encoder.window \in Int /\ c.encoder.count \in Int
    /\ c.encoder.layers \in Seq(STRING)
    /\ c.headLayers \in Int

VARIABLES
  wish, machine, checkpoint,
  stage,        \* "new", "loaded" or "refused"
  error,        \* what the constructor raised, else "none"
  plan,         \* self.device_plan, once loaded
  placed        \* where the parameters are and in which precision, once loaded

loadedVars == <<flowVars, wish, machine, checkpoint, stage, error, plan, placed>>

None == "None"

Check(fails, raised) == IF fails THEN raised ELSE "none"
FirstError(errors) ==
  LET first == SelectInSeq(errors, LAMBDA e : e # "none")
  IN  IF first = 0 THEN "none" ELSE errors[first]

----------------------------------------------------------------------------
\* The layers of an encoder: those it names, or every n-th one full, the first included.
DefaultLayers(e) ==
  [i \in 1 .. e.count |-> IF (i - 1) % e.every = 0 THEN "full_attention" ELSE "sliding_attention"]
Layers(e) == IF e.named THEN e.layers ELSE DefaultLayers(e)

\* EncoderConfig.from_dict().  A remainder by zero raises, too.
EncoderError(e) ==
  FirstError(
    << Check(e.family # "modernbert" \/ e.activation # "gelu", "ModelIncompatible"),
       Check(e.heads = 0, "ZeroDivisionError"),
       Check(e.heads # 0 /\ e.hidden % e.heads # 0, "ModelIncompatible"),
       Check(~e.named /\ e.every = 0 /\ e.count > 0, "ZeroDivisionError"),
       Check(e.named /\ (Len(e.layers) # e.count \/ ~(ToSet(e.layers) \subseteq Kinds)),
             "ModelIncompatible"),
       Check(~e.named /\ e.count < 0, "ModelIncompatible"),
       Check(e.scaledRope, "ModelIncompatible") >>)

\* build_decision_model(): the parameters of the network, by part, number and shape; the
\* shape of a part that does not depend on the configuration is 1.
Parameters(c) ==
  [encoder |-> [i \in 1 .. c.encoder.count + 1 |-> c.encoder.hidden],
   head |-> [i \in 1 .. c.headLayers |-> c.encoder.hidden],
   type_emb |-> << c.encoder.hidden >>, scorer |-> << c.encoder.hidden >>,
   act_head |-> << c.actCosts + 1 >>, temperature |-> << 1 >>]

\* verify_weights(), and the constructor's own copy of it: no part is missing, no tensor
\* is missing, none is unexpected, and the shapes agree.
IncompleteTensors(c) == c.weights # Parameters(c)       \* mutant: parts need not be there
Incomplete(c) ==
  \/ \E part \in DOMAIN Parameters(c) : c.weights[part] = << >>
  \/ c.weights # Parameters(c)
VerifyWeights(c) == Incomplete(c)
VerifyCompatibility(c) == VerifyWeights(c)

\* Tokenizer.__init__(): its two files, and the four special tokens.
TokenizerError(c) ==
  ~c.tokenizerFiles \/ ~({"cls_token", "sep_token", "pad_token", "mask_token"} \subseteq c.specialTokens)

\* DecisionHead.__init__(): an attention head per 64 dimensions, which PyTorch asserts to
\* divide them.
HeadError(c) ==
  LET heads == IF c.encoder.hidden < 64 THEN 1 ELSE c.encoder.hidden \div 64
  IN  Check(c.headLayers > 0 /\ c.encoder.hidden % heads # 0, "AssertionError")

\* Agent.__init__(), up to the parameters' move to the device, where an index that no
\* GPU has raises.
Chosen == SelectDevice(wish.device, wish.dtype, checkpoint.amp, machine)
Misplaced == Chosen.error = "none" /\ Chosen.device.type = "cuda" /\ Chosen.device.index >= Len(machine)
ConstructorError ==
  FirstError(
    << Check(wish.batchSize < 1 \/ wish.padToMultiple < 1, "ValueError"),
       Check(\E t \in ToSet(checkpoint.temperatures) : t <= 0, "ModelIncompatible"),
       Check(Len(checkpoint.temperatures) # 3, "ModelIncompatible"),
       Check(TokenizerError(checkpoint), "ModelIncompatible"),
       EncoderError(checkpoint.encoder),
       Check(checkpoint.headLayers < 0, "ModelIncompatible"),
       HeadError(checkpoint) >>)
WeightsError == Check(VerifyCompatibility(checkpoint), "ModelIncompatible")
DeviceError == IF Chosen.error # "none" THEN Chosen.error ELSE Check(Misplaced, "RuntimeError")

Network(c) == [layers |-> Layers(c.encoder), half |-> c.encoder.window \div 2, head |-> c.headLayers]

\* The parameters are float32 when built and stay so on the CPU.
Place(p) == [device |-> p.device, dtype |-> IF p.device.type = "cpu" THEN "float32" ELSE p.dtype]

Refuse(raised) ==
  /\ stage' = "refused"
  /\ error' = raised
  /\ UNCHANGED <<flowVars, wish, machine, checkpoint, plan, placed>>

Construct ==
  /\ stage = "new"
  /\ IF ConstructorError # "none" THEN Refuse(ConstructorError)
     ELSE IF WeightsError # "none" THEN Refuse(WeightsError)
     ELSE IF DeviceError # "none" THEN Refuse(DeviceError)
     ELSE /\ stage' = "loaded"
          /\ plan' = Chosen
          /\ placed' = Place(Chosen)
          /\ net' = Network(checkpoint)
          /\ UNCHANGED <<batch, done, reach, logits, wish, machine, checkpoint, error>>

\* forward(): one batch through the network.
Forward ==
  /\ stage = "loaded"
  /\ FlowNext
  /\ UNCHANGED <<wish, machine, checkpoint, stage, error, plan, placed>>

Init ==
  /\ wish \in Wishes /\ machine \in Machines /\ checkpoint \in Checkpoints
  /\ stage = "new"
  /\ error = "none"
  /\ plan = None /\ placed = None
  /\ net = [layers |-> << >>, half |-> 0, head |-> 0]
  /\ batch \in Batches
  /\ done = 0
  /\ reach = Embedded(batch)
  /\ logits = << >>

Rest == (stage = "refused" \/ logits # << >>) /\ UNCHANGED loadedVars

Next == Construct \/ Forward \/ Rest

Spec == Init /\ [][Next]_loadedVars

----------------------------------------------------------------------------
\* Whatever layers and window a checkpoint names, the answer of each option depends on
\* every token of its row, and, if the window is not negative, on nothing else: no
\* checkpoint that loads has windows only and no head over them.
SeesWholeRow ==
  stage = "loaded" /\ logits # << >> =>
    \A r \in DOMAIN logits : \A m \in DOMAIN logits[r] :
      Valid(r) \subseteq logits[r][m] /\ (net.half >= 0 => logits[r][m] = Valid(r))

\* What device_plan reports of a loaded model is where its parameters are and in which
\* precision, on a device that was asked for if one was (devices.py:47).
PlanIsReal ==
  stage = "loaded" =>
    /\ placed = [device |-> plan.device, dtype |-> plan.dtype]
    /\ wish.device.type # "auto" => plan.device = wish.device
    /\ plan.device.type = "cpu" => plan.dtype = "float32"
=============================================================================
