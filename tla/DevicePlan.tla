------------------------------ MODULE DevicePlan ------------------------------
(***************************************************************************)
(* On which device and in which precision a model runs (devices.py).       *)
(*                                                                         *)
(* A device is [type, index], the index 0 if none is given.  What PyTorch  *)
(* says of the machine is the major compute capability of each GPU it can  *)
(* use.  "rocm" differs from "cuda" in name only and is left out.          *)
(***************************************************************************)
LOCAL INSTANCE Integers
LOCAL INSTANCE Sequences

AutoDevice == [type |-> "auto", index |-> 0]
Cpu == [type |-> "cpu", index |-> 0]
Cuda(n) == [type |-> "cuda", index |-> n]

Refused(raised) == [error |-> raised]
Plan(device, dtype) == [error |-> "none", device |-> device, dtype |-> dtype]

\* _cuda_bf16_ok(): the first GPU speaks for all.
Bf16Ok(gpus) == Len(gpus) > 0 /\ gpus[1] >= 8

\* _capability_default(): what the checkpoint records, where it can be had.
CapabilityDefault(amp, gpus) ==
  IF amp \in {"bfloat16", "bf16"} /\ Bf16Ok(gpus) THEN "bfloat16" ELSE "float16"

\* _resolve_dtype().
ResolveDtype(dtype, amp, gpus) ==
  CASE dtype = "auto" -> CapabilityDefault(amp, gpus)
    [] dtype \in {"float32", "float16"} -> dtype
    [] dtype = "bfloat16" /\ Bf16Ok(gpus) -> dtype
    [] OTHER -> "DtypeUnsupported"

OnGpu(device, dtype, amp, gpus) ==
  LET resolved == ResolveDtype(dtype, amp, gpus)
  IN  IF resolved = "DtypeUnsupported" THEN Refused(resolved) ELSE Plan(device, resolved)

\* select_device(): without a GPU "auto" is the CPU, in float32 whatever was asked.
PlanAsAsked(dtype) == Plan(Cpu, IF dtype = "auto" THEN "float32" ELSE dtype)   \* mutant
FallBack(dtype) == Plan(Cpu, "float32")

SelectDevice(device, dtype, amp, gpus) ==
  CASE device.type = "auto" ->
         IF Len(gpus) > 0 THEN OnGpu(Cuda(0), dtype, amp, gpus) ELSE FallBack(dtype)
    [] device.type = "cuda" ->
         IF Len(gpus) = 0 THEN Refused("DeviceUnavailable") ELSE OnGpu(device, dtype, amp, gpus)
    [] device.type = "cpu" ->
         IF dtype \in {"float16", "bfloat16"} THEN Refused("DtypeUnsupported") ELSE Plan(device, "float32")
    [] OTHER -> Refused("DeviceUnavailable")
=============================================================================
