----------------------------- MODULE BudgetPlan -----------------------------
(***************************************************************************)
(* BudgetPlanner: how the files of a job are cut into transport batches,   *)
(* which respect the caps on one request, and those into compute batches,  *)
(* each of which is one call of the adapter.  Batches are intervals of the *)
(* job's items, in the order of the items.                                 *)
(***************************************************************************)
EXTENDS Integers, SequencesExt

CONSTANTS
    MaxFileCount, MaxEncodedBytes, MaxDecodedPixels, MaxPages,
    DeviceVram,    \* in MB, 0 if unknown
    RealBatchSize  \* the compute batch of an adapter with a native batch call

ASSUME BudgetAssumption ==
    /\ {MaxFileCount, MaxEncodedBytes, MaxDecodedPixels, MaxPages} \subseteq Nat \ {0}
    /\ DeviceVram \in Nat /\ RealBatchSize \in Nat

Caps == [encoded_bytes |-> MaxEncodedBytes, decoded_pixels |-> MaxDecodedPixels,
         estimated_pages |-> MaxPages]
Dims == DOMAIN Caps

\* What the executor tells the planner of a staged file: its pixels if it is an image,
\* and a page, whatever is in it.
InputItem(staged) ==
    [encoded_bytes |-> staged.bytes,
     decoded_pixels |-> IF staged.image THEN staged.pixels ELSE 0,
     estimated_pages |-> 1]

\* What an adapter says of its batches; one that cannot be asked has none.
Capability(realBatch, perItemVram) ==
    [real_batch |-> realBatch,
     max_compute_batch |-> IF realBatch THEN RealBatchSize ELSE 1,
     per_item_vram |-> perItemVram]

-----------------------------------------------------------------------------
(* plan_transport, item by item: the batches so far, where the current one   *)
(* begins, and what is in it.                                                *)

NoLoad == [d \in Dims |-> 0]
Opened_Unweighed(batches, k, load) == [batches |-> batches, from |-> k, load |-> NoLoad]
Opened(batches, k, load) == [batches |-> batches, from |-> k, load |-> load]

\* The current batch, if any, is complete before item k.
Flushed(plan, k) ==
    IF plan.from < k THEN Append(plan.batches, [lo |-> plan.from, hi |-> k - 1])
    ELSE plan.batches

Oversized(item) == \E d \in Dims : item[d] > Caps[d]
With(plan, item) == [d \in Dims |-> plan.load[d] + item[d]]
Overflows(plan, k, item) ==
    \/ k - plan.from + 1 > MaxFileCount
    \/ \E d \in Dims : With(plan, item)[d] > Caps[d]

Take(plan, k, item) ==
    IF Oversized(item)
    THEN Opened(Append(Flushed(plan, k), [lo |-> k, hi |-> k]), k + 1, NoLoad)
    ELSE IF Overflows(plan, k, item)
    THEN Opened(Flushed(plan, k), k, [d \in Dims |-> item[d]])
    ELSE [plan EXCEPT !.load = With(plan, item)]

\* The plan after each of the items.
Filled(items) ==
    LET plan[k \in 0 .. Len(items)] ==
            IF k = 0 THEN Opened(<<>>, 1, NoLoad) ELSE Take(plan[k - 1], k, items[k])
    IN  plan

PlanTransport(items) == Flushed(Filled(items)[Len(items)], Len(items) + 1)

-----------------------------------------------------------------------------
(* plan_compute on one transport batch.                                      *)

MaxOf(a, b) == IF a >= b THEN a ELSE b
MinOf(a, b) == IF a <= b THEN a ELSE b

ComputeSize(capability) ==
    LET cap == MaxOf(1, capability.max_compute_batch) IN
    IF ~capability.real_batch THEN 1
    ELSE IF capability.per_item_vram # 0 /\ DeviceVram # 0
    THEN MinOf(cap, MaxOf(1, DeviceVram \div capability.per_item_vram))
    ELSE cap

PlanCompute(batch, capability) ==
    LET size == ComputeSize(capability) IN
    [i \in 1 .. (batch.hi - batch.lo) \div size + 1 |->
        [lo |-> batch.lo + (i - 1) * size,
         hi |-> MinOf(batch.lo + i * size - 1, batch.hi)]]

ComputeBatches(items, capability) ==
    LET transport == PlanTransport(items) IN
    FlattenSeq([i \in DOMAIN transport |-> PlanCompute(transport[i], capability)])

-----------------------------------------------------------------------------
(* What a call may carry, said without the planner's bookkeeping.            *)

\* What the first k items have together, for each k.
Total(items, d) ==
    LET total[k \in 0 .. Len(items)] ==
            IF k = 0 THEN 0 ELSE total[k - 1] + items[k][d]
    IN  total

FitsRequest(items, lo, hi) ==
    /\ hi - lo + 1 <= MaxFileCount
    /\ \A d \in Dims : Total(items, d)[hi] - Total(items, d)[lo - 1] <= Caps[d]

FitsDevice(size, capability) ==
    /\ capability.real_batch /\ size <= capability.max_compute_batch
    /\ DeviceVram = 0 \/ size * capability.per_item_vram <= DeviceVram

Fits(items, lo, hi, capability) ==
    \/ lo = hi
    \/ FitsRequest(items, lo, hi) /\ FitsDevice(hi - lo + 1, capability)

=============================================================================
