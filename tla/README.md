# A TLA+ development for llmt

`llmt` is a CUDA/C++ library for training small transformer language models.
This directory holds TLA+ models of the parts that exist in the source,
TLC configurations that check them on small instances, and TLAPS proofs of the
main results for every value of the constants. `PROJECT.json` relates every
definition to the lines it was translated from.

Paths below are relative to the repository root.

## 1. Inventory

### Components

| Component | State | Operations | What makes it correct |
|---|---|---|---|
| **Arena** `src/core/arena.cu`, `include/llmt/core/arena.h` | base pointer, capacity, `m_used`, `m_high_water` | `alloc_bytes`, `alloc`, `reset` | live regions aligned, inside the allocation, disjoint; an abort only when nothing fits; the peak is exact |
| **ParamStore** `src/model/param_store.cpp`, `include/llmt/model/param_store.h` | parameter list, name index, span sizes and bases, one Arena | constructor, `add`, `alias`, `finalize`, `at`, `flat` | every (parameter, kind) has its own bytes; the spans tile one allocation; names and views never change their meaning |
| **matmul** `src/kernels/matmul.cpp`, `include/llmt/kernels/algo_cache.h` | `AlgoCache::map`, one per Device | `matmul` (check, describe, look up, resolve, launch) | the column-major problem is the row-major one; a cached algorithm fits the call that finds it; equal problems replay one algorithm |
| **Row kernels** `softmax.cu`, `rmsnorm.cu`, `ce_row_kernel` in `cross_entropy.cu`, `warp.cuh` | registers and loop variables of 32 lanes, a row of memory | three passes with butterflies between them | reproducible, in place, causal limit exact, no hang |
| **Block reduction** `ce_reduce_kernel` | registers of 256 threads, two shared arrays | gather, store, tree levels, publish | race-free, one fixed order, each row once, no hang |
| **Host entries of the kernels** `fill.cu`, `gelu.cu`, `residual.cu`, `permute.cu`, `rope.cu`, `embedding.cu`, `softmax.cu`, `rmsnorm.cu`, `cross_entropy.cu`, `rng.cu` | the output tensors | checks, dispatch on types, one or two launches | what the checks let through is in bounds and in type, has one writer per cell, and is the header's definition |
| **Linear, MLP** `src/layers` | references to `Param`s | `forward`, `backward` | gradients accumulate; order of the in-place activation |
| **Initialisation** `src/model/init.cpp`, `fill.cu` | the weights | `init_params`, `fill_value` | fills exactly the elements, after the zeroing of `finalize` |
| **Device, RunCtx** `src/core/device.cu` | stream, cuBLASLt handle, workspace, cache | construction, `make_ctx`, `synchronize` | stream order makes asynchrony, and memory that changes hands, invisible |
| **Test support** `tests/support/transfer.h`, `determinism.h` | none | `upload`, `download`, `first_divergence` | the host sees the final value |
| **Golden comparison** `tests/support/golden_io.cpp` | none | `allclose`, `load_tensor` | a NaN never passes |
| **Attention** `src/kernels/attention.cpp` | none (composition) | `attention_fwd` | probabilities overwrite scores before the second product |
| **RNG** `include/llmt/core/rng.h`, `src/core/rng.cu` | none (counter-based) | `uniform`, `normal`, fills | draws of a seed are distinct; the floats are balanced and in range |
| Shape, Tensor, DType, Precision, errors | none | accessors, `fatal` | sizes, validity, abort |
| bench, tools, scripts, docs, third party | - | - | - |

### How the components interact

A `Device` owns the stream, the cuBLASLt handle and workspace, and an
`AlgoCache`; `make_ctx` copies raw pointers to them into a `RunCtx` that every
call receives. Layers register parameters with a `ParamStore` at construction
and keep references to the `Param`s. `finalize` constructs an `Arena` inside the
store, carves four spans from it and zeroes them with `cudaMemset` - on the
*default* stream - and fills in the views that layers read afterwards.
`init_params`, kernels and uploads are enqueued on the Device's stream and
return at once; `download` is a synchronous copy on the default stream.
Activations come from other arenas. Every contract violation ends in
`detail::fatal`, which aborts the process: there is no error recovery.

### Where it is hard

* **Concurrency inside a kernel.** Lanes and threads run in any order between
  barriers and shuffles, some kernels work in place, and the design asks for
  bitwise reproducible results.
* **Concurrency of host and device.** The host is ahead of the device, on two
  streams, and nothing is synchronised explicitly before `download`. `reset()`
  of an arena is immediate, so memory changes hands while work on it is queued.
* **Arithmetic at boundaries.** `size_t` sums, alignment padding, two loops that
  must agree to the byte, partial blocks and grids without blocks, narrow rows,
  the causal limit, flat index decoding, row-major described as column-major,
  words of random bits turned into floats, a batch count that is set only above one
  and converted to `int32_t`.
* **Checks repeated by hand.** Each host function has its own list of shape, type
  and memory checks; the kernels have none.
* **Stale or shared data.** Algorithms replayed by a key that omits strides;
  views that must never move; names that must never be taken over; gradients
  that accumulate over many calls.
* **Protocols.** add, alias, finalize, at, flat in any order; reset and reuse.

Nothing is persisted, nothing is sent, and there are no host threads or
timeouts, so crash recovery, message loss and retries do not arise.
`PROJECT.json` lists each hazard at its line, with the properties that
cover it or the reason why none does.

## 2. Modules

| Module | Models | Built from |
|---|---|---|
| `ArenaLayout` | `size_t` arithmetic, alignment, byte counts | - |
| `RegionAllocator` | abstract: what an arena promises | - |
| `Arena` | the bump allocator | `ArenaLayout`; implements `RegionAllocator` |
| `ArenaStream` | an arena whose tensors are used by queued kernels and copies, `upload`, `download`, `first_divergence` | `Arena` |
| `ParamStore` | the store, `finalize` loop by loop | `ArenaLayout` |
| `Gemm` | `matmul` and the algorithm cache | - |
| `WarpRow` | softmax, rmsnorm, cross-entropy row kernels | - |
| `BlockReduce` | the cross-entropy reduction | - |
| `CellKernels` | host checks, grids and workers of all kernels but `matmul` | - |
| `Philox` | the counter-based random numbers | - |
| `DeviceMemory` | device memory and the operations of each call | - |
| `StoreCalls` | abstract: calls with immediate effect | `DeviceMemory` |
| `StoreStream` | the same calls, asynchronous, on two streams | `DeviceMemory`; implements `StoreCalls` |
| `Attention` | the naive attention composition, with aliasing | - |
| `AllClose` | the golden comparison | - |
| `DataFacts` | facts about induction, numbers, flattened coordinates and sequences, for the proofs | - |
| `ArenaProofs` (also of `ArenaStream`), `ParamStoreProofs`, `GemmProofs` (also of `Attention`), `WarpRowProofs`, `BlockReduceProofs`, `KernelProofs` (of `CellKernels` and `Philox`), `StoreStreamProofs` | proofs | the module of the name |
| `MC*` | instances for TLC, and properties that need a recursive helper or an instance's names | the module of the name |

A definition whose comment begins "Mutation:" is not part of a model. It is a
plausible wrong version of the definition after it, kept to demonstrate that
a property fails when the code is wrong in that way.

### How state and actions correspond to the code

* **`Arena`**: `used`, `highWater` are `m_used`, `m_high_water`. `AllocBytes` is
  `Grant` or `Refuse`, the two outcomes of the capacity check, `Refuse` being
  the abort. `live` is a history variable: the regions handed out since the last
  `Reset`. `alloc` converts an element count, which may be negative, to bytes.
* **`ArenaStream`**: adds to `Arena` the bytes of its allocation (`mem`), the
  operations issued and not executed (`pending`) and what the host was given
  (`host`). `Launch` stands for any kernel: it writes one tensor from another.
  `TakeFirst`, `TakeSecond`, `FillAndFetch`, `Return` are `first_divergence`. The
  ghost variables `held` and `want` say what tensors and host would hold if every
  call took effect at once and no memory were used twice.
* **`ParamStore`**: `params`, `index`, `paramNumel`, `spanBytes`, `base`, `mem` are the
  members; `kind`, `offsets`, `off`, `total` are the local variables of `finalize`,
  whose loops are the actions `PackParam`, `CloseSpan`, `ConstructArena`, `Carve`,
  `FillViews`. A failing check or `cudaMalloc` sets `fatal`, after which nothing happens.
* **`Gemm`**: `program` fixes the contexts and operands of a run. `Call` is `check()` (accept or abort), `Lookup`, `Resolve` and
  `Launch` the rest of `run()`. `Descriptors` and `Key` are what `run` builds;
  `Layout` sets the batch attributes only for more than one item, as `make_layout` does,
  and converts the count to `int32_t` (`AsInt32`, of width `IntLimit`).
  cuBLASLt is external: each step may fail (`Abort`, the `CUBLAS_CHECK`s), `Resolve` may
  get any algorithm or none, and `LtProducts`
  says which elements a column-major product with those descriptors multiplies.
* **`WarpRow`**: one action per iteration of a lane and one per butterfly level.
  `pc` names the pass. Values are the expressions that compute them, so equal
  values are equal bits, and `inplace` makes `x` and `y` one memory.
* **`BlockReduce`**: one action per read-modify-write of shared memory; `Sync` is
  `__syncthreads`. Values are again expressions.
* **`CellKernels`**: `call` is one call with its tensors; `Check` its host checks
  (`SplitFits`, `RopeFits`, ..., with `valid`) and the switch over types,
  `RunKernel` one launch. `Worker(i)` is what thread `i`, or for the row kernels
  warp `i`, writes, and from which cells. `place` says which tensors share memory.
  The cast of the block count to `unsigned` is left out: it is the identity for every tensor
  of less than 128 GiB. A grid without blocks is a launch error, `LaunchError`, and `CUDA_CHECK_LAST`
  aborts. `rope_fwd` and `cross_entropy_fwd` launch twice. `KeepsContract` is what the
  headers ask of a caller and no check enforces: which arguments may share memory, ids below
  the vocabulary's size, room behind the pointer of `fill_rng`.
* **`Philox`**: all draws of one seed advance together, a `Round` being one iteration
  of the loop in `philox()`. The floats are modelled by their integer numerators.
* **`DeviceMemory`**: a location is the slice of one (kind, parameter), the
  padding of a span, a buffer, or the host's copy. Each call is the list of
  operations it issues, in order.
* **`StoreCalls`** applies the list at once. **`StoreStream`** appends it to `pending`
  and `Execute` runs any operation that the stream rules allow to run.
  `cudaStreamCreate` makes a stream that synchronises with the default one, and
  that one word is what `Ordered` says. The ghost variable `meant` is the memory as if each
  call had taken effect when it was made; a download is compared with it.
* **`Attention`**: the composition on tensors element by element. `step` names the kernel
  that is next. `attention_fwd` checks shapes and data but no types (`Admitted`), so every
  kernel has its own checks (`ProductChecks`, `SoftmaxChecks`, `MergeChecks`) and may end
  the call: "aborted" by them, or "failed" in cuBLASLt or at a launch, which an empty grid
  forces. Extents may be zero; an empty batch is run as one item, as in `Gemm`.
  Tensors may share memory.
* **`AllClose`**: one action per element; values are small integers, infinities and NaN
  with the IEEE rules that the expression uses.

## 3. Runs

| Run | What it asks | Bounds |
|---|---|---|
| `arena` | the promises of the allocator, that it implements `RegionAllocator`, memory reuse while work is queued, what the host reads | 4-byte alignment, 19 bytes; one program of 4 live regions and no device work, one of 2 or 3 live tensors and a few device calls; any number of resets |
| `arena_wrap` (violation) | does exhaustion always abort? | word of 64 |
| `param_store` | layout, names and views for any order of calls | 3 parameters, 3 names, sizes around the alignment |
| `gemm` | column-major is row-major; stays in the tensors; the right algorithm, replayed | extents 1 to 3, all transposes, batches of 1 and 2 and at both ends of what the layouts can describe, for an `int` that holds 3; sequences over 9 calls, 5 contexts, 2 devices, 2 algorithms |
| `gemm_empty_batch` (violation) | is every batch index computed once, and nothing else? | batches 0 to 3 |
| `block_reduce` | race freedom, fixed order, each row once, termination | 8 threads; 0, 8 and 11 rows |
| `warp_row` | in place, result exact in every lane, causal limit, termination | 4 lanes, widths 1 to 9 |
| `cell_kernels` | accepted calls stay in bounds and in type, one writer, the headers' elements | extents 0 to 3, head sizes 1, 2, 4, blocks of 5 threads or 4 warps; every overlay the headers allow; 11 calls with one argument spoilt in every way listed in `MCCellKernels` |
| `philox` | draws are distinct and balanced | words of 3 bits, all 4096 counters, 12 seeds, 10 rounds |
| `store_stream` | the asynchronous program implements the sequential one; zeroing before use, current downloads, padding, accumulation, the MLP | 2 parameters, 2 buffers, 3 calls |
| `attention` | the composition for every aliasing that is allowed; what can abort it, and when; what an output depends on | 1 or 2 items, 1 or 2 heads, 2 or 3 positions, 1 or 2 channels, and each extent zero; one shape wrong, any arguments without data or of another type |
| `all_close_nan` (violation) | is a NaN on either side always bad? | 2 elements, 5 values |

**Why the bounds are enough.**
Alignment 4 or 8 stands for 256: the layout depends on a size only through its
remainder and its quotient by the alignment, and the sizes include zero, less
than, exactly and more than one unit. A word of 64 or 1024 stands for 2^64: it is large
enough not to wrap in the ordinary runs and is reached on purpose in `arena_wrap`.
Three parameters give a first, a middle and a last one; the proofs cover the rest.
Extents 1, 2, 3 tell the axes of a tensor apart, and 1 covers the degenerate
cases. Eight threads have three levels of the tree, four lanes two levels of
the butterfly; every level works like the next. Widths and row counts lie below,
at, above and off a multiple of the thread count. Zero extents give grids without blocks. A Philox word of three bits is another
function, but the properties are about structure that does not depend on the width: the proof
of `DrawsDistinct` covers every width, and three bits leave room for a dropped
bit, carries and a wrap. The two programs of `arena` separate what needs many sizes
from what needs interleaving with the device. Three calls after
`finalize` allow any call before, between and after any two others. A
cache entry limit of one or two makes hits and misses alternate. With two buffers
`dy` and `x` of `backward()` coincide, as `dx` is a third tensor, and so do `x` and `y`
of the MLP: the run examines the aliased calls, and the theorems (`GradientsAccumulate`,
`MlpIsComposition`) any others.

`CHECK_DEADLOCK FALSE` is in every configuration because every model really
stops: the program aborts (`fatal`), a kernel ends, or the call bound is reached.

**Fairness.** Only the two kernels that synchronise threads, `WarpRow` and
`BlockReduce`, have liveness properties. Their fairness is weak fairness of each
thread and of the barrier: the hardware runs every thread of a resident block
(on the architectures supported, with independent thread scheduling, every lane)
that can run. A thread that waits at a barrier can not run, so a hang would
still be found.

## 4. What the runs show

* An arena hands out disjoint aligned regions, packs them, aborts only when no
  aligned offset has room, and keeps an exact peak - as long as no sum wraps.
* `finalize`'s two loops agree: the four spans tile the allocation, the arena
  never runs out, every parameter and kind has its own bytes, kinds of one type
  are layout twins, and names and views never change their meaning. `alias()` does not test
  `finalized()` (`src/model/param_store.cpp:46`), although the class comment calls registration
  closed by then; the run includes such calls, and they disturb nothing.
* The descriptors of `matmul` multiply exactly the elements asked for, for every batch
  that they can describe (`Counted`: at least one item and fewer than 2^31), and the
  short cache key determines all of them. For an empty batch they do not: finding 3.
* `attention_fwd` refuses wrong shapes and missing data before it writes anything. It checks
  no types: with `v`, `y_heads` or `y` of another type it aborts when the scratch tensors
  are already overwritten (`OnlyTypesAbort` says that nothing else aborts it so late).
  Zero extents pass the checks as well and end the call at a launch or in the library.
* The row kernels and the reduction give one fixed expression under every
  interleaving, also in place.
* The lag of the device is invisible: zeroing comes before any use, downloads
  are current. This rests on `cudaStreamCreate`; a non-blocking stream breaks it.
* `reset()` may hand memory to new tensors while old work is queued, because
  every RunCtx of a Device has the one stream; a stream per call breaks it.
* No call that differs from a good one in one argument makes a kernel leave its
  tensors: the checks of each host function are sufficient. Empty tensors abort,
  and a call that returns has written all of its outputs and nothing else.
* No two draws of a seed repeat, and `normal()` never takes the logarithm of zero.

### Findings

1. `arena_wrap`: the capacity check adds before it compares
   (`src/core/arena.cu:18`). A request near 2^64, which a negative extent
   produces, wraps and is granted, although the header says that exhaustion aborts.
2. `all_close_nan`: a NaN in the *expected* tensor makes the tolerance NaN and the
   comparison false (`tests/support/golden_io.cpp:75`), so the element passes,
   although the header says that any NaN on either side is bad. The same
   expression lets an infinite expected value match anything finite.
3. `gemm_empty_batch`: `make_layout()` sets the batch count only for more than one item
   (`src/kernels/matmul.cpp:106`). A rank-3 call with batch 0 and data passes `check()`, keeps
   cuBLASLt's default of one item, and multiplies memory outside its empty tensors,
   although the header says that one product is run per batch index. The model shows what
   the descriptors ask for; cuBLASLt may still refuse it.

## 5. Proofs

All theorems hold for every value of the constants that satisfies the named
assumptions of the modules (`LayoutAssumption`, `ArenaAssumption`, ...), which TLC
evaluates on every run.

* **`ArenaProofs`**, under the premise `NoWrap` that no request wraps a sum (the
  finding shows that it is needed): type correctness, soundness and packing of the live regions,
  refusal only when full, an exact high-water mark, and the refinement of
  `RegionAllocator`. The inductive invariant is the conjunction of the first four:
  that a new region overlaps no old one needs `Packed`, which says that
  the last region ends at `used`.
  `StreamImplementsArena` shows that every behaviour of `ArenaStream` is one of `Arena`, so
  that the regions queued work runs on are sound too (`StreamLiveSound`).
  `StreamTensorsHold` and `StreamHostCurrent` say that the lag of the device is
  invisible although `reset()` is immediate. `StreamInv` relates the one queue,
  executed in issue order, to the ghost variables: once it has drained, every live
  tensor contains what `held` says, and the fetches that the host waits for are the
  end of the queue and bring what `want` says. An operation issued on one live tensor
  cannot disturb another because their regions are disjoint (`LiveSound`).
* **`ParamStoreProofs`**, under the same kind of premise (some slot holds any
  parameter, and four spans of slots fit the word): type correctness, no
  exhaustion, the tiling, sound slices, layout twins, stable names and views, and
  (without the premise) that a parameter keeps its own name. The
  invariant has one part per phase of `finalize`: after `PackParam`, the offsets so far
  are multiples of the alignment and apart by the padded sizes; after `CloseSpan`,
  `total` is the sum of the closed spans; in `Carve`, the arena's cursor is the
  sum of the spans carved, so that what remains suffices. For the twins, a second
  invariant compares the loop over a kind with the completed loop over an earlier kind
  of the same dtype, offset by offset: no induction over the parameters is needed. For
  the views, that all are null until `FillViews`.
* **`GemmProofs`**: type correctness; the column-major product is the row-major
  one for *all* extents and transposes and every batch that is `Counted`, and then stays inside
  the tensors; the cached algorithm fits; equal problems replay one, and these two for every
  batch, none included. The invariant says
  that a cache entry was resolved for descriptors that its key determines, which
  holds because `check()` forces the strides and leading dimensions to follow
  from the extents (`ProblemDeterminesKey`), and that everything launched is still in its cache.
  For `Attention`, whose tensors are assumed to fit in `Cells`: past its own checks
  a callee aborts on a type or on the context only, and once the scratch tensors are
  overwritten only on a type of `v`, `y_heads` or `y` (`AttentionOnlyTypesAbort`, with
  zero extents included); when it returns the
  output holds the heads' mixture of values that the header defines, for every extent and
  every allowed overlay. The invariant says what each memory holds after each kernel: inputs
  untouched, then scores, then probabilities in their place, then heads, then the output.
  `AttentionSeesOnlyItsPast` follows layer by layer: an output reads the probabilities that
  are not exactly zero, these read the scores of their row, and these one query and one key.
* **`WarpRowProofs`**: type correctness, in-place safety, the exact result and the
  exact causal limit, for any number of lanes (a power of two) and any width.
  In place: a column that has been overwritten was overwritten by its
  owner, which has advanced beyond it and never comes back. `RowCorrect`: a lane in a
  pass has taken exactly its own columns below its loop variable; in a butterfly
  at offset `off`, a register covers the lanes equal to its own modulo `2 * off`,
  so the exchange joins two disjoint halves and the last one covers the row.
* **`BlockReduceProofs`**: type correctness, race freedom and the fixed order of
  the sum for a block of any size. The invariant says that all threads are gathering, all are in
  one level, or all have finished; that is what the barrier establishes and what keeps
  the offset common. For `FixedOrder`, it adds that a slot below twice the offset holds the
  subtree of its level once its thread has added to it, and of the level before until then.
* **`KernelProofs`** on `CellKernels`, for calls that keep the contract, of any extents and
  launch configuration: accepted calls stay in bounds and in type (`KernelsInBounds`), and no
  two workers of a launch meet (`KernelsOneWriter`). A kernel runs only for an accepted call
  (`Running`); kernel by kernel, `Disciplined` gives each worker a stripe of the outputs
  and of the arguments that lie over them, and lets everybody read the arguments that
  nobody writes. The rest is arithmetic: a flattened coordinate is below the product of the extents,
  and different coordinates have different places.
  `KernelsMatchHeader` says that a call that returns has left in every output element the
  term its header promises over the values before the call. Its invariant `Progress` has one part
  for each kernel of a call that has run: what each of its workers wrote (`Plan`), as a term
  over the elements before the call; everything else is untouched. A kernel is one step of
  the model: every worker reads what was there before the kernel, which is what it finds in
  any order of the workers, since by `KernelsOneWriter` nobody else writes it. At the end
  of a call, the kernel's decoding of a flat index has to reach the place the header names: the place arithmetic (`HeadPlace`, `MergePlace`, `RowsCover`, `TurnsCover`)
  says that it does and that every element of the output is reached.
  On `Philox`, under `OddAssumption` (the multipliers have an inverse modulo
  the word, true of odd numbers and powers of two) and `XorAssumption` (xor is
  a commutative involution on words): type correctness, and that draws are
  distinct. The counter is an injective encoding of stream and index, and a round
  is injective, because the low half of a product by an invertible factor gives
  the factor back and xor can be undone; so distinct blocks stay distinct.
  `DrawsBalanced` follows by counting: over the whole period, the final counters are a
  bijection onto all blocks, so that the draws of a pair (argument of the logarithm, angle)
  are counted by counting the words that give each.
* **`StoreStreamProofs`**: the asynchronous program implements the sequential one
  (`StoreStream` refines `StoreCalls`: issuing a call maps to the call, executing an
  operation to a stutter), and through that mapping padding stays zero,
  gradients accumulate and the MLP computes what its source says; nothing is used before its zeroing. The invariant has five parts: the queue is
  well formed, the host waits only for a download at the queue's end, no work on the
  parameters is pending before `finalize`, the memsets come before whatever else is
  pending, and the slices are zeroed or still have their memset pending. The mapping runs
  the pending operations in issue order, and `Ordered` lets the device execute only
  the oldest (`OnlyTheOldest`), so that executing it leaves the mapped memory as it was. `DownloadsAreCurrent` adds that
  the mapped memory is always `meant`, and that nothing is pending for the host once a
  download has returned. `GradientsAccumulate` names the call: a gradient that changes was
  changed by the `backward()` of its parameter, by the product of its `dy` and `x`.
* **Recursion.** The sums of `WarpRow` and `BlockReduce` and the queue folds of the streams
  are recursive functions. What they need of induction is `SetInduction` in `DataFacts`,
  over the members of a set: the library's induction theorems take an operator, which
  the provers cannot instantiate.

**Only model-checked.** Liveness (`Terminates`, twice), which is out of the prover's
reach. Every other property of a passing run is the statement of a theorem.

## 6. Not modelled

* **Blocks beyond 2^32**: the cast of a grid to `unsigned` needs tensors of more than 128 GiB.
* **Batches of 2^31 items or more**: the conversion is in the model of `matmul`, but the
  properties of the product exclude them, and `Attention` takes for granted that there are none.
* **Numerical values.** Values are expressions; rounding, overflow to infinity and
  accuracy are the business of the golden tests.
* **`load_tensor`**: file input.
* **The logarithm and the cosine** of `normal()`, the peak figures of `DeviceProps`:
  real arithmetic without state.
* **Destructors** (`Device`, `Arena`, the descriptors): they release handles at the
  end of a scope; no code of the repository uses what they released.
* **Finite differences**: a floating-point loop around a callback.
* **Benchmarks, tools, scripts, doctest**: no state of the program.
* **Block, GPT, planner, optimizer, data loader, trainer, checkpoints**: the
  design document describes them, the source at this commit does not have them.

## 7. Plan

Written so far, in this order: allocator, store, product and cache, reductions,
device memory and streams, attention, golden comparison, arena lifetimes with
the stream, random numbers, and the host entries of all kernels. What is left:

1. A refinement of `WarpRow` and `BlockReduce` to a sequential reduction.
2. The components of the design document, when they are written.
