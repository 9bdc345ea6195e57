---------------------------- MODULE KernelProofs ----------------------------
(***************************************************************************)
(* Proofs about CellKernels, for tensors of any extents and any launch     *)
(* configuration: a kernel that the host checks let through touches its    *)
(* tensors only, and no two of its workers meet; and about Philox, whose   *)
(* draws the random fill writes: a round can be undone, so different       *)
(* counters stay different through any number of rounds under any key.     *)
(***************************************************************************)
EXTENDS CellKernels, Philox, DataFacts, SequenceTheorems, FiniteSetTheorems, TLAPS

(* A kernel runs for a call that was accepted.                             *)
Running ==
  /\ call \in Calls /\ pc \in Kernels /\ Accepts
  /\ call.entry = "rope_fwd" => pc \in {"q", "k"}
  /\ call.entry = "cross_entropy_fwd" => pc \in {"rows", "mean"}
  /\ call.entry \notin {"rope_fwd", "cross_entropy_fwd"} => pc = "all"

KernelInv ==
  /\ call \in Calls
  /\ pc \in Kernels \cup {"check", "done", "fatal"}
  /\ pc \in Kernels => Running

LEMMA SameCall ==
  ASSUME call' = call
  PROVE  Accepts' = Accepts
<1>1. \A a : Numel(a)' = Numel(a)
  BY DEF Numel, Arg
<1>2. \A a : Arg(a)' = Arg(a) /\ valid(a)' = valid(a) /\ Rank(a)' = Rank(a)
  BY DEF Arg, valid, Rank
<1>3. \A a, n : Dim(a, n)' = Dim(a, n)
  BY DEF Arg, Dim
<1>4. /\ \A names, type : OfType(names, type)' = OfType(names, type)
      /\ \A names, shape : OfShape(names, shape)' = OfShape(names, shape)
      /\ \A x : Elementwise(x)' = Elementwise(x)
  BY DEF OfType, OfShape, Elementwise, Arg
<1>5. HeadDim' = HeadDim /\ Causal' = Causal
  BY DEF HeadDim, Causal, Dim, Arg
<1>6. SplitFits' = SplitFits /\ MergeFits' = MergeFits /\ EmbeddingFits' = EmbeddingFits
  BY <1>5 DEF SplitFits, MergeFits, EmbeddingFits, OfType, OfShape, Rank, Dim, Arg
<1>7. RopeFits' = RopeFits /\ SoftmaxFits' = SoftmaxFits /\ RmsnormFits' = RmsnormFits
  BY <1>5 DEF RopeFits, SoftmaxFits, RmsnormFits, GainFits, OfType, OfShape, Rank, Dim, Arg
<1>8. CrossEntropyFits' = CrossEntropyFits
  BY <1>1 DEF CrossEntropyFits, OfType, OfShape, Rank, Dim, Arg
<1>9. Fits' = Fits
  BY <1>2, <1>4, <1>6, <1>7, <1>8 DEF Fits
<1> QED BY <1>2, <1>9 DEF Accepts

LEMMA SpecKernelInv == Spec => []KernelInv
<1>1. Init => KernelInv
  BY DEF Init, KernelInv, Kernels
<1>2. ASSUME KernelInv, [Next]_vars  PROVE KernelInv'
  <2>1. call' = call /\ call \in Calls /\ Accepts' = Accepts
    BY <1>2, SameCall DEF KernelInv, Next, Check, RunKernel, vars
  <2>2. CASE Check
    <3>1. CASE Accepts
      <4>1. pc' = FirstKernel
        BY <2>2, <3>1 DEF Check
      <4> QED BY <2>1, <3>1, <4>1 DEF KernelInv, Running, FirstKernel, Kernels
    <3>2. CASE ~Accepts
      BY <2>1, <2>2, <3>2 DEF Check, KernelInv, Kernels
    <3> QED BY <3>1, <3>2
  <2>3. CASE RunKernel
    <3>1. pc \in Kernels /\ Running /\ pc' = NextKernel
      BY <1>2, <2>3 DEF RunKernel, KernelInv
    <3>2. CASE pc = "rows"
      BY <2>1, <3>1, <3>2 DEF NextKernel, KernelInv, Running, Kernels
    <3>3. CASE pc # "rows"
      BY <2>1, <3>1, <3>3 DEF NextKernel, KernelInv, Running, Kernels
    <3> QED BY <3>2, <3>3
  <2>4. CASE UNCHANGED vars
    BY <1>2, <2>1, <2>4 DEF vars, KernelInv, Running
  <2> QED BY <1>2, <2>2, <2>3, <2>4 DEF Next
<1> QED BY <1>1, <1>2, PTL DEF Spec

-----------------------------------------------------------------------------
(* Calls, extents and element counts.                                      *)
Entries == DOMAIN Arguments

LEMMA ShapeFacts ==
  ASSUME NEW s \in Seq(Nat), Len(s) <= 4
  PROVE  Len(s) \in 0 .. 4 /\ \A n \in 1 .. Len(s) : s[n] \in Nat
<1>1. Len(s) \in Nat
  OBVIOUS
<1>2. \A n \in 1 .. Len(s) : s[n] \in Nat
  BY ElementOfSeq
<1> DEFINE size == Len(s)
<1>3. size \in Nat /\ size <= 4
  BY <1>1
<1> HIDE DEF size
<1>4. size \in 0 .. 4
  BY <1>3
<1> QED BY <1>2, <1>4 DEF size

LEMMA CallFacts ==
  ASSUME call \in Calls
  PROVE  /\ call.entry \in Entries /\ DOMAIN call.arg = Arguments[call.entry]
         /\ KeepsContract(call)
         /\ call.place \in [DOMAIN call.arg -> DOMAIN call.arg]
         /\ call.param \in Int
         /\ \A a \in DOMAIN call.arg :
              /\ Arg(a).shape \in Seq(Nat) /\ Rank(a) \in 0 .. 4
              /\ \A n \in 1 .. Rank(a) : Dim(a, n) \in Nat
<1>1. IsCall(call) /\ KeepsContract(call)
  BY CellKernelsAssumption
<1>2. ASSUME NEW a \in DOMAIN call.arg
      PROVE  /\ Arg(a).shape \in Seq(Nat) /\ Rank(a) \in 0 .. 4
             /\ \A n \in 1 .. Rank(a) : Dim(a, n) \in Nat
  <2>1. Arg(a).shape \in Seq(Nat) /\ Len(Arg(a).shape) <= 4
    BY <1>1 DEF IsCall, IsShape, MaxRank, Arg
  <2>2. Len(Arg(a).shape) \in 0 .. 4 /\ \A n \in 1 .. Len(Arg(a).shape) : Arg(a).shape[n] \in Nat
    BY ONLY <2>1, ShapeFacts
  <2> QED BY <2>1, <2>2 DEF Rank, Dim
<1> QED BY <1>1, <1>2 DEF IsCall, Entries

LEMMA NumelFacts ==
  ASSUME call \in Calls, NEW a \in DOMAIN call.arg
  PROVE  /\ Rank(a) = 0 => Numel(a) = 0
         /\ Rank(a) = 1 => Numel(a) = Dim(a, 1)
         /\ Rank(a) = 2 => Numel(a) = Dim(a, 1) * Dim(a, 2)
         /\ Rank(a) = 3 => Numel(a) = (Dim(a, 1) * Dim(a, 2)) * Dim(a, 3)
         /\ Rank(a) = 4 => Numel(a) = ((Dim(a, 1) * Dim(a, 2)) * Dim(a, 3)) * Dim(a, 4)
<1> DEFINE s == Arg(a).shape
           product[n \in 0 .. Len(s)] == IF n = 0 THEN 1 ELSE s[n] * product[n - 1]
<1>1. s \in Seq(Nat) /\ Len(s) \in 0 .. 4
  BY CallFacts DEF Rank
<1>2. Numel(a) = IF s = <<>> THEN 0 ELSE product[Len(s)]
  BY DEF Numel
<1>3. product = [n \in 0 .. Len(s) |-> IF n = 0 THEN 1 ELSE s[n] * product[n - 1]]
  <2> DEFINE f == [n \in 0 .. Len(s) |->
                     IF n = 0 THEN 1
                     ELSE IF n = 1 THEN s[1] * 1
                     ELSE IF n = 2 THEN s[2] * (s[1] * 1)
                     ELSE IF n = 3 THEN s[3] * (s[2] * (s[1] * 1))
                     ELSE s[4] * (s[3] * (s[2] * (s[1] * 1)))]
  <2>1. \A n \in 0 .. Len(s) : f[n] = IF n = 0 THEN 1 ELSE s[n] * f[n - 1]
    <3> SUFFICES ASSUME NEW n \in 0 .. Len(s)
                 PROVE  f[n] = IF n = 0 THEN 1 ELSE s[n] * f[n - 1]
      OBVIOUS
    <3> DEFINE size == Len(s)
    <3>1. size \in 0 .. 4 /\ n \in 0 .. size
      BY <1>1
    <3> HIDE DEF s, size
    <3>2. n \in {0, 1, 2, 3, 4} /\ (n # 0 => n - 1 \in 0 .. size)
      BY <3>1
    <3>3. CASE n = 0
      BY <3>3
    <3>4. CASE n = 1
      BY <3>2, <3>4 DEF size
    <3>5. CASE n = 2
      BY <3>2, <3>5 DEF size
    <3>6. CASE n = 3
      BY <3>2, <3>6 DEF size
    <3>7. CASE n = 4
      BY <3>2, <3>7 DEF size
    <3> QED BY <3>2, <3>3, <3>4, <3>5, <3>6, <3>7
  <2>2. f = [n \in 0 .. Len(s) |-> f[n]]
    OBVIOUS
  <2> HIDE DEF f
  <2>3. f = [n \in 0 .. Len(s) |-> IF n = 0 THEN 1 ELSE s[n] * f[n - 1]]
    BY <2>1, <2>2
  <2>4. \E g : g = [n \in 0 .. Len(s) |-> IF n = 0 THEN 1 ELSE s[n] * g[n - 1]]
    BY <2>3
  <2> HIDE DEF s
  <2> QED BY <2>4
<1> HIDE DEF product
<1>4. s = <<>> <=> Len(s) = 0
  BY <1>1, EmptySeq
<1> HIDE DEF s
<1>5. /\ Len(s) = 1 => product[Len(s)] = s[1]
      /\ Len(s) = 2 => product[Len(s)] = s[1] * s[2]
      /\ Len(s) = 3 => product[Len(s)] = (s[1] * s[2]) * s[3]
      /\ Len(s) = 4 => product[Len(s)] = ((s[1] * s[2]) * s[3]) * s[4]
  BY ONLY <1>1, <1>3, Multiplied
<1>6. /\ Len(s) = 0 => Numel(a) = 0
      /\ Len(s) = 1 => Numel(a) = s[1]
      /\ Len(s) = 2 => Numel(a) = s[1] * s[2]
      /\ Len(s) = 3 => Numel(a) = (s[1] * s[2]) * s[3]
      /\ Len(s) = 4 => Numel(a) = ((s[1] * s[2]) * s[3]) * s[4]
  BY ONLY <1>2, <1>4, <1>5
<1> QED BY <1>6 DEF Rank, Dim, s

LEMMA DimTypes ==
  ASSUME call \in Calls, NEW a \in DOMAIN call.arg
  PROVE  /\ Rank(a) >= 1 => Dim(a, 1) \in Nat
         /\ Rank(a) >= 2 => Dim(a, 2) \in Nat
         /\ Rank(a) >= 3 => Dim(a, 3) \in Nat
         /\ Rank(a) >= 4 => Dim(a, 4) \in Nat
<1> DEFINE rank == Rank(a)
<1>1. rank \in 0 .. 4 /\ \A n \in 1 .. rank : Dim(a, n) \in Nat
  BY CallFacts
<1> HIDE DEF rank
<1>2. /\ rank >= 1 => 1 \in 1 .. rank
      /\ rank >= 2 => 2 \in 1 .. rank
      /\ rank >= 3 => 3 \in 1 .. rank
      /\ rank >= 4 => 4 \in 1 .. rank
  BY <1>1
<1> QED BY <1>1, <1>2 DEF rank

LEMMA DimsOfFour ==
  ASSUME NEW a, NEW x1, NEW x2, NEW x3, NEW x4, Arg(a).shape = <<x1, x2, x3, x4>>
  PROVE  Rank(a) = 4 /\ Dim(a, 1) = x1 /\ Dim(a, 2) = x2 /\ Dim(a, 3) = x3 /\ Dim(a, 4) = x4
  BY DEF Rank, Dim

LEMMA DimsOfThree ==
  ASSUME NEW a, NEW x1, NEW x2, NEW x3, Arg(a).shape = <<x1, x2, x3>>
  PROVE  Rank(a) = 3 /\ Dim(a, 1) = x1 /\ Dim(a, 2) = x2 /\ Dim(a, 3) = x3
  BY DEF Rank, Dim

LEMMA SameShape ==
  ASSUME NEW a, NEW b, Arg(a).shape = Arg(b).shape
  PROVE  Numel(a) = Numel(b)
  BY DEF Numel

LEMMA NumelType ==
  ASSUME call \in Calls, NEW a \in DOMAIN call.arg
  PROVE  Numel(a) \in Nat
<1> DEFINE rank == Rank(a)
<1>1. rank \in 0 .. 4 /\ \A n \in 1 .. rank : Dim(a, n) \in Nat
  BY CallFacts
<1>2. /\ rank = 0 => Numel(a) = 0
      /\ rank = 1 => Numel(a) = Dim(a, 1)
      /\ rank = 2 => Numel(a) = Dim(a, 1) * Dim(a, 2)
      /\ rank = 3 => Numel(a) = (Dim(a, 1) * Dim(a, 2)) * Dim(a, 3)
      /\ rank = 4 => Numel(a) = ((Dim(a, 1) * Dim(a, 2)) * Dim(a, 3)) * Dim(a, 4)
  BY NumelFacts
<1>3. \A m, n \in Nat : m * n \in Nat
  BY SMT
<1> HIDE DEF rank
<1>4. rank >= 1 => Dim(a, 1) \in Nat
  BY <1>1
<1>5. rank >= 2 => Dim(a, 2) \in Nat
  BY <1>1
<1>6. rank >= 3 => Dim(a, 3) \in Nat
  BY <1>1
<1>7. rank >= 4 => Dim(a, 4) \in Nat
  BY <1>1
<1>8. CASE rank = 0
  BY <1>2, <1>8
<1>9. CASE rank = 1
  BY <1>2, <1>4, <1>9
<1>10. CASE rank = 2
  BY <1>2, <1>3, <1>4, <1>5, <1>10
<1>11. CASE rank = 3
  BY <1>2, <1>3, <1>4, <1>5, <1>6, <1>11
<1>12. CASE rank = 4
  BY <1>2, <1>3, <1>4, <1>5, <1>6, <1>7, <1>12
<1> QED BY <1>1, <1>8, <1>9, <1>10, <1>11, <1>12

(* What every accepted call's tensors are, and those that may share memory *)
(* have the same extents.                                                  *)
LEMMA ArgumentFacts ==
  ASSUME Running
  PROVE  /\ \A a \in DOMAIN call.arg : Arg(a).data /\ Arg(a).dtype = ElementType(a)
         /\ \A a, b \in MayAlias(call.entry) : Arg(a).shape = Arg(b).shape
<1>1. /\ call.entry \in Entries /\ DOMAIN call.arg = Arguments[call.entry]
      /\ KeepsContract(call)
  BY CallFacts DEF Running
<1>2. CASE call.entry = "fill_value"
  <2>1. Arg("dst").dtype = call.type /\ valid("dst")
    BY <1>1, <1>2 DEF Running, Accepts, Fits, Arguments
  <2> QED BY <1>1, <1>2, <2>1 DEF ElementType, Arguments, valid, MayAlias
<1>3. CASE call.entry = "fill_rng"
  BY <1>1, <1>3 DEF KeepsContract, Arg, ElementType, Arguments, MayAlias
<1>4. CASE call.entry = "gelu_fwd"
  <2>1. Elementwise("x") /\ \A a \in DOMAIN call.arg : valid(a)
    BY <1>4 DEF Running, Accepts, Fits
  <2> QED BY <1>1, <1>4, <2>1
          DEF Elementwise, OfShape, OfType, ElementType, Arguments, valid, MayAlias
<1>5. CASE call.entry = "residual_fwd"
  <2>1. Elementwise("a") /\ \A a \in DOMAIN call.arg : valid(a)
    BY <1>5 DEF Running, Accepts, Fits
  <2> QED BY <1>1, <1>5, <2>1
          DEF Elementwise, OfShape, OfType, ElementType, Arguments, valid, MayAlias
<1>6. CASE call.entry = "permute_split"
  <2>1. SplitFits /\ \A a \in DOMAIN call.arg : valid(a)
    BY <1>6 DEF Running, Accepts, Fits
  <2> QED BY <1>1, <1>6, <2>1 DEF SplitFits, OfType, ElementType, Arguments, valid, MayAlias
<1>7. CASE call.entry = "permute_merge"
  <2>1. MergeFits /\ \A a \in DOMAIN call.arg : valid(a)
    BY <1>7 DEF Running, Accepts, Fits
  <2> QED BY <1>1, <1>7, <2>1 DEF MergeFits, OfType, ElementType, Arguments, valid, MayAlias
<1>8. CASE call.entry = "embedding_fwd"
  <2>1. EmbeddingFits /\ \A a \in DOMAIN call.arg : valid(a)
    BY <1>8 DEF Running, Accepts, Fits
  <2> QED BY <1>1, <1>8, <2>1 DEF EmbeddingFits, OfType, ElementType, Arguments, valid, MayAlias
<1>9. CASE call.entry = "rope_fwd"
  <2>1. RopeFits /\ \A a \in DOMAIN call.arg : valid(a)
    BY <1>9 DEF Running, Accepts, Fits
  <2> QED BY <1>1, <1>9, <2>1 DEF RopeFits, OfType, ElementType, Arguments, valid, MayAlias
<1>10. CASE call.entry = "softmax_fwd"
  <2>1. SoftmaxFits /\ \A a \in DOMAIN call.arg : valid(a)
    BY <1>10 DEF Running, Accepts, Fits
  <2> QED BY <1>1, <1>10, <2>1 DEF SoftmaxFits, OfType, ElementType, Arguments, valid, MayAlias
<1>11. CASE call.entry = "rmsnorm_fwd"
  <2>1. RmsnormFits /\ \A a \in DOMAIN call.arg : valid(a)
    BY <1>11 DEF Running, Accepts, Fits
  <2> QED BY <1>1, <1>11, <2>1 DEF RmsnormFits, OfType, ElementType, Arguments, valid, MayAlias
<1>12. CASE call.entry = "cross_entropy_fwd"
  <2>1. CrossEntropyFits /\ \A a \in DOMAIN call.arg : valid(a)
    BY <1>12 DEF Running, Accepts, Fits
  <2> QED BY <1>1, <1>12, <2>1
          DEF CrossEntropyFits, OfType, ElementType, Arguments, valid, MayAlias
<1> QED BY <1>1, <1>2, <1>3, <1>4, <1>5, <1>6, <1>7, <1>8, <1>9, <1>10, <1>11, <1>12
        DEF Entries, Arguments

(* An element of an argument is one of the tensor whose memory it names.   *)
LEMMA ElementsInTensor ==
  ASSUME Running, NEW a \in DOMAIN call.arg, NEW n \in 0 .. Numel(a) - 1
  PROVE  InTensor(Cell(a, n))
<1> DEFINE home == call.place[a]
<1>1. home \in DOMAIN call.arg /\ KeepsContract(call)
  BY CallFacts DEF Running
<1>2. Arg(home).shape = Arg(a).shape
  <2>1. CASE home = a
    BY <2>1
  <2>2. CASE home # a
    <3>1. {a, home} \subseteq MayAlias(call.entry)
      BY <1>1, <2>2 DEF KeepsContract
    <3> QED BY <3>1, ArgumentFacts
  <2> QED BY <2>1, <2>2
<1>3. Numel(home) = Numel(a)
  BY <1>2 DEF Numel
<1>4. Arg(home).data /\ Arg(home).dtype = ElementType(home)
  BY <1>1, ArgumentFacts
<1>5. Cell(a, n)[1] = home /\ Cell(a, n)[2] = n
  BY DEF Cell
<1> HIDE DEF home
<1> QED BY <1>3, <1>4, <1>5 DEF InTensor

-----------------------------------------------------------------------------
(* Each worker has cells of its own, and all may read some that nobody     *)
(* owns: this is what keeps the workers of a kernel apart.                 *)
Disciplined(own, common) ==
  /\ \A i \in Active : /\ DOMAIN Worker(i) \subseteq own[i]
                       /\ Reads(Worker(i)) \subseteq own[i] \cup common
                       /\ own[i] \cap common = {}
  /\ \A i, j \in Active : i # j => own[i] \cap own[j] = {}
  /\ \A i \in Active : \A x \in own[i] : InTensor(x)
  /\ \A x \in common : InTensor(x)

LEMMA DisciplineSuffices ==
  ASSUME NEW own, NEW common, Disciplined(own, common)
  PROVE  InBounds /\ OneWriter
<1>1. InBounds
  <2> SUFFICES ASSUME NEW i \in Active, NEW x \in DOMAIN Worker(i)
               PROVE  InTensor(x) /\ \A n \in DOMAIN Worker(i)[x].from :
                                       InTensor(Worker(i)[x].from[n])
    BY DEF InBounds
  <2>1. InTensor(x)
    BY DEF Disciplined
  <2>2. ASSUME NEW n \in DOMAIN Worker(i)[x].from
        PROVE  InTensor(Worker(i)[x].from[n])
    <3>1. Worker(i)[x].from[n] \in Reads(Worker(i))
      BY <2>2 DEF Reads
    <3> QED BY <3>1 DEF Disciplined
  <2> QED BY <2>1, <2>2
<1>2. OneWriter
  <2> DEFINE work == [i \in Active |-> Worker(i)]
  <2> SUFFICES ASSUME NEW i \in Active, NEW j \in Active, i # j
               PROVE  DOMAIN work[i] \cap (DOMAIN work[j] \cup Reads(work[j])) = {}
    BY DEF OneWriter
  <2>1. work[i] = Worker(i) /\ work[j] = Worker(j)
    OBVIOUS
  <2> HIDE DEF work
  <2>2. /\ DOMAIN work[i] \subseteq own[i] /\ DOMAIN work[j] \subseteq own[j]
        /\ Reads(work[j]) \subseteq own[j] \cup common
    BY <2>1 DEF Disciplined
  <2>3. own[i] \cap own[j] = {} /\ own[i] \cap common = {}
    BY DEF Disciplined
  <2> QED BY <2>2, <2>3
<1> QED BY <1>1, <1>2

LEMMA ActiveFacts ==
  ASSUME Work \in Int, NEW i \in Active
  PROVE  i \in Nat /\ i < Work
<1>1. PerBlock \in Nat \ {0}
  BY CellKernelsAssumption DEF PerBlock
<1>2. Grid \in Int
  BY <1>1, SMT DEF Grid
<1>3. Grid * PerBlock - 1 \in Int
  BY <1>1, <1>2, SMT
<1> QED BY <1>3 DEF Active

(* Most kernels give worker i row i of some arguments.                     *)
Stripe(a, i, w) == {Cell(a, i * w + k) : k \in 0 .. w - 1}
Stripes(width, i) == UNION {Stripe(a, i, width[a]) : a \in DOMAIN width}
Whole(a) == {Cell(a, n) : n \in 0 .. Numel(a) - 1}
Wholes(names) == UNION {Whole(a) : a \in names}

LEMMA StripesSuffice ==
  ASSUME Running, Work \in Int,
         NEW width, DOMAIN width \subseteq DOMAIN call.arg,
         NEW names \in SUBSET DOMAIN call.arg,
         \A a \in DOMAIN width : width[a] \in Nat /\ (Work > 0 => Work * width[a] <= Numel(a)),
         \A a, b \in DOMAIN width : call.place[a] = call.place[b] => width[a] = width[b],
         \A a \in DOMAIN width, b \in names : call.place[a] # call.place[b],
         \A i \in Active : /\ DOMAIN Worker(i) \subseteq Stripes(width, i)
                           /\ Reads(Worker(i)) \subseteq Stripes(width, i) \cup Wholes(names)
  PROVE  InBounds /\ OneWriter
<1> DEFINE own == [i \in Active |-> Stripes(width, i)]
           common == Wholes(names)
<1>1. call \in Calls
  BY DEF Running
<1>2. ASSUME NEW i \in Active, NEW x \in own[i]
      PROVE  \E a \in DOMAIN width : \E k \in 0 .. width[a] - 1 : x = Cell(a, i * width[a] + k)
  BY DEF Stripes, Stripe
<1>3. ASSUME NEW x \in common
      PROVE  \E b \in names : \E n \in 0 .. Numel(b) - 1 : x = Cell(b, n)
  BY DEF Wholes, Whole
<1>4. \A i \in Active : /\ DOMAIN Worker(i) \subseteq own[i]
                        /\ Reads(Worker(i)) \subseteq own[i] \cup common
  OBVIOUS
<1> HIDE DEF own, common
<1>5. ASSUME NEW i \in Active, NEW x \in own[i], x \in common
      PROVE  FALSE
  <2>1. PICK a \in DOMAIN width : \E k \in 0 .. width[a] - 1 : x = Cell(a, i * width[a] + k)
    BY <1>2
  <2>2. PICK b \in names : \E n \in 0 .. Numel(b) - 1 : x = Cell(b, n)
    BY <1>3, <1>5
  <2>3. x[1] = call.place[a] /\ x[1] = call.place[b]
    BY <2>1, <2>2 DEF Cell
  <2> QED BY <2>3
<1>6. ASSUME NEW i \in Active, NEW j \in Active, i # j, NEW x \in own[i], x \in own[j]
      PROVE  FALSE
  <2>1. PICK a \in DOMAIN width : \E m \in 0 .. width[a] - 1 : x = Cell(a, i * width[a] + m)
    BY <1>2
  <2>2. PICK m \in 0 .. width[a] - 1 : x = Cell(a, i * width[a] + m)
    BY <2>1
  <2>3. PICK b \in DOMAIN width : \E k \in 0 .. width[b] - 1 : x = Cell(b, j * width[b] + k)
    BY <1>2, <1>6
  <2>4. PICK k \in 0 .. width[b] - 1 : x = Cell(b, j * width[b] + k)
    BY <2>3
  <2>5. /\ call.place[a] = call.place[b]
        /\ i * width[a] + m = j * width[b] + k
    BY <2>2, <2>4 DEF Cell
  <2> DEFINE w == width[a]
  <2>6. w = width[b] /\ w \in Nat
    BY <2>5
  <2>7. i \in Nat /\ j \in Nat
    BY ActiveFacts
  <2>8. i * w + m = j * w + k
    BY <2>5, <2>6
  <2>9. m \in 0 .. w - 1 /\ k \in 0 .. w - 1
    BY <2>6
  <2> HIDE DEF w
  <2>10. m \in Nat /\ k \in Nat /\ m < w /\ k < w
    BY <2>6, <2>9
  <2>11. i = j
    BY ONLY <2>6, <2>7, <2>8, <2>10, RowsApart
  <2> QED BY <1>6, <2>11
<1>7. ASSUME NEW i \in Active, NEW x \in own[i]
      PROVE  InTensor(x)
  <2>1. PICK a \in DOMAIN width : \E k \in 0 .. width[a] - 1 : x = Cell(a, i * width[a] + k)
    BY <1>2
  <2>2. PICK k \in 0 .. width[a] - 1 : x = Cell(a, i * width[a] + k)
    BY <2>1
  <2> DEFINE w == width[a]
             rows == Work
  <2>3. w \in Nat /\ i \in Nat /\ i < rows /\ k \in 0 .. w - 1 /\ rows \in Int
    BY ActiveFacts
  <2>4. rows * w <= Numel(a) /\ Numel(a) \in Nat /\ a \in DOMAIN call.arg
    BY <1>1, <2>3, NumelType
  <2> HIDE DEF w, rows
  <2>5. rows \in Nat /\ k \in Nat /\ k < w
    BY <2>3
  <2>6. i * w + k \in Nat /\ i * w + k < rows * w
    BY <2>3, <2>5, RowElement
  <2>7. rows * w \in Nat
    BY <2>3, <2>5, SMT
  <2>8. i * w + k \in 0 .. Numel(a) - 1
    BY <2>4, <2>6, <2>7
  <2>9. InTensor(Cell(a, i * w + k))
    BY <2>4, <2>8, ElementsInTensor
  <2> QED BY <2>2, <2>9 DEF w
<1>8. ASSUME NEW x \in common
      PROVE  InTensor(x)
  BY <1>3, <1>8, ElementsInTensor
<1>9. Disciplined(own, common)
  BY <1>4, <1>5, <1>6, <1>7, <1>8 DEF Disciplined
<1> QED BY <1>9, DisciplineSuffices

-----------------------------------------------------------------------------
(* What a worker reads, from the cells of its terms.                       *)
LEMMA ReadsWithin ==
  ASSUME NEW writes, NEW S, \A x \in DOMAIN writes : writes[x].from \in Seq(S)
  PROVE  Reads(writes) \subseteq S
<1> SUFFICES ASSUME NEW x \in DOMAIN writes, NEW n \in DOMAIN writes[x].from
             PROVE  writes[x].from[n] \in S
  BY DEF Reads
<1> DEFINE from == writes[x].from
<1>1. from \in Seq(S) /\ n \in DOMAIN from
  OBVIOUS
<1> HIDE DEF from
<1>2. DOMAIN from = 1 .. Len(from)
  BY <1>1
<1>3. from[n] \in S
  BY <1>1, <1>2, ElementOfSeq
<1> QED BY <1>3 DEF from

LEMMA WritesOne ==
  ASSUME NEW a, NEW i, NEW op, NEW S, NEW from \in Seq(S), NEW at
  PROVE  /\ DOMAIN Elements(a, i, Term(op, from, at)) = {Cell(a, i)}
         /\ Reads(Elements(a, i, Term(op, from, at))) \subseteq S
<1> DEFINE writes == Elements(a, i, Term(op, from, at))
<1>1. Term(op, from, at).from = from
  BY DEF Term
<1>2. DOMAIN writes = {Cell(a, i)} /\ \A x \in DOMAIN writes : writes[x].from = from
  BY <1>1 DEF Elements
<1> HIDE DEF writes
<1>3. Reads(writes) \subseteq S
  BY <1>2, ReadsWithin
<1> QED BY <1>2, <1>3 DEF writes

LEMMA ShortSequences ==
  ASSUME NEW S
  PROVE  /\ <<>> \in Seq(S)
         /\ \A x \in S : <<x>> \in Seq(S)
         /\ \A x, y \in S : <<x, y>> \in Seq(S)
  OBVIOUS

LEMMA InStripes ==
  ASSUME NEW width, NEW i, NEW a \in DOMAIN width
  PROVE  /\ \A k \in 0 .. width[a] - 1 : Cell(a, i * width[a] + k) \in Stripes(width, i)
         /\ width[a] = 1 /\ i \in Nat => Cell(a, i) \in Stripes(width, i)
<1>1. \A k \in 0 .. width[a] - 1 : Cell(a, i * width[a] + k) \in Stripes(width, i)
  BY DEF Stripes, Stripe
<1>2. ASSUME width[a] = 1, i \in Nat  PROVE Cell(a, i) \in Stripes(width, i)
  <2>1. 0 \in 0 .. width[a] - 1 /\ i * width[a] + 0 = i
    BY <1>2
  <2>2. Cell(a, i * width[a] + 0) \in Stripes(width, i)
    BY <1>1, <2>1
  <2> QED BY <2>1, <2>2
<1> QED BY <1>1, <1>2

LEMMA InWholes ==
  ASSUME NEW names, NEW a \in names, NEW n \in Nat, n < Numel(a), Numel(a) \in Nat
  PROVE  Cell(a, n) \in Wholes(names)
<1>1. n \in 0 .. Numel(a) - 1
  OBVIOUS
<1> QED BY <1>1 DEF Wholes, Whole

(* Where an argument lies.                                                 *)
LEMMA Places ==
  ASSUME call \in Calls, NEW a \in DOMAIN call.arg
  PROVE  /\ a \in MayAlias(call.entry) => call.place[a] \in MayAlias(call.entry)
         /\ a \notin MayAlias(call.entry) => call.place[a] = a
<1>1. KeepsContract(call)
  BY CallFacts
<1> QED BY <1>1 DEF KeepsContract

-----------------------------------------------------------------------------
(* Kernels that give worker i element i of each output, and memory of its  *)
(* own to every argument.                                                  *)
LEMMA OneElementEach ==
  ASSUME Running, Work \in Int, MayAlias(call.entry) = {},
         NEW outs \in SUBSET DOMAIN call.arg, NEW names \in SUBSET DOMAIN call.arg,
         outs \cap names = {},
         \A a \in outs : Work > 0 => Work <= Numel(a),
         \A i \in Active : /\ DOMAIN Worker(i) \subseteq {Cell(a, i) : a \in outs}
                           /\ Reads(Worker(i)) \subseteq Wholes(names)
  PROVE  InBounds /\ OneWriter
<1> DEFINE width == [a \in outs |-> 1]
<1>1. DOMAIN width = outs /\ \A a \in outs : width[a] = 1
  OBVIOUS
<1> HIDE DEF width
<1>2. \A a \in DOMAIN call.arg : call.place[a] = a
  BY Places DEF Running
<1>3. \A a \in DOMAIN width : width[a] \in Nat /\ (Work > 0 => Work * width[a] <= Numel(a))
  BY <1>1
<1>4. \A a, b \in DOMAIN width : call.place[a] = call.place[b] => width[a] = width[b]
  BY <1>1
<1>5. \A a \in DOMAIN width, b \in names : call.place[a] # call.place[b]
  BY <1>1, <1>2
<1>6. ASSUME NEW i \in Active
      PROVE  /\ DOMAIN Worker(i) \subseteq Stripes(width, i)
             /\ Reads(Worker(i)) \subseteq Stripes(width, i) \cup Wholes(names)
  <2>1. i \in Nat
    BY ActiveFacts
  <2>2. \A a \in outs : Cell(a, i) \in Stripes(width, i)
    BY <1>1, <2>1, InStripes
  <2> QED BY <2>2
<1> QED BY <1>1, <1>3, <1>4, <1>5, <1>6, StripesSuffice

-----------------------------------------------------------------------------
(* The kernels, one by one.                                                *)
LEMMA FillDisciplined ==
  ASSUME Running, call.entry \in {"fill_value", "fill_rng"}
  PROVE  InBounds /\ OneWriter
<1>1. /\ pc = "all" /\ call \in Calls /\ DOMAIN call.arg = {"dst"} /\ KeepsContract(call)
      /\ MayAlias(call.entry) = {}
  BY CallFacts DEF Running, Arguments, MayAlias
<1>2. Work \in Int /\ (Work > 0 => Work <= Numel("dst"))
  <2>1. CASE call.entry = "fill_value"
    BY <1>1, <2>1, NumelType DEF Work, RowKernel
  <2>2. CASE call.entry = "fill_rng"
    <3>1. /\ Len(call.arg["dst"].shape) = 1 /\ call.param <= call.arg["dst"].shape[1]
          /\ call.param \in Int
      BY <1>1, <2>2, CallFacts DEF KeepsContract
    <3>2. Numel("dst") = Dim("dst", 1)
      BY <1>1, <3>1, NumelFacts DEF Rank, Arg
    <3> QED BY <1>1, <2>2, <3>1, <3>2, NumelType DEF Work, RowKernel, Dim, Arg
  <2> QED BY <2>1, <2>2
<1>3. ASSUME NEW i \in Active
      PROVE  /\ DOMAIN Worker(i) \subseteq {Cell(a, i) : a \in {"dst"}}
             /\ Reads(Worker(i)) \subseteq Wholes({})
  <2>1. \/ Worker(i) = Elements("dst", i, Term("value", <<>>, <<>>))
        \/ Worker(i) = Elements("dst", i, Term("draw", <<>>, <<i>>))
    BY <1>1 DEF Worker
  <2>2. <<>> \in Seq(Wholes({}))
    BY ShortSequences
  <2>3. /\ DOMAIN Elements("dst", i, Term("value", <<>>, <<>>)) = {Cell("dst", i)}
        /\ Reads(Elements("dst", i, Term("value", <<>>, <<>>))) \subseteq Wholes({})
    BY <2>2, WritesOne
  <2>4. /\ DOMAIN Elements("dst", i, Term("draw", <<>>, <<i>>)) = {Cell("dst", i)}
        /\ Reads(Elements("dst", i, Term("draw", <<>>, <<i>>))) \subseteq Wholes({})
    BY <2>2, WritesOne
  <2> QED BY <2>1, <2>3, <2>4
<1> DEFINE outs == {"dst"}
           names == {}
<1>4. /\ outs \in SUBSET DOMAIN call.arg /\ names \in SUBSET DOMAIN call.arg
      /\ outs \cap names = {} /\ \A a \in outs : Work > 0 => Work <= Numel(a)
  BY <1>1, <1>2
<1>5. \A i \in Active : /\ DOMAIN Worker(i) \subseteq {Cell(a, i) : a \in outs}
                        /\ Reads(Worker(i)) \subseteq Wholes(names)
  BY <1>3
<1> HIDE DEF outs, names
<1> QED BY <1>1, <1>2, <1>4, <1>5, OneElementEach

LEMMA ElementwiseDisciplined ==
  ASSUME Running, call.entry \in {"gelu_fwd", "residual_fwd"}
  PROVE  InBounds /\ OneWriter
<1> DEFINE width == [a \in Arguments[call.entry] |-> 1]
<1>1. pc = "all" /\ call \in Calls /\ DOMAIN call.arg = Arguments[call.entry]
  BY CallFacts DEF Running
<1>2. \A a \in DOMAIN call.arg : Numel(a) = Work /\ Numel(a) \in Nat
  <2>1. \A a, b \in DOMAIN call.arg : Arg(a).shape = Arg(b).shape
    BY <1>1, ArgumentFacts DEF MayAlias
  <2>2. \A a, b \in DOMAIN call.arg : Numel(a) = Numel(b)
    <3> SUFFICES ASSUME NEW a \in DOMAIN call.arg, NEW b \in DOMAIN call.arg
                 PROVE  Numel(a) = Numel(b)
      OBVIOUS
    <3>1. Arg(a).shape = Arg(b).shape
      BY <2>1
    <3> QED BY <3>1 DEF Numel
  <2>3. CASE call.entry = "gelu_fwd"
    BY <1>1, <2>2, <2>3, NumelType DEF Work, RowKernel, Arguments
  <2>4. CASE call.entry = "residual_fwd"
    BY <1>1, <2>2, <2>4, NumelType DEF Work, RowKernel, Arguments
  <2> QED BY <2>3, <2>4
<1>3. Work \in Int /\ Work \in Nat
  BY <1>1, <1>2 DEF Arguments
<1>4. ASSUME NEW i \in Active
      PROVE  /\ DOMAIN Worker(i) \subseteq Stripes(width, i)
             /\ Reads(Worker(i)) \subseteq Stripes(width, i)
  <2>1. i \in Nat
    BY <1>3, ActiveFacts
  <2>2. \A a \in Arguments[call.entry] : Cell(a, i) \in Stripes(width, i)
    BY <2>1, InStripes
  <2>3. CASE call.entry = "gelu_fwd"
    <3>1. Worker(i) = Elements("y", i, Term("gelu", <<Cell("x", i)>>, <<>>))
      BY <1>1, <2>3 DEF Worker
    <3>2. Cell("x", i) \in Stripes(width, i) /\ Cell("y", i) \in Stripes(width, i)
      BY <2>2, <2>3 DEF Arguments
    <3>3. <<Cell("x", i)>> \in Seq(Stripes(width, i))
      BY <3>2, ShortSequences
    <3>4. /\ DOMAIN Elements("y", i, Term("gelu", <<Cell("x", i)>>, <<>>)) = {Cell("y", i)}
          /\ Reads(Elements("y", i, Term("gelu", <<Cell("x", i)>>, <<>>))) \subseteq Stripes(width, i)
      BY <3>3, WritesOne
    <3> QED BY <3>1, <3>2, <3>4
  <2>4. CASE call.entry = "residual_fwd"
    <3>1. Worker(i) = Elements("out", i, Term("add", <<Cell("a", i), Cell("b", i)>>, <<>>))
      BY <1>1, <2>4 DEF Worker
    <3>2. /\ Cell("a", i) \in Stripes(width, i) /\ Cell("b", i) \in Stripes(width, i)
          /\ Cell("out", i) \in Stripes(width, i)
      BY <2>2, <2>4 DEF Arguments
    <3>3. <<Cell("a", i), Cell("b", i)>> \in Seq(Stripes(width, i))
      BY <3>2, ShortSequences
    <3>4. /\ DOMAIN Elements("out", i, Term("add", <<Cell("a", i), Cell("b", i)>>, <<>>)) = {Cell("out", i)}
          /\ Reads(Elements("out", i, Term("add", <<Cell("a", i), Cell("b", i)>>, <<>>))) \subseteq Stripes(width, i)
      BY <3>3, WritesOne
    <3> QED BY <3>1, <3>2, <3>4
  <2> QED BY <2>3, <2>4
<1>5. DOMAIN width = DOMAIN call.arg /\ \A a \in DOMAIN width : width[a] = 1
  BY <1>1
<1> HIDE DEF width
<1>6. \A a \in DOMAIN width : width[a] \in Nat /\ (Work > 0 => Work * width[a] <= Numel(a))
  BY <1>2, <1>3, <1>5
<1>7. \A a, b \in DOMAIN width : call.place[a] = call.place[b] => width[a] = width[b]
  BY <1>5
<1>8. {} \in SUBSET DOMAIN call.arg /\ \A a \in DOMAIN width, b \in {} : call.place[a] # call.place[b]
  OBVIOUS
<1>9. \A i \in Active : /\ DOMAIN Worker(i) \subseteq Stripes(width, i)
                        /\ Reads(Worker(i)) \subseteq Stripes(width, i) \cup Wholes({})
  BY <1>4
<1> QED BY <1>3, <1>5, <1>6, <1>7, <1>8, <1>9, StripesSuffice

(* permute_split: three rows of heads side by side in a row of qkv.        *)
LEMMA SplitWidths ==
  ASSUME NEW X \in Nat, NEW P \in Nat \ {0}, X % (3 * P) = 0
  PROVE  /\ X \div (3 * P) \in Nat
         /\ X \div 3 = P * (X \div (3 * P))
         /\ X = 3 * (P * (X \div (3 * P)))
<1> DEFINE D == X \div (3 * P)
           w == 3 * P
<1>1. w \in Nat \ {0}
  BY SMT
<1>2. D \in Nat /\ X = w * D
  <2> HIDE DEF w
  <2> QED BY <1>1, SMT DEF w
<1> HIDE DEF D
<1>3. w * D = 3 * (P * D)
  BY <1>2, SMT
<1> DEFINE inner == P * D
<1>4. inner \in Nat /\ X = 3 * inner
  BY <1>2, <1>3, SMT
<1> HIDE DEF inner, w
<1>5. X \div 3 = inner
  BY <1>4, SMT
<1> QED BY <1>2, <1>4, <1>5 DEF D, inner

LEMMA SplitCoordinates ==
  ASSUME NEW B \in Nat, NEW H \in Nat, NEW T \in Nat, NEW D \in Nat,
         NEW i \in Nat, i < ((B * H) * T) * D
  PROVE  /\ i % D \in Nat /\ i % D < D
         /\ ((i \div D) \div T) % H \in Nat /\ ((i \div D) \div T) % H < H
         /\ (i \div D) % T \in Nat /\ (i \div D) % T < T
         /\ i \div (D * T * H) \in Nat /\ i \div (D * T * H) < B
<1> DEFINE rows == (B * H) * T
           n == i \div D
           heads == B * H
           m == n \div T
<1>1. rows \in Nat /\ heads \in Nat
  BY SMT
<1>2. i < rows * D
  OBVIOUS
<1> HIDE DEF rows
<1>3. n \in Nat /\ n < rows /\ i % D \in Nat /\ i % D < D
  BY ONLY <1>1, <1>2, RowOf, D \in Nat, i \in Nat DEF n
<1> HIDE DEF n, heads
<1>4. n < heads * T
  BY <1>3 DEF rows, heads
<1>5. m \in Nat /\ m < heads /\ n % T \in Nat /\ n % T < T
  BY ONLY <1>1, <1>3, <1>4, RowOf, T \in Nat DEF m
<1> HIDE DEF m
<1>6. m < B * H
  BY <1>5 DEF heads
<1>7. m % H \in Nat /\ m % H < H
  BY ONLY <1>5, <1>6, RowOf, B \in Nat, H \in Nat
<1>8. i \div (D * T * H) \in Nat /\ i \div (D * T * H) < B
  <2> DEFINE w == D * T * H
  <2>1. w \in Nat /\ ((B * H) * T) * D = B * w
    BY SMT
  <2>2. i < B * w
    BY <2>1
  <2> HIDE DEF w
  <2>3. i \div w \in Nat /\ i \div w < B
    BY ONLY <2>1, <2>2, RowOf, B \in Nat, i \in Nat
  <2> QED BY <2>3 DEF w
<1> QED BY <1>3, <1>5, <1>7, <1>8 DEF m, n

LEMMA SplitSource ==
  ASSUME NEW B \in Nat, NEW T \in Nat, NEW H \in Nat, NEW D \in Nat,
         NEW b \in Nat, b < B, NEW t \in Nat, t < T, NEW h \in Nat, h < H,
         NEW d \in Nat, d < D, NEW inner, inner = H * D
  PROVE  /\ (b * T + t) * 3 * inner + h * D + d \in Nat
         /\ \A part \in 0 .. 2 :
              /\ (b * T + t) * 3 * inner + h * D + d + part * inner \in Nat
              /\ (b * T + t) * 3 * inner + h * D + d + part * inner < (B * T) * (3 * inner)
<1> DEFINE p == b * T + t
           e == h * D + d
<1>1. p \in Nat /\ p < B * T /\ B * T \in Nat
  BY RowElement, SMT
<1>2. e \in Nat /\ e < inner /\ inner \in Nat
  BY RowElement, SMT
<1>3. e = h * D + d /\ h * D \in Nat
  BY SMT
<1> HIDE DEF p, e
<1>4. p * (3 * inner) = p * 3 * inner /\ p * 3 * inner \in Nat
  BY <1>1, <1>2, SMT
<1>5. p * 3 * inner + h * D + d \in Nat
  BY <1>3, <1>4
<1>6. ASSUME NEW part \in 0 .. 2
      PROVE  /\ p * 3 * inner + h * D + d + part * inner \in Nat
             /\ p * 3 * inner + h * D + d + part * inner < (B * T) * (3 * inner)
  <2> DEFINE q == part * inner + e
  <2>1. part \in Nat /\ part < 3
    OBVIOUS
  <2>2. q \in Nat /\ q < 3 * inner /\ 3 * inner \in Nat /\ part * inner \in Nat
    BY ONLY <1>2, <2>1, RowElement, SMT DEF q
  <2>3. q = part * inner + (h * D + d)
    BY <1>3
  <2> HIDE DEF q
  <2>4. p * (3 * inner) + q \in Nat /\ p * (3 * inner) + q < (B * T) * (3 * inner)
    BY ONLY <1>1, <2>2, RowElement
  <2>5. p * (3 * inner) + q = p * 3 * inner + h * D + d + part * inner
    BY <1>3, <1>4, <2>2, <2>3
  <2> QED BY <2>4, <2>5
<1> QED BY <1>5, <1>6 DEF p

LEMMA SplitShapes ==
  ASSUME call \in Calls, Accepts, call.entry = "permute_split"
  PROVE  /\ DOMAIN call.arg = {"qkv", "q", "k", "v"} /\ MayAlias(call.entry) = {}
         /\ Dim("q", 1) \in Nat /\ Dim("q", 2) \in Nat /\ Dim("q", 3) \in Nat /\ Dim("q", 4) \in Nat
         /\ Dim("qkv", 1) = Dim("q", 1) /\ call.param = Dim("q", 2)
         /\ Dim("qkv", 2) = Dim("q", 3) /\ HeadDim = Dim("q", 4)
         /\ Inner = Dim("q", 2) * Dim("q", 4) /\ Dim("qkv", 3) = 3 * Inner
         /\ \A a \in {"q", "k", "v"}, n \in 1 .. 4 : Dim(a, n) = Dim("q", n)
         /\ \A a \in {"q", "k", "v"} :
              Numel(a) = ((Dim("q", 1) * Dim("q", 2)) * Dim("q", 3)) * Dim("q", 4)
         /\ Numel("qkv") = (Dim("q", 1) * Dim("q", 3)) * (3 * Inner)
<1> DEFINE B == Dim("q", 1)
           H == Dim("q", 2)
           T == Dim("q", 3)
           D == Dim("q", 4)
           outs == {"q", "k", "v"}
<1>1. /\ DOMAIN call.arg = {"qkv", "q", "k", "v"} /\ MayAlias(call.entry) = {}
      /\ SplitFits /\ call.param \in Int
  BY CallFacts DEF Arguments, MayAlias, Accepts, Fits
<1>2. /\ Rank("qkv") = 3 /\ call.param > 0 /\ Dim("qkv", 3) % (3 * call.param) = 0
      /\ \A a \in outs : Arg(a).shape = <<Dim("qkv", 1), call.param, Dim("qkv", 2), HeadDim>>
  BY <1>1 DEF SplitFits, OfShape
<1>3. /\ \A a \in outs : Rank(a) = 4
      /\ B = Dim("qkv", 1) /\ H = call.param /\ T = Dim("qkv", 2) /\ D = HeadDim
  BY <1>2, DimsOfFour
<1>4. B \in Nat /\ H \in Nat /\ T \in Nat /\ D \in Nat /\ Dim("qkv", 3) \in Nat
  <2>1. Rank("q") >= 4 /\ Rank("q") >= 3 /\ Rank("q") >= 2 /\ Rank("q") >= 1 /\ Rank("qkv") >= 3
    BY <1>2, <1>3
  <2> QED BY <1>1, <2>1, DimTypes
<1>5. \A a \in outs : Numel(a) = ((B * H) * T) * D
  <2> SUFFICES ASSUME NEW a \in outs PROVE Numel(a) = ((B * H) * T) * D
    OBVIOUS
  <2>1. Dim(a, 1) = B /\ Dim(a, 2) = H /\ Dim(a, 3) = T /\ Dim(a, 4) = D
    BY <1>2 DEF Dim
  <2>2. Numel(a) = ((Dim(a, 1) * Dim(a, 2)) * Dim(a, 3)) * Dim(a, 4)
    BY <1>1, <1>3, NumelFacts
  <2> QED BY <2>1, <2>2
<1>6. \A a \in outs, n \in 1 .. 4 : Dim(a, n) = Dim("q", n)
  BY <1>2 DEF Dim
<1>7. D = Dim("qkv", 3) \div (3 * H) /\ Inner = Dim("qkv", 3) \div 3
  BY <1>1, <1>3 DEF HeadDim, Inner
<1>8. Inner = H * D /\ Dim("qkv", 3) = 3 * (H * D)
  <2> DEFINE X == Dim("qkv", 3)
  <2>1. X \in Nat /\ H \in Nat \ {0} /\ X % (3 * H) = 0
    BY <1>2, <1>3, <1>4
  <2>2. D = X \div (3 * H) /\ Inner = X \div 3
    BY <1>7
  <2> HIDE DEF X, H, D
  <2>3. X \div 3 = H * (X \div (3 * H)) /\ X = 3 * (H * (X \div (3 * H)))
    BY ONLY <2>1, SplitWidths
  <2> QED BY <2>2, <2>3 DEF X
<1>9. Numel("qkv") = (B * T) * (3 * Inner)
  <2>1. Numel("qkv") = (Dim("qkv", 1) * Dim("qkv", 2)) * Dim("qkv", 3)
    BY <1>1, <1>2, NumelFacts
  <2> QED BY <1>3, <1>8, <2>1
<1> QED BY <1>1, <1>3, <1>4, <1>5, <1>8, <1>9, <1>6

LEMMA SplitDisciplined ==
  ASSUME Running, call.entry = "permute_split"
  PROVE  InBounds /\ OneWriter
<1> DEFINE B == Dim("q", 1)
           H == Dim("q", 2)
           T == Dim("q", 3)
           D == Dim("q", 4)
           outs == {"q", "k", "v"}
           names == {"qkv"}
<1>1. /\ pc = "all" /\ call \in Calls /\ Accepts
      /\ DOMAIN call.arg = {"qkv", "q", "k", "v"} /\ MayAlias(call.entry) = {}
  BY SplitShapes DEF Running
<1>2. B = Dim("qkv", 1) /\ H = call.param /\ T = Dim("qkv", 2) /\ D = HeadDim
  BY <1>1, SplitShapes
<1>3. B \in Nat /\ H \in Nat /\ T \in Nat /\ D \in Nat
  BY <1>1, SplitShapes
<1>4. \A a \in outs : Numel(a) = ((B * H) * T) * D
  BY <1>1, SplitShapes
<1>5. Inner = H * D
  BY <1>1, SplitShapes
<1>6. Numel("qkv") = (B * T) * (3 * Inner)
  BY <1>1, SplitShapes
<1>7. Work = ((B * H) * T) * D /\ Work \in Int
  <2>1. Work = Numel("q")
    BY <1>1 DEF Work, RowKernel
  <2> QED BY <1>1, <1>4, <2>1, NumelType
<1>8. ASSUME NEW i \in Active
       PROVE  /\ DOMAIN Worker(i) \subseteq {Cell(a, i) : a \in outs}
              /\ Reads(Worker(i)) \subseteq Wholes(names)
  <2> DEFINE d == i % D
             h == ((i \div D) \div T) % H
             t == (i \div D) % T
             b == i \div (D * T * H)
             src == (b * T + t) * 3 * Inner + h * D + d
             S == Wholes(names)
  <2>1. i \in Nat /\ i < ((B * H) * T) * D
    BY <1>7, ActiveFacts
  <2>2. /\ Worker(i) = Split(i)
        /\ Split(i) = [x \in {Cell(a, i) : a \in outs} |->
             Term("copy", <<Cell("qkv", CASE x = Cell("q", i) -> src
                                          [] x = Cell("k", i) -> src + Inner
                                          [] x = Cell("v", i) -> src + 2 * Inner)>>, <<>>)]
    <3>1. Worker(i) = Split(i)
      BY <1>1 DEF Worker
    <3>2. /\ HeadDim = D /\ Dim("qkv", 2) = T /\ call.param = H
          /\ HeadAndTime(i \div D, T) = <<h, t>>
      BY <1>2 DEF HeadAndTime
    <3>3. <<h, t>>[1] = h /\ <<h, t>>[2] = t
      OBVIOUS
    <3> HIDE DEF B, H, T, D
    <3> QED BY <3>1, <3>2, <3>3 DEF Split
  <2> HIDE DEF B, H, T, D, d, h, t, b
  <2>3. src \in Nat /\ \A part \in 0 .. 2 : src + part * Inner \in Nat
                                          /\ src + part * Inner < Numel("qkv")
    <3>1. d \in Nat /\ d < D /\ h \in Nat /\ h < H /\ t \in Nat /\ t < T /\ b \in Nat /\ b < B
      <4>1. B \in Nat /\ H \in Nat /\ T \in Nat /\ D \in Nat
        BY <1>3
      <4>2. /\ i % D \in Nat /\ i % D < D
            /\ ((i \div D) \div T) % H \in Nat /\ ((i \div D) \div T) % H < H
            /\ (i \div D) % T \in Nat /\ (i \div D) % T < T
            /\ i \div (D * T * H) \in Nat /\ i \div (D * T * H) < B
        BY ONLY <4>1, <2>1, SplitCoordinates
      <4> QED BY ONLY <4>2 DEF d, h, t, b
    <3>2. Inner = H * D
      BY <1>5
    <3>3. /\ (b * T + t) * 3 * Inner + h * D + d \in Nat
          /\ \A part \in 0 .. 2 :
               /\ (b * T + t) * 3 * Inner + h * D + d + part * Inner \in Nat
               /\ (b * T + t) * 3 * Inner + h * D + d + part * Inner < (B * T) * (3 * Inner)
      BY ONLY <1>3, <3>1, <3>2, SplitSource
    <3> QED BY <1>6, <3>3 DEF src
  <2>4. \A part \in 0 .. 2 : Cell("qkv", src + part * Inner) \in S
    BY <1>1, <2>3, InWholes, NumelType
  <2>5. src + 0 * Inner = src /\ src + 1 * Inner = src + Inner
    <3>1. Inner \in Nat
      BY <1>3, <1>5, SMT
    <3> HIDE DEF src
    <3> QED BY <2>3, <3>1
  <2> HIDE DEF src, S
  <2>6. {Cell("qkv", src), Cell("qkv", src + Inner), Cell("qkv", src + 2 * Inner)} \subseteq S
    BY <2>4, <2>5
  <2>7. ASSUME NEW x \in DOMAIN Worker(i)
        PROVE  Worker(i)[x].from \in Seq(S)
    <3>1. PICK z \in S : Worker(i)[x].from = <<z>>
      BY <2>2, <2>6 DEF Term
    <3> QED BY <3>1, ShortSequences
  <2>8. Reads(Worker(i)) \subseteq S
    BY <2>7, ReadsWithin
  <2>9. DOMAIN Worker(i) = {Cell(a, i) : a \in outs}
    BY <2>2
  <2> QED BY <2>8, <2>9 DEF S
<1>9. /\ outs \in SUBSET DOMAIN call.arg /\ names \in SUBSET DOMAIN call.arg
       /\ outs \cap names = {} /\ \A a \in outs : Work > 0 => Work <= Numel(a)
  BY <1>1, <1>4, <1>7
<1> HIDE DEF outs, names
<1> QED BY <1>1, <1>7, <1>8, <1>9, OneElementEach

(* permute_merge: the heads of a position become one row.                  *)
LEMMA MergeSource ==
  ASSUME NEW B \in Nat, NEW H \in Nat, NEW T \in Nat, NEW D \in Nat,
         NEW inner \in Nat, inner = H * D,
         NEW i \in Nat, i < (B * T) * inner
  PROVE  /\ (((i \div (inner * T)) * H + ((i \div D) % H)) * T + ((i \div inner) % T)) * D + (i % D) \in Nat
         /\ (((i \div (inner * T)) * H + ((i \div D) % H)) * T + ((i \div inner) % T)) * D + (i % D)
              < ((B * H) * T) * D
<1> DEFINE rows == B * T
           b == i \div (inner * T)
           h == (i \div D) % H
           t == (i \div inner) % T
           d == i % D
<1>1. rows \in Nat
  BY SMT
<1>2. b \in Nat /\ b < B
  <2> DEFINE w == inner * T
  <2>1. w \in Nat /\ (B * T) * inner = B * w
    BY SMT
  <2>2. i < B * w
    BY <2>1
  <2> HIDE DEF w
  <2>3. i \div w \in Nat /\ i \div w < B
    BY ONLY <2>1, <2>2, RowOf, B \in Nat, i \in Nat
  <2> QED BY <2>3 DEF w
<1>3. t \in Nat /\ t < T
  <2> DEFINE n == i \div inner
  <2>1. i < rows * inner
    OBVIOUS
  <2> HIDE DEF rows
  <2>2. n \in Nat /\ n < rows
    BY ONLY <1>1, <2>1, RowOf, inner \in Nat, i \in Nat DEF n
  <2> HIDE DEF n
  <2>3. n < B * T
    BY <2>2 DEF rows
  <2>4. n % T \in Nat /\ n % T < T
    BY ONLY <2>2, <2>3, RowOf, B \in Nat, T \in Nat
  <2> QED BY <2>4 DEF n
<1>4. h \in Nat /\ h < H /\ d \in Nat /\ d < D
  <2> DEFINE n == i \div D
             lines == rows * H
  <2>1. lines \in Nat /\ i < lines * D
    <3>1. rows * (H * D) = (rows * H) * D /\ rows * H \in Nat
      BY <1>1, SMT
    <3> QED BY <3>1
  <2> HIDE DEF lines
  <2>2. n \in Nat /\ n < lines /\ i % D \in Nat /\ i % D < D
    BY ONLY <2>1, RowOf, D \in Nat, i \in Nat DEF n
  <2> HIDE DEF n
  <2>3. n < rows * H
    BY <2>2 DEF lines
  <2> HIDE DEF rows
  <2>4. n % H \in Nat /\ n % H < H
    BY ONLY <1>1, <2>2, <2>3, RowOf, H \in Nat
  <2> QED BY <2>2, <2>4 DEF n
<1> HIDE DEF b, h, t, d
<1> DEFINE p == b * H + h
           q == p * T + t
<1>5. p \in Nat /\ p < B * H /\ B * H \in Nat
  BY <1>2, <1>4, RowElement, SMT
<1> HIDE DEF p
<1>6. q \in Nat /\ q < (B * H) * T /\ (B * H) * T \in Nat
  BY <1>3, <1>5, RowElement, SMT
<1> HIDE DEF q
<1>7. q * D + d \in Nat /\ q * D + d < ((B * H) * T) * D
  BY ONLY <1>4, <1>6, RowElement, D \in Nat
<1> QED BY <1>7 DEF q, p, b, h, t, d

LEMMA MergeShapes ==
  ASSUME call \in Calls, Accepts, call.entry = "permute_merge"
  PROVE  /\ DOMAIN call.arg = {"x", "y"} /\ MayAlias(call.entry) = {}
         /\ Dim("x", 1) \in Nat /\ Dim("x", 2) \in Nat /\ Dim("x", 3) \in Nat /\ Dim("x", 4) \in Nat
         /\ HeadDim = Dim("x", 4) /\ Inner = Dim("x", 2) * Dim("x", 4) /\ Inner \in Nat
         /\ Dim("y", 2) = Dim("x", 3) /\ Dim("y", 3) = Inner
         /\ Numel("x") = ((Dim("x", 1) * Dim("x", 2)) * Dim("x", 3)) * Dim("x", 4)
         /\ Numel("y") = (Dim("x", 1) * Dim("x", 3)) * Inner
<1> DEFINE B == Dim("x", 1)
           H == Dim("x", 2)
           T == Dim("x", 3)
           D == Dim("x", 4)
<1>1. DOMAIN call.arg = {"x", "y"} /\ MayAlias(call.entry) = {} /\ MergeFits
  BY CallFacts DEF Arguments, MayAlias, Accepts, Fits
<1>2. Rank("x") = 4 /\ Arg("y").shape = <<B, T, H * D>>
  BY <1>1 DEF MergeFits
<1>3. B \in Nat /\ H \in Nat /\ T \in Nat /\ D \in Nat
  BY <1>1, <1>2, DimTypes
<1>4. HeadDim = D /\ Inner = H * D /\ Inner \in Nat
  <2>1. HeadDim = D /\ Inner = H * D
    BY <1>1 DEF HeadDim, Inner
  <2> QED BY <1>3, <2>1, SMT
<1>5. Rank("y") = 3 /\ Dim("y", 1) = B /\ Dim("y", 2) = T /\ Dim("y", 3) = H * D
  BY <1>2, DimsOfThree
<1>6. Numel("y") = (Dim("y", 1) * Dim("y", 2)) * Dim("y", 3)
  BY <1>1, <1>5, NumelFacts
<1>7. Numel("x") = ((B * H) * T) * D
  BY <1>1, <1>2, NumelFacts
<1> QED BY <1>1, <1>3, <1>4, <1>5, <1>6, <1>7

LEMMA MergeDisciplined ==
  ASSUME Running, call.entry = "permute_merge"
  PROVE  InBounds /\ OneWriter
<1> DEFINE B == Dim("x", 1)
           H == Dim("x", 2)
           T == Dim("x", 3)
           D == Dim("x", 4)
           outs == {"y"}
           names == {"x"}
<1>1. /\ pc = "all" /\ call \in Calls /\ Accepts
      /\ DOMAIN call.arg = {"x", "y"} /\ MayAlias(call.entry) = {}
  BY MergeShapes DEF Running
<1>2. B \in Nat /\ H \in Nat /\ T \in Nat /\ D \in Nat
  BY <1>1, MergeShapes
<1>3. HeadDim = D /\ Inner = H * D /\ Inner \in Nat
  BY <1>1, MergeShapes
<1>4. Numel("x") = ((B * H) * T) * D /\ Numel("y") = (B * T) * Inner
  BY <1>1, MergeShapes
<1>5. Work = (B * T) * Inner /\ Work \in Int /\ Inner \in Nat
  <2>1. Work = Numel("y")
    BY <1>1 DEF Work, RowKernel
  <2> QED BY <1>1, <1>3, <1>4, <2>1, NumelType
<1>6. ASSUME NEW i \in Active
      PROVE  /\ DOMAIN Worker(i) \subseteq {Cell(a, i) : a \in outs}
             /\ Reads(Worker(i)) \subseteq Wholes(names)
  <2> DEFINE src == (((i \div (Inner * T)) * H + ((i \div D) % H)) * T + ((i \div Inner) % T)) * D + (i % D)
             S == Wholes(names)
  <2>1. i \in Nat /\ i < (B * T) * Inner
    BY <1>5, ActiveFacts
  <2>2. Worker(i) = Elements("y", i, Term("copy", <<Cell("x", src)>>, <<>>))
    <3>1. Worker(i) = Merge(i)
      BY <1>1 DEF Worker
    <3> QED BY <1>3, <3>1 DEF Merge
  <2> HIDE DEF B, H, T, D
  <2>3. src \in Nat /\ src < Numel("x")
    <3>1. Inner = H * D
      BY <1>3
    <3>2. /\ (((i \div (Inner * T)) * H + ((i \div D) % H)) * T + ((i \div Inner) % T)) * D + (i % D) \in Nat
          /\ (((i \div (Inner * T)) * H + ((i \div D) % H)) * T + ((i \div Inner) % T)) * D + (i % D)
               < ((B * H) * T) * D
      BY ONLY <1>2, <1>5, <2>1, <3>1, MergeSource
    <3> QED BY <1>4, <3>2
  <2> HIDE DEF src, S
  <2>4. Cell("x", src) \in S
    BY <1>1, <2>3, InWholes, NumelType DEF S
  <2>5. <<Cell("x", src)>> \in Seq(S)
    BY <2>4, ShortSequences
  <2>6. /\ DOMAIN Elements("y", i, Term("copy", <<Cell("x", src)>>, <<>>)) = {Cell("y", i)}
        /\ Reads(Elements("y", i, Term("copy", <<Cell("x", src)>>, <<>>))) \subseteq S
    BY <2>5, WritesOne
  <2> QED BY <2>2, <2>6 DEF S
<1>7. /\ outs \in SUBSET DOMAIN call.arg /\ names \in SUBSET DOMAIN call.arg
      /\ outs \cap names = {} /\ \A a \in outs : Work > 0 => Work <= Numel(a)
  BY <1>1, <1>4, <1>5
<1> HIDE DEF outs, names
<1> QED BY <1>1, <1>5, <1>6, <1>7, OneElementEach

LEMMA AppendToPair ==
  ASSUME NEW s \in Seq(Nat), NEW w \in Nat
  PROVE  Len(s) = 2 => /\ Len(Append(s, w)) = 3
                       /\ Append(s, w)[1] = s[1] /\ Append(s, w)[2] = s[2]
                       /\ Append(s, w)[3] = w
<1> DEFINE t == Append(s, w)
           size == Len(s)
<1>1. Len(t) = size + 1
  OBVIOUS
<1>2. t[size + 1] = w
  OBVIOUS
<1>3. \A n \in 1 .. size : t[n] = s[n]
  OBVIOUS
<1> HIDE DEF t, size
<1>4. size = 2 => Len(t) = 3 /\ t[1] = s[1] /\ t[2] = s[2] /\ t[3] = w
  BY <1>1, <1>2, <1>3
<1> QED BY <1>4 DEF t, size

(* embedding_fwd: the row of the table that the token names.               *)
LEMMA EmbeddingShapes ==
  ASSUME call \in Calls, Accepts, call.entry = "embedding_fwd"
  PROVE  /\ DOMAIN call.arg = {"tokens", "wte", "y"} /\ MayAlias(call.entry) = {}
         /\ Dim("tokens", 1) \in Nat /\ Dim("tokens", 2) \in Nat
         /\ Dim("wte", 1) \in Nat /\ Dim("wte", 2) \in Nat
         /\ \A n : Id(n) \in Nat /\ Id(n) < Dim("wte", 1)
         /\ Dim("y", 1) = Dim("tokens", 1) /\ Dim("y", 2) = Dim("tokens", 2)
         /\ Dim("y", 3) = Dim("wte", 2)
         /\ Numel("tokens") = Dim("tokens", 1) * Dim("tokens", 2)
         /\ Numel("wte") = Dim("wte", 1) * Dim("wte", 2)
         /\ Numel("y") = (Dim("tokens", 1) * Dim("tokens", 2)) * Dim("wte", 2)
<1> DEFINE B == Dim("tokens", 1)
           T == Dim("tokens", 2)
           V == Dim("wte", 1)
           W == Dim("wte", 2)
<1>1. /\ DOMAIN call.arg = {"tokens", "wte", "y"} /\ MayAlias(call.entry) = {}
      /\ EmbeddingFits /\ KeepsContract(call)
  BY CallFacts DEF Arguments, MayAlias, Accepts, Fits
<1>2. Rank("tokens") = 2 /\ Rank("wte") = 2 /\ Arg("y").shape = Append(Arg("tokens").shape, W)
  BY <1>1 DEF EmbeddingFits
<1>3. B \in Nat /\ T \in Nat /\ V \in Nat /\ W \in Nat
  BY <1>1, <1>2, DimTypes
<1>4. \A n : Id(n) \in Nat /\ Id(n) < V
  <2>1. IdsBelow(call, V)
    BY <1>1, <1>2 DEF KeepsContract, Rank, Dim, Arg
  <2>2. \A n : Id(n) \in 0 .. V - 1
    BY <2>1 DEF IdsBelow, Id
  <2> HIDE DEF V
  <2> QED BY <1>3, <2>2
<1>5. /\ Numel("tokens") = B * T /\ Numel("wte") = V * W /\ Numel("y") = (B * T) * W
      /\ Dim("y", 1) = B /\ Dim("y", 2) = T /\ Dim("y", 3) = W
  <2>1. Rank("y") = 3 /\ Dim("y", 1) = B /\ Dim("y", 2) = T /\ Dim("y", 3) = W
    <3> DEFINE s == Arg("tokens").shape
    <3>1. s \in Seq(Nat) /\ Len(s) = 2 /\ B = s[1] /\ T = s[2]
      BY <1>1, <1>2, CallFacts DEF Rank, Dim
    <3> HIDE DEF s, B, T, W
    <3>2. Len(Append(s, W)) = 3 /\ Append(s, W)[1] = s[1] /\ Append(s, W)[2] = s[2]
            /\ Append(s, W)[3] = W
      BY <1>3, <3>1, AppendToPair
    <3> QED BY <1>2, <3>1, <3>2 DEF s, Rank, Dim
  <2>2. Numel("y") = (Dim("y", 1) * Dim("y", 2)) * Dim("y", 3)
    BY <1>1, <2>1, NumelFacts
  <2> QED BY <1>1, <1>2, <2>1, <2>2, NumelFacts
<1> QED BY <1>1, <1>3, <1>4, <1>5

LEMMA EmbeddingDisciplined ==
  ASSUME Running, call.entry = "embedding_fwd"
  PROVE  InBounds /\ OneWriter
<1> DEFINE B == Dim("tokens", 1)
           T == Dim("tokens", 2)
           V == Dim("wte", 1)
           W == Dim("wte", 2)
           outs == {"y"}
           names == {"tokens", "wte"}
<1>1. /\ pc = "all" /\ call \in Calls /\ Accepts
      /\ DOMAIN call.arg = {"tokens", "wte", "y"} /\ MayAlias(call.entry) = {}
  BY EmbeddingShapes DEF Running
<1>2. B \in Nat /\ T \in Nat /\ V \in Nat /\ W \in Nat
  BY <1>1, EmbeddingShapes
<1>3. \A n : Id(n) \in Nat /\ Id(n) < V
  BY <1>1, EmbeddingShapes
<1>4. Numel("tokens") = B * T /\ Numel("wte") = V * W /\ Numel("y") = (B * T) * W
  BY <1>1, EmbeddingShapes
<1>5. Work = (B * T) * W /\ Work \in Int /\ B * T \in Nat
  <2>1. Work = Numel("y")
    BY <1>1 DEF Work, RowKernel
  <2> QED BY <1>1, <1>4, <2>1, NumelType
<1>6. ASSUME NEW i \in Active
      PROVE  /\ DOMAIN Worker(i) \subseteq {Cell(a, i) : a \in outs}
             /\ Reads(Worker(i)) \subseteq Wholes(names)
  <2> DEFINE row == i \div W
             src == Id(row) * W + (i % W)
             from == <<Cell("wte", src), Cell("tokens", row)>>
             S == Wholes(names)
  <2>1. i \in Nat /\ i < (B * T) * W
    BY <1>5, ActiveFacts
  <2>2. Worker(i) = Elements("y", i, Term("gather", from, <<>>))
    <3>1. Worker(i) = Embed(i)
      BY <1>1 DEF Worker
    <3> QED BY <3>1 DEF Embed
  <2> DEFINE rows == B * T
  <2> HIDE DEF B, T, V, W
  <2>3. rows \in Nat /\ i < rows * W
    BY <1>5, <2>1
  <2> HIDE DEF rows
  <2>4. row \in Nat /\ row < rows /\ i % W \in Nat /\ i % W < W
    BY ONLY <1>2, <2>1, <2>3, RowOf DEF row
  <2> HIDE DEF row
  <2>5. src \in Nat /\ src < V * W
    BY <1>2, <1>3, <2>4, RowElement
  <2> HIDE DEF src, S
  <2>6. Cell("wte", src) \in S /\ Cell("tokens", row) \in S
    BY <1>1, <1>4, <2>4, <2>5, InWholes, NumelType DEF S, rows
  <2>7. from \in Seq(S)
    BY <2>6, ShortSequences
  <2> HIDE DEF from
  <2>8. /\ DOMAIN Elements("y", i, Term("gather", from, <<>>)) = {Cell("y", i)}
        /\ Reads(Elements("y", i, Term("gather", from, <<>>))) \subseteq S
    BY <2>7, WritesOne
  <2> QED BY <2>2, <2>8 DEF S
<1>7. /\ outs \in SUBSET DOMAIN call.arg /\ names \in SUBSET DOMAIN call.arg
      /\ outs \cap names = {} /\ \A a \in outs : Work > 0 => Work <= Numel(a)
  BY <1>1, <1>4, <1>5
<1> HIDE DEF outs, names
<1> QED BY <1>1, <1>5, <1>6, <1>7, OneElementEach

-----------------------------------------------------------------------------
(* Whole rows as the operands of a term.                                   *)
LEMMA LineIn ==
  ASSUME NEW a, NEW row \in Nat, NEW width \in Nat, NEW S,
         \A k \in 0 .. width - 1 : Cell(a, row * width + k) \in S
  PROVE  Line(a, row, width) \in Seq(S) /\ Len(Line(a, row, width)) = width
<1> DEFINE line == Line(a, row, width)
<1>1. ASSUME NEW n \in 1 .. width
      PROVE  Cell(a, row * width + n - 1) \in S
  <2>1. n - 1 \in 0 .. width - 1 /\ row * width \in Nat
    BY SMT
  <2>2. row * width + (n - 1) = row * width + n - 1
    BY <2>1
  <2> QED BY <2>1, <2>2
<1>2. line \in [1 .. width -> S]
  BY <1>1 DEF Line
<1> HIDE DEF line
<1>3. line \in Seq(S)
  BY <1>2, SeqDef
<1>4. DOMAIN line = 1 .. width
  BY <1>2
<1>5. Len(line) = width
  BY <1>3, <1>4, LenProperties
<1> QED BY <1>3, <1>5 DEF line

LEMMA LineInWhole ==
  ASSUME NEW names, NEW a \in names, NEW rows \in Nat, NEW width \in Nat,
         Numel(a) = rows * width, NEW row \in Nat, row < rows
  PROVE  Line(a, row, width) \in Seq(Wholes(names))
<1> DEFINE S == Wholes(names)
<1>1. ASSUME NEW k \in 0 .. width - 1
      PROVE  Cell(a, row * width + k) \in S
  <2>1. k \in Nat /\ k < width
    OBVIOUS
  <2>2. row * width + k \in Nat /\ row * width + k < rows * width /\ rows * width \in Nat
    BY <2>1, RowElement, SMT
  <2> QED BY <2>2, InWholes
<1> HIDE DEF S
<1>2. Line(a, row, width) \in Seq(S)
  BY <1>1, LineIn
<1> QED BY <1>2 DEF S

LEMMA FirstTwo ==
  ASSUME NEW s \in Seq(Nat)
  PROVE  Len(s) = 3 => /\ Len(SubSeq(s, 1, 2)) = 2
                       /\ SubSeq(s, 1, 2)[1] = s[1] /\ SubSeq(s, 1, 2)[2] = s[2]
<1> SUFFICES ASSUME Len(s) >= 2
             PROVE  /\ Len(SubSeq(s, 1, 2)) = 2
                    /\ SubSeq(s, 1, 2)[1] = s[1] /\ SubSeq(s, 1, 2)[2] = s[2]
  OBVIOUS
<1>1. 1 \in 1 .. Len(s) + 1 /\ 2 \in 1 - 1 .. Len(s)
  OBVIOUS
<1> DEFINE t == SubSeq(s, 1, 2)
<1>2. Len(t) = 2 - 1 + 1 /\ \A n \in 1 .. 2 - 1 + 1 : t[n] = s[1 + n - 1]
  BY <1>1, SubSeqProperties
<1> HIDE DEF t
<1> QED BY <1>2 DEF t

(* cross_entropy_fwd: its two kernels.                                     *)
LEMMA LossShapes ==
  ASSUME call \in Calls, Accepts, call.entry = "cross_entropy_fwd"
  PROVE  /\ DOMAIN call.arg = {"logits", "targets", "mask", "row_nll", "loss"}
         /\ MayAlias(call.entry) = {}
         /\ Rows \in Nat /\ Dim("logits", 3) \in Nat
         /\ Numel("row_nll") = Rows /\ Numel("mask") = Rows /\ Numel("targets") = Rows
         /\ Numel("loss") = 1 /\ Numel("logits") = Rows * Dim("logits", 3)
         /\ \A n : Id(n) \in Nat /\ Id(n) < Dim("logits", 3)
<1> DEFINE V == Dim("logits", 3)
           s == Arg("logits").shape
<1>1. /\ DOMAIN call.arg = {"logits", "targets", "mask", "row_nll", "loss"}
      /\ MayAlias(call.entry) = {} /\ CrossEntropyFits /\ KeepsContract(call)
  BY CallFacts DEF Arguments, MayAlias, Accepts, Fits
<1>2. /\ Rank("logits") = 3 /\ Numel("loss") = 1
      /\ \A a \in {"targets", "mask", "row_nll"} : Arg(a).shape = SubSeq(s, 1, 2)
  BY <1>1 DEF CrossEntropyFits, OfShape
<1>3. Dim("logits", 1) \in Nat /\ Dim("logits", 2) \in Nat /\ V \in Nat
  BY <1>1, <1>2, DimTypes
<1>4. Rows = Dim("logits", 1) * Dim("logits", 2) /\ Rows \in Nat
  <2>1. Rows = Dim("logits", 1) * Dim("logits", 2)
    BY DEF Rows
  <2> QED BY <1>3, <2>1, SMT
<1>5. Numel("logits") = Rows * V
  BY <1>1, <1>2, <1>4, NumelFacts
<1>6. ASSUME NEW a \in {"targets", "mask", "row_nll"}
      PROVE  Numel(a) = Rows
  <2>1. s \in Seq(Nat) /\ Len(s) = 3
    BY <1>1, <1>2, CallFacts DEF Rank
  <2>2. Arg(a).shape = SubSeq(s, 1, 2)
    BY <1>2
  <2>3. Rank(a) = 2 /\ Dim(a, 1) = Dim("logits", 1) /\ Dim(a, 2) = Dim("logits", 2)
    BY <2>1, <2>2, FirstTwo DEF Rank, Dim
  <2>4. Numel(a) = Dim(a, 1) * Dim(a, 2)
    BY <1>1, <2>3, NumelFacts
  <2> QED BY <1>4, <2>3, <2>4
<1>7. \A n : Id(n) \in Nat /\ Id(n) < V
  <2>1. IdsBelow(call, V)
    BY <1>1, <1>2 DEF KeepsContract, Rank, Dim, Arg
  <2>2. \A n : Id(n) \in 0 .. V - 1
    BY <2>1 DEF IdsBelow, Id
  <2> HIDE DEF V
  <2> QED BY <1>3, <2>2
<1> HIDE DEF s
<1> QED BY <1>1, <1>2, <1>3, <1>4, <1>5, <1>6, <1>7

LEMMA LossFacts ==
  ASSUME Running, call.entry = "cross_entropy_fwd"
  PROVE  /\ call \in Calls
         /\ DOMAIN call.arg = {"logits", "targets", "mask", "row_nll", "loss"}
         /\ MayAlias(call.entry) = {}
         /\ Rows \in Nat /\ Dim("logits", 3) \in Nat
         /\ Numel("row_nll") = Rows /\ Numel("mask") = Rows /\ Numel("targets") = Rows
         /\ Numel("loss") = 1 /\ Numel("logits") = Rows * Dim("logits", 3)
         /\ \A n : Id(n) \in Nat /\ Id(n) < Dim("logits", 3)
  BY LossShapes DEF Running

LEMMA LossRowsDisciplined ==
  ASSUME Running, call.entry = "cross_entropy_fwd", pc = "rows"
  PROVE  InBounds /\ OneWriter
<1> DEFINE V == Dim("logits", 3)
           outs == {"row_nll"}
           names == {"logits", "targets", "mask"}
           S == Wholes(names)
<1>1. Work = Rows /\ Work \in Int
  BY LossFacts DEF Work, RowKernel
<1>2. ASSUME NEW i \in Active
      PROVE  /\ DOMAIN Worker(i) \subseteq {Cell(a, i) : a \in outs}
             /\ Reads(Worker(i)) \subseteq S
  <2> DEFINE picked == <<Cell("mask", i), Cell("targets", i), Cell("logits", i * V + Id(i))>>
             line == Line("logits", i, V)
  <2>1. i \in Nat /\ i < Rows
    BY <1>1, ActiveFacts
  <2>2. Worker(i) = Elements("row_nll", i, Term("nll", picked \o line, <<>>))
    <3>1. Worker(i) = LossRow(i)
      BY DEF Worker
    <3> QED BY <3>1 DEF LossRow
  <2>3. line \in Seq(S)
    BY <2>1, LossFacts, LineInWhole
  <2>4. Cell("mask", i) \in S /\ Cell("targets", i) \in S
    BY <2>1, LossFacts, InWholes
  <2>5. Cell("logits", i * V + Id(i)) \in S
    <3> DEFINE n == i * V + Id(i)
    <3>1. n \in Nat /\ n < Rows * V /\ Rows * V \in Nat
      BY <2>1, LossFacts, RowElement, SMT
    <3> HIDE DEF n
    <3>2. Cell("logits", n) \in S
      BY <3>1, LossFacts, InWholes
    <3> QED BY <3>2 DEF n
  <2> HIDE DEF line, S, V
  <2>6. picked \in Seq(S)
    BY <2>4, <2>5
  <2> HIDE DEF picked
  <2>7. picked \o line \in Seq(S)
    BY <2>3, <2>6, ConcatProperties
  <2> DEFINE from == picked \o line
  <2> HIDE DEF from
  <2>8. from \in Seq(S)
    BY <2>7 DEF from
  <2>9. /\ DOMAIN Elements("row_nll", i, Term("nll", from, <<>>)) = {Cell("row_nll", i)}
        /\ Reads(Elements("row_nll", i, Term("nll", from, <<>>))) \subseteq S
    BY <2>8, WritesOne
  <2> QED BY <2>2, <2>9 DEF from
<1>3. /\ outs \in SUBSET DOMAIN call.arg /\ names \in SUBSET DOMAIN call.arg
      /\ outs \cap names = {} /\ \A a \in outs : Work > 0 => Work <= Numel(a)
  BY <1>1, LossFacts
<1>4. MayAlias(call.entry) = {}
  BY LossFacts
<1> HIDE DEF outs, names
<1> QED BY <1>1, <1>2, <1>3, <1>4, OneElementEach

LEMMA MeanDisciplined ==
  ASSUME Running, call.entry = "cross_entropy_fwd", pc = "mean"
  PROVE  InBounds /\ OneWriter
<1> DEFINE outs == {"loss"}
           names == {"row_nll", "mask"}
           S == Wholes(names)
<1>1. Work = 1 /\ Work \in Int
  BY DEF Work, RowKernel
<1>2. ASSUME NEW i \in Active
      PROVE  /\ DOMAIN Worker(i) \subseteq {Cell(a, i) : a \in outs}
             /\ Reads(Worker(i)) \subseteq S
  <2> DEFINE losses == Line("row_nll", 0, Rows)
             masks == Line("mask", 0, Rows)
  <2>1. i = 0
    BY <1>1, ActiveFacts
  <2>2. Worker(i) = Elements("loss", i, Term("mean", losses \o masks, <<>>))
    <3>1. Worker(i) = Mean
      BY DEF Worker
    <3> QED BY <2>1, <3>1 DEF Mean
  <2>3. losses \in Seq(S) /\ masks \in Seq(S)
    <3>1. Rows \in Nat /\ Numel("row_nll") = 1 * Rows /\ Numel("mask") = 1 * Rows
      BY LossFacts
    <3>2. "row_nll" \in names /\ "mask" \in names /\ 0 \in Nat /\ 1 \in Nat /\ 0 < 1
      OBVIOUS
    <3> HIDE DEF names
    <3>3. Line("row_nll", 0, Rows) \in Seq(Wholes(names))
      BY ONLY <3>1, <3>2, LineInWhole
    <3>4. Line("mask", 0, Rows) \in Seq(Wholes(names))
      BY ONLY <3>1, <3>2, LineInWhole
    <3> QED BY <3>3, <3>4
  <2> HIDE DEF losses, masks, S
  <2> DEFINE from == losses \o masks
  <2>4. from \in Seq(S)
    BY <2>3, ConcatProperties
  <2> HIDE DEF from
  <2>5. /\ DOMAIN Elements("loss", i, Term("mean", from, <<>>)) = {Cell("loss", i)}
        /\ Reads(Elements("loss", i, Term("mean", from, <<>>))) \subseteq S
    BY <2>4, WritesOne
  <2> QED BY <2>2, <2>5 DEF from
<1>3. /\ outs \in SUBSET DOMAIN call.arg /\ names \in SUBSET DOMAIN call.arg
      /\ outs \cap names = {} /\ \A a \in outs : Work > 0 => Work <= Numel(a)
  BY <1>1, LossFacts
<1>4. MayAlias(call.entry) = {}
  BY LossFacts
<1> HIDE DEF outs, names
<1> QED BY <1>1, <1>2, <1>3, <1>4, OneElementEach

-----------------------------------------------------------------------------
(* The kernels of one row per warp.                                        *)
LEMMA SoftmaxShapes ==
  ASSUME call \in Calls, Accepts, call.entry = "softmax_fwd"
  PROVE  /\ DOMAIN call.arg = {"x", "y"} /\ (Causal => Dim("x", 2) = Dim("x", 3))
         /\ Dim("x", 1) \in Nat /\ Dim("x", 2) \in Nat /\ Dim("x", 3) \in Nat
         /\ Dim("x", 1) * Dim("x", 2) \in Nat
         /\ Numel("x") = (Dim("x", 1) * Dim("x", 2)) * Dim("x", 3)
         /\ Numel("y") = (Dim("x", 1) * Dim("x", 2)) * Dim("x", 3)
<1> DEFINE B == Dim("x", 1)
           T == Dim("x", 2)
           w == Dim("x", 3)
<1>1. /\ DOMAIN call.arg = {"x", "y"}
      /\ Rank("x") = 3 /\ Arg("y").shape = Arg("x").shape /\ (Causal => T = w)
  BY CallFacts DEF Arguments, Accepts, Fits, SoftmaxFits
<1>2. B \in Nat /\ T \in Nat /\ w \in Nat /\ B * T \in Nat
  <2>1. B \in Nat /\ T \in Nat /\ w \in Nat
    BY <1>1, DimTypes
  <2> HIDE DEF B, T
  <2> QED BY <2>1, SMT
<1>3. Numel("x") = (B * T) * w /\ Numel("y") = (B * T) * w
  <2>1. Numel("y") = Numel("x")
    BY <1>1, SameShape
  <2> QED BY <1>1, <2>1, NumelFacts
<1> QED BY <1>1, <1>2, <1>3

LEMMA SoftmaxDisciplined ==
  ASSUME Running, call.entry = "softmax_fwd"
  PROVE  InBounds /\ OneWriter
<1> DEFINE B == Dim("x", 1)
           T == Dim("x", 2)
           w == Dim("x", 3)
           width == [a \in {"x", "y"} |-> w]
           names == {}
<1>1. /\ pc = "all" /\ call \in Calls /\ Accepts
      /\ DOMAIN call.arg = {"x", "y"} /\ (Causal => T = w)
  BY SoftmaxShapes DEF Running
<1>2. B \in Nat /\ T \in Nat /\ w \in Nat /\ B * T \in Nat
  BY <1>1, SoftmaxShapes
<1>3. Work = B * T /\ Work \in Int
  BY <1>1, <1>2 DEF Work, RowKernel, Rows
<1>4. Numel("x") = (B * T) * w /\ Numel("y") = (B * T) * w
  BY <1>1, SoftmaxShapes
<1>5. ASSUME NEW i \in Active
      PROVE  /\ DOMAIN Worker(i) \subseteq Stripes(width, i)
             /\ Reads(Worker(i)) \subseteq Stripes(width, i)
  <2> DEFINE S == Stripes(width, i)
             limit == IF Causal THEN (i % T) + 1 ELSE w
             line == Line("x", i, w)
             seen == SubSeq(line, 1, limit)
  <2>1. i \in Nat /\ i < B * T
    BY <1>3, ActiveFacts
  <2>2. Worker(i) = [x \in {Cell("y", i * w + n) : n \in 0 .. w - 1} |->
             IF x[2] - i * w < limit
               THEN Term("softmax", <<seen[x[2] - i * w + 1]>> \o seen, <<>>)
               ELSE Term("zero", <<>>, <<>>)]
    <3>1. Worker(i) = SoftmaxRow(i)
      BY <1>1 DEF Worker
    <3> QED BY <3>1 DEF SoftmaxRow
  <2>3. \A k \in 0 .. w - 1 : Cell("x", i * w + k) \in S /\ Cell("y", i * w + k) \in S
    <3>1. width["x"] = w /\ width["y"] = w /\ "x" \in DOMAIN width /\ "y" \in DOMAIN width
      OBVIOUS
    <3> HIDE DEF width
    <3> QED BY <3>1, InStripes
  <2> HIDE DEF B, T, w, width
  <2>4. limit \in 0 .. w
    <3>1. CASE Causal
      <4>1. i % T \in Nat /\ i % T < T
        BY ONLY <1>2, <2>1, RowOf
      <4> QED BY <1>1, <1>2, <3>1, <4>1
    <3>2. CASE ~Causal
      BY <1>2, <3>2
    <3> QED BY <3>1, <3>2
  <2> HIDE DEF S, limit
  <2>5. line \in Seq(S) /\ Len(line) = w
    BY <1>2, <2>1, <2>3, LineIn
  <2> HIDE DEF line
  <2>6. seen \in Seq(S) /\ Len(seen) = limit
    <3>1. 1 \in 1 .. Len(line) + 1 /\ limit \in 1 - 1 .. Len(line) /\ limit - 1 + 1 = limit
      BY <1>2, <2>4, <2>5
    <3>2. seen \in Seq(S) /\ Len(seen) = limit - 1 + 1
      BY <2>5, <3>1, SubSeqProperties
    <3> QED BY <3>1, <3>2
  <2> HIDE DEF seen
  <2>7. ASSUME NEW x \in DOMAIN Worker(i)
        PROVE  x \in S /\ Worker(i)[x].from \in Seq(S)
    <3>1. PICK n \in 0 .. w - 1 : x = Cell("y", i * w + n)
      BY <2>2
    <3>2. x[2] = i * w + n /\ i * w \in Nat
      BY <1>2, <2>1, <3>1, SMT DEF Cell
    <3>3. x[2] - i * w = n
      BY <3>2
    <3>4. CASE n < limit
      <4>1. n + 1 \in 1 .. limit
        BY <2>4, <3>4
      <4>2. seen[n + 1] \in S
        BY <2>6, <4>1, ElementOfSeq
      <4>3. <<seen[n + 1]>> \in Seq(S)
        BY <4>2, ShortSequences
      <4> DEFINE from == <<seen[n + 1]>> \o seen
      <4>4. from \in Seq(S)
        BY <2>6, <4>3, ConcatProperties
      <4> HIDE DEF from
      <4>5. Worker(i)[x] = Term("softmax", from, <<>>)
        BY <2>2, <3>3, <3>4 DEF from
      <4> QED BY <2>3, <3>1, <4>4, <4>5 DEF Term
    <3>5. CASE ~(n < limit)
      <4>1. Worker(i)[x] = Term("zero", <<>>, <<>>)
        BY <2>2, <3>3, <3>5
      <4>2. <<>> \in Seq(S)
        BY ShortSequences
      <4> QED BY <2>3, <3>1, <4>1, <4>2 DEF Term
    <3> QED BY <3>4, <3>5
  <2>8. Reads(Worker(i)) \subseteq S
    BY <2>7, ReadsWithin
  <2> QED BY <2>7, <2>8 DEF S
<1>6. DOMAIN width = {"x", "y"} /\ \A a \in DOMAIN width : width[a] = w
  OBVIOUS
<1> HIDE DEF width, B, T, w
<1>7. \A a \in DOMAIN width : width[a] \in Nat /\ (Work > 0 => Work * width[a] <= Numel(a))
  <2>1. (B * T) * w \in Nat
    BY <1>2, SMT
  <2> QED BY <1>2, <1>3, <1>4, <1>6, <2>1
<1>8. \A a, b \in DOMAIN width : call.place[a] = call.place[b] => width[a] = width[b]
  BY <1>6
<1>9. names \in SUBSET DOMAIN call.arg /\ \A a \in DOMAIN width, b \in names : call.place[a] # call.place[b]
  OBVIOUS
<1>10. \A i \in Active : /\ DOMAIN Worker(i) \subseteq Stripes(width, i)
                         /\ Reads(Worker(i)) \subseteq Stripes(width, i) \cup Wholes(names)
  BY <1>5
<1> HIDE DEF names
<1> QED BY <1>1, <1>3, <1>6, <1>7, <1>8, <1>9, <1>10, StripesSuffice

LEMMA RmsnormShapes ==
  ASSUME call \in Calls, Accepts, call.entry = "rmsnorm_fwd"
  PROVE  /\ DOMAIN call.arg = {"x", "g", "y", "rstd"} /\ MayAlias(call.entry) = {"x", "y"}
         /\ Dim("x", 1) \in Nat /\ Dim("x", 2) \in Nat
         /\ Numel("x") = Dim("x", 1) * Dim("x", 2) /\ Numel("y") = Dim("x", 1) * Dim("x", 2)
         /\ Numel("g") = Dim("x", 2) /\ Numel("rstd") = Dim("x", 1)
<1> DEFINE N == Dim("x", 1)
           w == Dim("x", 2)
<1>1. /\ DOMAIN call.arg = {"x", "g", "y", "rstd"}
      /\ MayAlias(call.entry) = {"x", "y"} /\ RmsnormFits
  BY CallFacts DEF Arguments, MayAlias, Accepts, Fits
<1>2. /\ Rank("x") = 2 /\ Arg("y").shape = Arg("x").shape
      /\ Arg("g").shape = <<w>> /\ Arg("rstd").shape = <<N>>
  BY <1>1 DEF RmsnormFits, GainFits
<1>3. N \in Nat /\ w \in Nat
  BY <1>1, <1>2, DimTypes
<1>4. Numel("x") = N * w /\ Numel("y") = N * w /\ Numel("g") = w /\ Numel("rstd") = N
  <2>1. Numel("y") = Numel("x")
    BY <1>2, SameShape
  <2>2. Rank("g") = 1 /\ Dim("g", 1) = w /\ Rank("rstd") = 1 /\ Dim("rstd", 1) = N
    BY <1>2 DEF Rank, Dim
  <2> QED BY <1>1, <1>2, <2>1, <2>2, NumelFacts
<1> QED BY <1>1, <1>3, <1>4

LEMMA RmsnormDisciplined ==
  ASSUME Running, call.entry = "rmsnorm_fwd"
  PROVE  InBounds /\ OneWriter
<1> DEFINE N == Dim("x", 1)
           w == Dim("x", 2)
           width == [a \in {"x", "y", "rstd"} |-> IF a = "rstd" THEN 1 ELSE w]
           names == {"g"}
<1>1. /\ pc = "all" /\ call \in Calls /\ Accepts
      /\ DOMAIN call.arg = {"x", "g", "y", "rstd"} /\ MayAlias(call.entry) = {"x", "y"}
  BY RmsnormShapes DEF Running
<1>2. N \in Nat /\ w \in Nat
  BY <1>1, RmsnormShapes
<1>3. Work = N /\ Work \in Int
  BY <1>1, <1>2 DEF Work, RowKernel, Rows
<1>4. Numel("x") = N * w /\ Numel("y") = N * w /\ Numel("g") = w /\ Numel("rstd") = N
  BY <1>1, RmsnormShapes
<1>5. ASSUME NEW i \in Active
      PROVE  /\ DOMAIN Worker(i) \subseteq Stripes(width, i)
             /\ Reads(Worker(i)) \subseteq Stripes(width, i) \cup Wholes(names)
  <2> DEFINE S == Stripes(width, i) \cup Wholes(names)
             line == Line("x", i, w)
  <2>1. i \in Nat /\ i < N
    BY <1>3, ActiveFacts
  <2>2. Worker(i) =
          [x \in {Cell("y", i * w + n) : n \in 0 .. w - 1} \cup {Cell("rstd", i)} |->
             IF x = Cell("rstd", i) THEN Term("rstd", line, <<>>)
             ELSE Term("scaled", <<line[x[2] - i * w + 1], Cell("g", x[2] - i * w)>> \o line, <<>>)]
    <3>1. Worker(i) = RmsnormRow(i)
      BY <1>1 DEF Worker
    <3> QED BY <3>1 DEF RmsnormRow
  <2>3. /\ \A k \in 0 .. w - 1 : /\ Cell("x", i * w + k) \in Stripes(width, i)
                                 /\ Cell("y", i * w + k) \in Stripes(width, i)
        /\ Cell("rstd", i) \in Stripes(width, i)
    <3>1. /\ width["x"] = w /\ width["y"] = w /\ width["rstd"] = 1
          /\ "x" \in DOMAIN width /\ "y" \in DOMAIN width /\ "rstd" \in DOMAIN width
      OBVIOUS
    <3> HIDE DEF width, w
    <3> QED BY <2>1, <3>1, InStripes
  <2>4. \A k \in 0 .. w - 1 : Cell("g", k) \in S
    BY <1>4 DEF Wholes, Whole
  <2>5. \A k \in 0 .. w - 1 : Cell("x", i * w + k) \in S
    BY <2>3
  <2> HIDE DEF N, w, width, S, names
  <2>6. line \in Seq(S) /\ Len(line) = w
    BY <1>2, <2>1, <2>5, LineIn
  <2> HIDE DEF line
  <2>7. ASSUME NEW x \in DOMAIN Worker(i)
        PROVE  Worker(i)[x].from \in Seq(S)
    <3>1. CASE x = Cell("rstd", i)
      <4>1. Worker(i)[x] = Term("rstd", line, <<>>)
        BY <2>2, <3>1
      <4> QED BY <2>6, <4>1 DEF Term
    <3>2. CASE x # Cell("rstd", i)
      <4>1. PICK n \in 0 .. w - 1 : x = Cell("y", i * w + n)
        BY <2>2, <3>2
      <4>2. x[2] = i * w + n /\ i * w \in Nat
        BY <1>2, <2>1, <4>1, SMT DEF Cell
      <4>3. x[2] - i * w = n
        BY <4>2
      <4>4. n + 1 \in 1 .. Len(line)
        BY <1>2, <2>6
      <4>5. line[n + 1] \in S /\ Cell("g", n) \in S
        BY <2>4, <2>6, <4>4, ElementOfSeq
      <4> DEFINE head == <<line[n + 1], Cell("g", n)>>
                 from == head \o line
      <4>6. head \in Seq(S)
        BY <4>5, ShortSequences
      <4>7. from \in Seq(S)
        <5> HIDE DEF head
        <5> QED BY <2>6, <4>6, ConcatProperties
      <4>8. Worker(i)[x] = Term("scaled", from, <<>>)
        BY <2>2, <3>2, <4>3
      <4> HIDE DEF from
      <4> QED BY <4>7, <4>8 DEF Term
    <3> QED BY <3>1, <3>2
  <2>8. Reads(Worker(i)) \subseteq S
    BY <2>7, ReadsWithin
  <2>9. DOMAIN Worker(i) \subseteq Stripes(width, i)
    BY <2>2, <2>3
  <2> QED BY <2>8, <2>9 DEF S
<1>6. /\ DOMAIN width = {"x", "y", "rstd"}
      /\ width["x"] = w /\ width["y"] = w /\ width["rstd"] = 1
  OBVIOUS
<1>7. /\ call.place["x"] \in {"x", "y"} /\ call.place["y"] \in {"x", "y"}
      /\ call.place["rstd"] = "rstd" /\ call.place["g"] = "g"
  BY <1>1, Places
<1> HIDE DEF width, N, w
<1>8. \A a \in DOMAIN width : width[a] \in Nat /\ (Work > 0 => Work * width[a] <= Numel(a))
  <2>1. N * w \in Nat /\ N * 1 = N
    BY <1>2, SMT
  <2> QED BY <1>2, <1>3, <1>4, <1>6, <2>1
<1>9. \A a, b \in DOMAIN width : call.place[a] = call.place[b] => width[a] = width[b]
  BY <1>6, <1>7
<1>10. names \in SUBSET DOMAIN call.arg /\ \A a \in DOMAIN width, b \in names : call.place[a] # call.place[b]
  BY <1>1, <1>6, <1>7
<1> HIDE DEF names
<1>11. DOMAIN width \subseteq DOMAIN call.arg
  BY <1>1, <1>6
<1> QED BY <1>3, <1>5, <1>8, <1>9, <1>10, <1>11, StripesSuffice

-----------------------------------------------------------------------------
(* rope_fwd turns the pair (n, d), (n, d + half) of the rows of 2 * half.  *)
LEMMA PairsApart ==
  ASSUME NEW half \in Nat, NEW hd \in Nat, hd = half + half,
         NEW m \in Nat, NEW n \in Nat, NEW d \in Nat, d < half, NEW e \in Nat, e < half,
         NEW u \in {m * hd + d, m * hd + (d + half)}, u \in {n * hd + e, n * hd + (e + half)}
  PROVE  m = n /\ d = e
<1>1. PICK j \in {d, d + half} : u = m * hd + j
  OBVIOUS
<1>2. PICK k \in {e, e + half} : u = n * hd + k
  OBVIOUS
<1>3. j \in Nat /\ k \in Nat /\ j < hd /\ k < hd
  OBVIOUS
<1>4. m * hd + j = n * hd + k
  BY <1>1, <1>2
<1>5. m = n /\ j = k
  BY ONLY <1>3, <1>4, hd \in Nat, m \in Nat, n \in Nat, RowsApart
<1>6. d = e
  BY <1>5
<1> QED BY <1>5, <1>6

LEMMA RopeShapes ==
  ASSUME call \in Calls, Accepts, call.entry = "rope_fwd", NEW a \in {"q", "k"}
  PROVE  /\ DOMAIN call.arg = {"q", "k"} /\ MayAlias(call.entry) = {}
         /\ Dim(a, 1) \in Nat /\ Dim(a, 2) \in Nat /\ Dim(a, 3) \in Nat /\ Dim(a, 4) \in Nat
         /\ Dim(a, 4) \div 2 \in Nat /\ Dim(a, 4) = (Dim(a, 4) \div 2) + (Dim(a, 4) \div 2)
         /\ (Dim(a, 1) * Dim(a, 2)) * Dim(a, 3) \in Nat
         /\ Numel(a) = ((Dim(a, 1) * Dim(a, 2)) * Dim(a, 3)) * Dim(a, 4)
         /\ Numel(a) \div 2 = ((Dim(a, 1) * Dim(a, 2)) * Dim(a, 3)) * (Dim(a, 4) \div 2)
<1> DEFINE R == (Dim(a, 1) * Dim(a, 2)) * Dim(a, 3)
           hd == Dim(a, 4)
           half == hd \div 2
<1>1. DOMAIN call.arg = {"q", "k"} /\ MayAlias(call.entry) = {} /\ RopeFits
  BY CallFacts DEF Arguments, MayAlias, Accepts, Fits
<1>2. Rank(a) = 4 /\ hd % 2 = 0 /\ a \in DOMAIN call.arg
  BY <1>1 DEF RopeFits
<1>3. /\ Dim(a, 1) \in Nat /\ Dim(a, 2) \in Nat /\ Dim(a, 3) \in Nat /\ hd \in Nat
      /\ R \in Nat
  <2>1. Dim(a, 1) \in Nat /\ Dim(a, 2) \in Nat /\ Dim(a, 3) \in Nat /\ hd \in Nat
    BY <1>1, <1>2, DimTypes
  <2> QED BY <2>1, SMT
<1>4. Numel(a) = R * hd
  BY <1>1, <1>2, NumelFacts
<1>5. half \in Nat /\ hd = half + half
  <2>1. \A n \in Nat : n % 2 = 0 => n \div 2 \in Nat /\ n = (n \div 2) + (n \div 2)
    OBVIOUS
  <2> QED BY <1>2, <1>3, <2>1
<1>6. Numel(a) \div 2 = R * half
  <2> HIDE DEF R, hd, half
  <2>1. R * half \in Nat /\ R * hd = 2 * (R * half)
    BY <1>3, <1>5, SMT
  <2> DEFINE n == R * half
  <2>2. n \in Nat /\ Numel(a) = 2 * n
    BY <1>4, <2>1
  <2> HIDE DEF n
  <2>3. Numel(a) \div 2 = n
    BY <2>2
  <2> QED BY <2>3 DEF n
<1> QED BY <1>1, <1>3, <1>4, <1>5, <1>6

LEMMA RopeDisciplined ==
  ASSUME Running, call.entry = "rope_fwd"
  PROVE  InBounds /\ OneWriter
<1> DEFINE R == (Dim(pc, 1) * Dim(pc, 2)) * Dim(pc, 3)
           hd == Dim(pc, 4)
           half == hd \div 2
           row(i) == i \div half
           d(i) == i % half
           first(i) == row(i) * hd + d(i)
           second(i) == row(i) * hd + (d(i) + half)
           own == [i \in Active |-> {Cell(pc, first(i)), Cell(pc, second(i))}]
<1>1. pc \in {"q", "k"} /\ call \in Calls /\ Accepts
  BY DEF Running
<1>2. DOMAIN call.arg = {"q", "k"} /\ MayAlias(call.entry) = {} /\ pc \in DOMAIN call.arg
  BY <1>1, RopeShapes
<1>3. R \in Nat /\ hd \in Nat
  BY <1>1, RopeShapes
<1>4. Numel(pc) = R * hd
  BY <1>1, RopeShapes
<1>5. half \in Nat /\ hd = half + half
  BY <1>1, RopeShapes
<1>6. Work = R * half /\ Work \in Int
  <2>1. Work = Numel(pc) \div 2
    BY <1>1 DEF Work, RowKernel
  <2>2. Work = R * half
    BY <1>1, <2>1, RopeShapes
  <2> HIDE DEF R, half
  <2> QED BY <1>3, <1>5, <2>2, SMT
<1> HIDE DEF R, half
<1>7. ASSUME NEW i \in Active
      PROVE  /\ row(i) \in Nat /\ row(i) < R /\ d(i) \in Nat /\ d(i) < half
             /\ i = row(i) * half + d(i)
  <2>1. i \in Nat /\ i < R * half
    BY <1>6, ActiveFacts
  <2> QED BY ONLY <1>3, <1>5, <2>1, RowOf
<1>8. ASSUME NEW i \in Active
      PROVE  /\ DOMAIN Worker(i) \subseteq own[i]
             /\ Reads(Worker(i)) \subseteq own[i] \cup {}
  <2> DEFINE x1 == Cell(pc, first(i))
             x2 == Cell(pc, second(i))
             S == {x1, x2}
             at == <<row(i) % Dim(pc, 3), d(i)>>
  <2>1. Worker(i) = [x \in {x1, x2} |->
                       Term("rotate", IF x = x1 THEN <<x1, x2>> ELSE <<x2, x1>>, at)]
    <3>1. Worker(i) = Rotate(i)
      BY <1>1 DEF Worker
    <3> QED BY <3>1 DEF Rotate, Twin, half
  <2>2. own[i] = S
    OBVIOUS
  <2> HIDE DEF x1, x2, at, own
  <2>3. <<x1, x2>> \in Seq(S) /\ <<x2, x1>> \in Seq(S)
    OBVIOUS
  <2>4. \A x \in DOMAIN Worker(i) : Worker(i)[x].from \in Seq(S)
    <3> SUFFICES ASSUME NEW x \in DOMAIN Worker(i) PROVE Worker(i)[x].from \in Seq(S)
      OBVIOUS
    <3> DEFINE from == IF x = x1 THEN <<x1, x2>> ELSE <<x2, x1>>
    <3>1. from \in Seq(S)
      BY <2>3
    <3>2. Worker(i)[x] = Term("rotate", from, at)
      BY <2>1
    <3> HIDE DEF from
    <3> QED BY <3>1, <3>2 DEF Term
  <2>5. Reads(Worker(i)) \subseteq S
    BY <2>4, ReadsWithin
  <2> QED BY <2>1, <2>2, <2>5
<1>9. ASSUME NEW i \in Active, NEW x \in own[i]
      PROVE  InTensor(x)
  <2>1. PICK e \in {d(i), d(i) + half} : x = Cell(pc, row(i) * hd + e)
    OBVIOUS
  <2> DEFINE n == row(i) * hd + e
  <2> HIDE DEF hd, row, d, own
  <2>2. e \in Nat /\ e < hd
    BY <1>5, <1>7
  <2>3. n \in Nat /\ n < R * hd /\ R * hd \in Nat
    BY <1>3, <1>7, <2>2, RowElement, SMT
  <2> HIDE DEF n
  <2>4. n \in 0 .. Numel(pc) - 1
    BY <1>4, <2>3
  <2> QED BY <1>2, <2>1, <2>4, ElementsInTensor DEF n
<1>10. ASSUME NEW i \in Active, NEW j \in Active, NEW x \in own[i], x \in own[j]
       PROVE  i = j
  <2>1. x[2] \in {first(i), second(i)} /\ x[2] \in {first(j), second(j)}
    BY <1>10 DEF Cell
  <2> DEFINE u == x[2]
  <2> HIDE DEF u, hd, row, d
  <2>2. /\ u \in {row(i) * hd + d(i), row(i) * hd + (d(i) + half)}
        /\ u \in {row(j) * hd + d(j), row(j) * hd + (d(j) + half)}
    BY <2>1 DEF u
  <2>3. row(i) = row(j) /\ d(i) = d(j)
    <3> DEFINE m == row(i)
               n == row(j)
               e == d(i)
               f == d(j)
    <3>1. /\ m \in Nat /\ n \in Nat /\ e \in Nat /\ e < half /\ f \in Nat /\ f < half
          /\ u \in {m * hd + e, m * hd + (e + half)} /\ u \in {n * hd + f, n * hd + (f + half)}
      BY <1>7, <2>2
    <3> HIDE DEF m, n, e, f
    <3>2. m = n /\ e = f
      BY ONLY <1>3, <1>5, <3>1, PairsApart
    <3> QED BY <3>2 DEF m, n, e, f
  <2> QED BY <1>7, <2>3
<1> DEFINE common == {}
<1>11. \A i \in Active : own[i] \cap common = {}
  OBVIOUS
<1>12. \A i, j \in Active : i # j => own[i] \cap own[j] = {}
  <2> HIDE DEF own
  <2> QED BY <1>10
<1>13. \A x \in common : InTensor(x)
  OBVIOUS
<1>14. \A i \in Active : /\ DOMAIN Worker(i) \subseteq own[i]
                         /\ Reads(Worker(i)) \subseteq own[i] \cup common
  BY <1>8
<1> HIDE DEF own, common
<1>15. Disciplined(own, common)
  BY <1>9, <1>11, <1>12, <1>13, <1>14 DEF Disciplined
<1> QED BY <1>15, DisciplineSuffices

-----------------------------------------------------------------------------
(* What the host checks let through stays within the tensors, and meets    *)
(* elements of the type it expects, for every shape and every grid.        *)
LEMMA RunningIsDisciplined ==
  ASSUME Running
  PROVE  InBounds /\ OneWriter
<1>1. call.entry \in DOMAIN Arguments
  BY CallFacts DEF Running, Entries
<1>2. CASE call.entry = "cross_entropy_fwd"
  BY <1>2, LossRowsDisciplined, MeanDisciplined DEF Running
<1>3. CASE call.entry # "cross_entropy_fwd"
  BY <1>1, <1>3, FillDisciplined, ElementwiseDisciplined, SplitDisciplined, MergeDisciplined,
     EmbeddingDisciplined, RopeDisciplined, SoftmaxDisciplined, RmsnormDisciplined
     DEF Arguments
<1> QED BY <1>2, <1>3

LEMMA KernelInvSuffices == KernelInv => InBounds /\ OneWriter
<1> SUFFICES ASSUME KernelInv PROVE InBounds /\ OneWriter
  OBVIOUS
<1>1. CASE pc \in Kernels
  BY <1>1, RunningIsDisciplined DEF KernelInv
<1>2. CASE pc \notin Kernels
  BY <1>2 DEF InBounds, OneWriter
<1> QED BY <1>1, <1>2

(* No kernel that the checks let run touches memory outside its tensors or *)
(* reads an element as another type: the checks of every host function are *)
(* enough, and the idle threads of a partial block do nothing.             *)
THEOREM KernelsInBounds == Spec => []InBounds
<1>1. KernelInv => InBounds
  BY KernelInvSuffices
<1> QED BY <1>1, SpecKernelInv, PTL

(* No two workers of a kernel race, although outputs may lie over inputs.  *)
THEOREM KernelsOneWriter == Spec => []OneWriter
<1>1. KernelInv => OneWriter
  BY KernelInvSuffices
<1> QED BY <1>1, SpecKernelInv, PTL

-----------------------------------------------------------------------------
(* MatchesHeader.  What a kernel k of the call writes, told without pc.    *)
Turn(a, i) ==
  LET hd == Dim(a, 4)
      d == i % (hd \div 2)
      row == i \div (hd \div 2)
      x1 == Cell(a, row * hd + d)
      x2 == Cell(a, row * hd + Twin(d, hd \div 2))
  IN [x \in {x1, x2} |->
        Term("rotate", IF x = x1 THEN <<x1, x2>> ELSE <<x2, x1>>, <<row % Dim(a, 3), d>>)]

Single(i) ==
  CASE call.entry = "fill_value" -> Elements("dst", i, Term("value", <<>>, <<>>))
    [] call.entry = "fill_rng" -> Elements("dst", i, Term("draw", <<>>, <<i>>))
    [] call.entry = "gelu_fwd" -> Elements("y", i, Term("gelu", <<Cell("x", i)>>, <<>>))
    [] call.entry = "residual_fwd" ->
         Elements("out", i, Term("add", <<Cell("a", i), Cell("b", i)>>, <<>>))
    [] call.entry = "permute_split" -> Split(i)
    [] call.entry = "permute_merge" -> Merge(i)
    [] call.entry = "embedding_fwd" -> Embed(i)
    [] call.entry = "softmax_fwd" -> SoftmaxRow(i)
    [] call.entry = "rmsnorm_fwd" -> RmsnormRow(i)

Plan(k, i) ==
  CASE k \in {"q", "k"} -> Turn(k, i)
    [] k = "rows" -> LossRow(i)
    [] k = "mean" -> Mean
    [] k = "all" -> Single(i)

Amount(k) ==
  CASE k \in {"q", "k"} -> Numel(k) \div 2
    [] k = "rows" -> Rows
    [] k = "mean" -> 1
    [] k = "all" /\ call.entry \in {"softmax_fwd", "rmsnorm_fwd"} -> Rows
    [] k = "all" /\ call.entry = "fill_rng" -> call.param
    [] k = "all" /\ call.entry = "fill_value" -> Numel("dst")
    [] k = "all" /\ call.entry = "residual_fwd" -> Numel("a")
    [] k = "all" /\ call.entry = "gelu_fwd" -> Numel("x")
    [] k = "all" /\ call.entry = "permute_split" -> Numel("q")
    [] k = "all" /\ call.entry \in {"permute_merge", "embedding_fwd"} -> Numel("y")

Written(k) == UNION {DOMAIN Plan(k, i) : i \in Below(Amount(k))}

(* A term over the elements from before the call.                          *)
Before(term) == [term EXCEPT !.from = [n \in DOMAIN term.from |-> Original(term.from[n])]]

Result(k) == \A i \in Below(Amount(k)) : \A x \in DOMAIN Plan(k, i) : cells[x] = Before(Plan(k, i)[x])

Averaged == cells[Cell("loss", 0)] = Evaluate(Mean[Cell("loss", 0)])

(* What the kernels that have run have written.                            *)
Progress ==
  /\ pc \in {"check", "all", "q", "rows"} => cells = <<>>
  /\ pc = "k" => DOMAIN cells = Written("q") /\ Result("q")
  /\ pc = "mean" => DOMAIN cells = Written("rows") /\ Result("rows")
  /\ pc = "done" /\ call.entry = "rope_fwd" =>
       DOMAIN cells = Written("q") \cup Written("k") /\ Result("q") /\ Result("k")
  /\ pc = "done" /\ call.entry = "cross_entropy_fwd" =>
       DOMAIN cells = Written("rows") \cup Written("mean") /\ Result("rows") /\ Averaged
  /\ pc = "done" /\ call.entry \notin {"rope_fwd", "cross_entropy_fwd"} =>
       DOMAIN cells = Written("all") /\ Result("all")
  /\ pc = "done" => Accepts

LEMMA SameExtents ==
  ASSUME call' = call
  PROVE  /\ \A a, n : Dim(a, n)' = Dim(a, n)
         /\ \A a : Numel(a)' = Numel(a)
         /\ \A a, i : Cell(a, i)' = Cell(a, i)
         /\ \A n : Id(n)' = Id(n)
         /\ HeadDim' = HeadDim /\ Causal' = Causal /\ Rows' = Rows /\ Inner' = Inner
<1>1. \A a, n : Dim(a, n)' = Dim(a, n)
  BY DEF Dim, Arg
<1>2. \A a : Numel(a)' = Numel(a)
  BY DEF Numel, Arg
<1>3. \A a, i : Cell(a, i)' = Cell(a, i)
  BY DEF Cell
<1>4. \A n : Id(n)' = Id(n)
  BY DEF Id
<1>5. HeadDim' = HeadDim /\ Causal' = Causal /\ Rows' = Rows
  BY DEF HeadDim, Causal, Rows, Dim, Arg
<1>6. Inner' = Inner
  BY <1>5 DEF Inner, Dim, Arg
<1> QED BY <1>1, <1>2, <1>3, <1>4, <1>5, <1>6

LEMMA SamePlan ==
  ASSUME call' = call
  PROVE  \A k, i : Plan(k, i)' = Plan(k, i) /\ Amount(k)' = Amount(k)
<1>1. \A a, i : Turn(a, i)' = Turn(a, i)
  BY DEF Turn, Dim, Arg, Cell
<1>2. \A i : LossRow(i)' = LossRow(i)
  BY SameExtents DEF LossRow, Elements, Line, Dim, Arg, Cell, Id
<1>3. Mean' = Mean
  <2>1. Rows' = Rows
    BY SameExtents
  <2> QED BY <2>1, SMTT(20) DEF Mean, Elements, Line, Cell
<1>4. \A i : Split(i)' = Split(i)
  BY SameExtents DEF Split, HeadAndTime, Dim, Arg, Cell
<1>5. \A i : Merge(i)' = Merge(i)
  BY SameExtents DEF Merge, Elements, Dim, Arg, Cell
<1>6. \A i : Embed(i)' = Embed(i)
  BY SameExtents DEF Embed, Elements, Dim, Arg, Cell, Id
<1>7. \A i : SoftmaxRow(i)' = SoftmaxRow(i)
  BY DEF SoftmaxRow, Causal, Line, Dim, Arg, Cell
<1>8. \A i : RmsnormRow(i)' = RmsnormRow(i)
  BY SameExtents DEF RmsnormRow, Line, Dim, Arg, Cell
<1>9. \A i : Single(i)' = Single(i)
  BY <1>4, <1>5, <1>6, <1>7, <1>8 DEF Single, Elements, Cell
<1>10. \A k, i : Plan(k, i)' = Plan(k, i)
  BY <1>1, <1>2, <1>3, <1>9 DEF Plan
<1>11. \A k : Amount(k)' = Amount(k)
  <2> SUFFICES ASSUME NEW k PROVE Amount(k)' = Amount(k)
    OBVIOUS
  <2>1. /\ Numel(k)' = Numel(k) /\ Numel("dst")' = Numel("dst") /\ Numel("a")' = Numel("a")
        /\ Numel("x")' = Numel("x") /\ Numel("q")' = Numel("q") /\ Numel("y")' = Numel("y")
        /\ Rows' = Rows
    BY SameExtents
  <2> QED BY <2>1, Zenon DEF Amount
<1> QED BY <1>10, <1>11

-----------------------------------------------------------------------------
LEMMA WorkType ==
  ASSUME Running
  PROVE  Work \in Int
<1>1. /\ call \in Calls /\ DOMAIN call.arg = Arguments[call.entry] /\ call.entry \in DOMAIN Arguments
      /\ call.param \in Int
  BY CallFacts DEF Running, Entries
<1>2. CASE call.entry = "cross_entropy_fwd"
  <2>1. pc = "rows" \/ pc = "mean"
    BY <1>2 DEF Running
  <2> QED BY <1>2, <2>1, LossFacts DEF Work, RowKernel
<1>3. CASE call.entry = "softmax_fwd"
  <2>1. Rank("x") = 3 /\ pc = "all" /\ "x" \in DOMAIN call.arg
    BY <1>1, <1>3 DEF Running, Accepts, Fits, SoftmaxFits, Arguments
  <2>2. Dim("x", 1) \in Nat /\ Dim("x", 2) \in Nat
    BY <1>1, <2>1, DimTypes
  <2>3. Work = Dim("x", 1) * Dim("x", 2)
    BY <1>3, <2>1 DEF Work, RowKernel, Rows
  <2> QED BY <2>2, <2>3, SMT
<1>4. CASE call.entry = "rmsnorm_fwd"
  <2>1. Rank("x") = 2 /\ pc = "all" /\ "x" \in DOMAIN call.arg
    BY <1>1, <1>4 DEF Running, Accepts, Fits, RmsnormFits, Arguments
  <2>2. Dim("x", 1) \in Nat
    BY <1>1, <2>1, DimTypes
  <2> QED BY <1>4, <2>2 DEF Work, RowKernel, Rows
<1>5. CASE call.entry = "rope_fwd"
  <2>1. pc \in {"q", "k"} /\ pc \in DOMAIN call.arg
    BY <1>1, <1>5 DEF Running, Arguments
  <2>2. Numel(pc) \in Nat
    BY <1>1, <2>1, NumelType
  <2>3. Work = Numel(pc) \div 2
    BY <1>5, <2>1 DEF Work, RowKernel
  <2> QED BY <2>2, <2>3
<1>6. CASE call.entry \notin {"cross_entropy_fwd", "softmax_fwd", "rmsnorm_fwd", "rope_fwd"}
  <2>1. pc = "all" /\ \A a \in DOMAIN call.arg : Numel(a) \in Int
    BY <1>1, <1>6, NumelType DEF Running
  <2>2. CASE call.entry = "fill_rng"
    BY <1>1, <2>1, <2>2 DEF Work, RowKernel
  <2>3. CASE call.entry = "fill_value"
    BY <1>1, <2>1, <2>3 DEF Work, RowKernel, Arguments
  <2>4. CASE call.entry = "residual_fwd"
    BY <1>1, <2>1, <2>4 DEF Work, RowKernel, Arguments
  <2>5. CASE call.entry = "gelu_fwd"
    BY <1>1, <2>1, <2>5 DEF Work, RowKernel, Arguments
  <2>6. CASE call.entry = "permute_split"
    BY <1>1, <2>1, <2>6 DEF Work, RowKernel, Arguments
  <2>7. CASE call.entry \in {"permute_merge", "embedding_fwd"}
    BY <1>1, <2>1, <2>7 DEF Work, RowKernel, Arguments
  <2> QED BY <1>1, <1>6, <2>2, <2>3, <2>4, <2>5, <2>6, <2>7 DEF Arguments
<1> QED BY <1>2, <1>3, <1>4, <1>5, <1>6

(* The grid reaches all of the work.                                       *)
LEMMA AllWorkDone ==
  ASSUME Work \in Int
  PROVE  Active = Below(Work)
<1> DEFINE n == Work
           p == PerBlock
           q == (n + p - 1) \div p
<1>1. p \in Nat \ {0} /\ n \in Int
  BY CellKernelsAssumption DEF PerBlock
<1>2. Active = {i \in 0 .. q * p - 1 : i < n} /\ Below(Work) = 0 .. n - 1
  BY DEF Active, Grid, Below
<1> HIDE DEF n, p, q
<1>3. CASE n <= 0
  <2>1. q \in Int
    BY <1>1, SMT DEF q
  <2>2. q * p \in Int
    BY <1>1, <2>1, SMT
  <2> QED BY <1>1, <1>2, <1>3, <2>2
<1>4. CASE n > 0
  <2>1. n + p - 1 \in Nat
    BY <1>1, <1>4
  <2>2. q * p \in Nat /\ n + p - 1 < q * p + p
    BY <1>1, <2>1, DivideAndMultiply DEF q
  <2>3. n <= q * p
    BY <1>1, <2>2
  <2> QED BY <1>1, <1>2, <2>2, <2>3
<1> QED BY <1>1, <1>3, <1>4

LEMMA PlanOfKernel ==
  ASSUME Running
  PROVE  Work = Amount(pc) /\ \A i : Worker(i) = Plan(pc, i)
<1>1. call.entry \in DOMAIN Arguments
  BY CallFacts DEF Running, Entries
<1>2. CASE call.entry = "rope_fwd"
  <2>1. pc \in {"q", "k"}
    BY <1>2 DEF Running
  <2>2. Work = Amount(pc)
    BY <1>2, <2>1 DEF Work, RowKernel, Amount
  <2>3. ASSUME NEW i PROVE Worker(i) = Plan(pc, i)
    <3>1. Worker(i) = Rotate(i)
      BY <1>2, <2>1 DEF Worker
    <3>2. Plan(pc, i) = Turn(pc, i)
      BY <2>1 DEF Plan
    <3>3. Rotate(i) = Turn(pc, i)
      BY DEF Rotate, Turn
    <3> QED BY <3>1, <3>2, <3>3
  <2> QED BY <2>2, <2>3
<1>3. CASE call.entry = "cross_entropy_fwd"
  <2>1. pc \in {"rows", "mean"}
    BY <1>3 DEF Running
  <2>2. Work = Amount(pc)
    BY <1>3, <2>1 DEF Work, RowKernel, Amount
  <2>3. ASSUME NEW i PROVE Worker(i) = Plan(pc, i)
    BY <1>3, <2>1 DEF Worker, Plan
  <2> QED BY <2>2, <2>3
<1>4. CASE call.entry \notin {"rope_fwd", "cross_entropy_fwd"}
  <2>1. pc = "all"
    BY <1>4 DEF Running
  <2>2. Work = Amount(pc)
    BY <1>1, <1>4, <2>1 DEF Work, RowKernel, Amount, Arguments
  <2>3. ASSUME NEW i PROVE Worker(i) = Plan(pc, i)
    <3>1. Plan(pc, i) = Single(i)
      BY <2>1 DEF Plan
    <3>2. Worker(i) = Single(i)
      BY <1>1, <1>4, <2>1 DEF Worker, Single, Arguments
    <3> QED BY <3>1, <3>2
  <2> QED BY <2>2, <2>3
<1> QED BY <1>2, <1>3, <1>4

(* A kernel's effect on memory: what each worker says of its own cells.    *)
LEMMA KernelEffect ==
  ASSUME Running, RunKernel
  PROVE  /\ DOMAIN cells' = Written(pc) \cup DOMAIN cells
         /\ \A i \in Below(Amount(pc)) : \A x \in DOMAIN Plan(pc, i) :
              cells'[x] = Evaluate(Plan(pc, i)[x])
         /\ \A x \in DOMAIN cells \ Written(pc) : cells'[x] = cells[x]
<1> DEFINE A == Below(Amount(pc))
           work == [i \in A |-> Plan(pc, i)]
           written == UNION {DOMAIN work[i] : i \in A}
<1>1. Active = A /\ \A i : Worker(i) = Plan(pc, i)
  BY WorkType, AllWorkDone, PlanOfKernel
<1> DEFINE given == [i \in Active |-> Worker(i)]
           changed == UNION {DOMAIN given[i] : i \in Active}
<1>2. cells' = [x \in changed \cup DOMAIN cells |->
                  IF x \in changed
                    THEN Evaluate(given[CHOOSE i \in Active : x \in DOMAIN given[i]][x])
                    ELSE cells[x]]
  BY DEF RunKernel
<1>3. given = work
  BY <1>1
<1> HIDE DEF given, work
<1>4. cells' = [x \in written \cup DOMAIN cells |->
                  IF x \in written
                    THEN Evaluate(work[CHOOSE i \in A : x \in DOMAIN work[i]][x])
                    ELSE cells[x]]
  BY <1>2, <1>1, <1>3
<1>5. \A i \in A : work[i] = Plan(pc, i)
  BY DEF work
<1>6. ASSUME NEW i \in A, NEW j \in A, NEW x \in DOMAIN work[i], x \in DOMAIN work[j]
      PROVE  i = j
  <2>1. OneWriter
    BY RunningIsDisciplined
  <2>2. pc \in Kernels
    BY DEF Running
  <2>3. i # j => DOMAIN Plan(pc, i) \cap (DOMAIN Plan(pc, j) \cup Reads(Plan(pc, j))) = {}
    <3> DEFINE theirs == [n \in Active |-> Worker(n)]
    <3>1. i \in Active /\ j \in Active
      BY <1>1
    <3>2. i # j => DOMAIN theirs[i] \cap (DOMAIN theirs[j] \cup Reads(theirs[j])) = {}
      BY <2>1, <2>2, <3>1 DEF OneWriter
    <3>3. theirs[i] = Plan(pc, i) /\ theirs[j] = Plan(pc, j)
      BY <1>1, <3>1
    <3> HIDE DEF theirs
    <3> QED BY <3>2, <3>3
  <2> HIDE DEF A, work
  <2> QED BY <1>5, <1>6, <2>3
<1>7. written = Written(pc)
  BY <1>5 DEF Written
<1> HIDE DEF written, A
<1>8. DOMAIN cells' = Written(pc) \cup DOMAIN cells
  BY <1>4, <1>7
<1>9. ASSUME NEW i \in A, NEW x \in DOMAIN Plan(pc, i)
      PROVE  cells'[x] = Evaluate(Plan(pc, i)[x])
  <2>1. x \in written /\ x \in DOMAIN work[i]
    BY <1>5 DEF written
  <2> DEFINE chosen == CHOOSE j \in A : x \in DOMAIN work[j]
  <2>2. chosen \in A /\ x \in DOMAIN work[chosen]
    BY <2>1
  <2>3. chosen = i
    BY <1>6, <2>1, <2>2
  <2>4. cells'[x] = Evaluate(work[chosen][x])
    BY <1>4, <2>1
  <2> QED BY <1>5, <2>3, <2>4
<1>10. \A x \in DOMAIN cells \ Written(pc) : cells'[x] = cells[x]
  BY <1>4, <1>7
<1> QED BY <1>8, <1>9, <1>10 DEF A

LEMMA NextResult ==
  ASSUME call' = call
  PROVE  \A k : /\ Written(k)' = Written(k)
                /\ Result(k)' = (\A i \in Below(Amount(k)) : \A x \in DOMAIN Plan(k, i) :
                                   cells'[x] = Before(Plan(k, i)[x]))
<1>1. \A k, i : Plan(k, i)' = Plan(k, i) /\ Amount(k)' = Amount(k)
  BY SamePlan
<1>2. \A k : Written(k)' = Written(k)
  BY <1>1 DEF Written, Below
<1>3. \A k : Result(k)' = (\A i \in Below(Amount(k)) : \A x \in DOMAIN Plan(k, i) :
                             cells'[x] = Before(Plan(k, i)[x]))
  <2> SUFFICES ASSUME NEW k
               PROVE  Result(k)' <=> (\A i \in Below(Amount(k)) : \A x \in DOMAIN Plan(k, i) :
                                        cells'[x] = Before(Plan(k, i)[x]))
    BY DEF Result
  <2> QED BY <1>1 DEF Result, Below
<1> QED BY <1>2, <1>3

(* A kernel that meets no element another one has written.                 *)
LEMMA Untouched ==
  ASSUME NEW term, \A n \in DOMAIN term.from : term.from[n] \notin DOMAIN cells
  PROVE  Evaluate(term) = Before(term)
<1>1. \A n \in DOMAIN term.from : Read(term.from[n]) = Original(term.from[n])
  BY DEF Read
<1>2. [n \in DOMAIN term.from |-> Read(term.from[n])]
        = [n \in DOMAIN term.from |-> Original(term.from[n])]
  BY <1>1
<1> QED BY <1>2 DEF Evaluate, Before

LEMMA FirstKernelEffect ==
  ASSUME Running, RunKernel, cells = <<>>
  PROVE  /\ DOMAIN cells' = Written(pc)
         /\ \A i \in Below(Amount(pc)) : \A x \in DOMAIN Plan(pc, i) :
              cells'[x] = Before(Plan(pc, i)[x])
<1>1. DOMAIN cells = {}
  BY EmptySeq
<1>2. DOMAIN cells' = Written(pc)
  BY <1>1, KernelEffect
<1>3. \A term : Evaluate(term) = Before(term)
  BY <1>1, Untouched
<1> QED BY <1>2, <1>3, KernelEffect

LEMMA TurnCells ==
  ASSUME NEW a, NEW i, call.place[a] = a, NEW x \in DOMAIN Turn(a, i)
  PROVE  x[1] = a /\ \A n \in DOMAIN Turn(a, i)[x].from : Turn(a, i)[x].from[n][1] = a
<1> DEFINE hd == Dim(a, 4)
           d == i % (hd \div 2)
           row == i \div (hd \div 2)
           x1 == Cell(a, row * hd + d)
           x2 == Cell(a, row * hd + Twin(d, hd \div 2))
           from == IF x = x1 THEN <<x1, x2>> ELSE <<x2, x1>>
<1>1. x \in {x1, x2} /\ Turn(a, i)[x] = Term("rotate", from, <<row % Dim(a, 3), d>>)
  BY DEF Turn
<1>2. Turn(a, i)[x].from = from
  BY <1>1 DEF Term
<1>3. x1[1] = a /\ x2[1] = a
  BY DEF Cell
<1> HIDE DEF x1, x2
<1>4. <<x1, x2>> \in Seq({x1, x2}) /\ <<x2, x1>> \in Seq({x1, x2})
  OBVIOUS
<1>5. from \in Seq({x1, x2})
  BY <1>4
<1> HIDE DEF from
<1>6. \A n \in DOMAIN from : from[n] \in {x1, x2}
  BY <1>5
<1> QED BY <1>1, <1>2, <1>3, <1>6

LEMMA MeanReads ==
  ASSUME call.place["row_nll"] = "row_nll", call.place["mask"] = "mask",
         call.place["loss"] = "loss", Rows \in Nat
  PROVE  /\ Written("mean") = {Cell("loss", 0)}
         /\ DOMAIN Mean = {Cell("loss", 0)}
         /\ \A n \in DOMAIN Mean[Cell("loss", 0)].from : Mean[Cell("loss", 0)].from[n] # Cell("loss", 0)
<1> DEFINE x == Cell("loss", 0)
           nll == Line("row_nll", 0, Rows)
           mask == Line("mask", 0, Rows)
           from == nll \o mask
           S == {Cell(a, n) : a \in {"row_nll", "mask"}, n \in Nat}
<1>1. Mean = [y \in {x} |-> Term("mean", from, <<>>)]
  BY DEF Mean, Elements
<1>2. \A y \in S : y # x
  BY DEF Cell
<1>3. nll \in Seq(S) /\ mask \in Seq(S)
  <2>1. \A a \in {"row_nll", "mask"}, k \in 0 .. Rows - 1 : Cell(a, 0 * Rows + k) \in S
    OBVIOUS
  <2> HIDE DEF S
  <2> QED BY <2>1, LineIn
<1> HIDE DEF S, nll, mask
<1>4. from \in Seq(S)
  BY <1>3, ConcatProperties
<1>5. Mean[x].from = from /\ DOMAIN Mean = {x}
  BY <1>1 DEF Term
<1> HIDE DEF from
<1>6. \A n \in DOMAIN from : from[n] \in S
  BY <1>4
<1>7. Written("mean") = {x}
  <2>1. Amount("mean") = 1 /\ \A i : Plan("mean", i) = Mean
    BY DEF Amount, Plan
  <2>2. Below(1) = {0}
    BY DEF Below
  <2> QED BY <1>5, <2>1, <2>2 DEF Written
<1> QED BY <1>2, <1>5, <1>6, <1>7

-----------------------------------------------------------------------------
LEMMA CheckProgress ==
  ASSUME KernelInv, Progress, Check
  PROVE  Progress'
<1>1. /\ call' = call /\ cells' = cells /\ pc = "check" /\ cells = <<>>
      /\ pc' = IF Accepts THEN FirstKernel ELSE "fatal"
  BY DEF Check, Progress
<1>2. Accepts' = Accepts /\ \A k : Written(k)' = Written(k)
  BY <1>1, SameCall, NextResult
<1>3. CASE pc' = "done"
  <2>1. Accepts /\ call.entry = "fill_rng" /\ call.param <= 0
    BY <1>1, <1>3 DEF FirstKernel
  <2>2. Amount("all") = call.param /\ call.param \in Int
    BY <2>1, CallFacts DEF Amount, KernelInv
  <2>3. Below(Amount("all")) = {}
    BY <2>1, <2>2 DEF Below
  <2>4. Written("all") = {}
    BY <2>3 DEF Written
  <2>5. DOMAIN cells' = Written("all")'
    BY <1>1, <1>2, <2>4, EmptySeq
  <2>6. Result("all")'
    BY <1>1, <2>3, NextResult
  <2> QED BY <1>1, <1>2, <1>3, <2>1, <2>5, <2>6 DEF Progress
<1>4. CASE pc' # "done"
  <2>1. pc' \in {"all", "q", "rows", "fatal"}
    BY <1>1, <1>4 DEF FirstKernel
  <2> QED BY <1>1, <2>1 DEF Progress
<1> QED BY <1>3, <1>4

LEMMA RopeSecond ==
  ASSUME Running, Progress, RunKernel, pc = "k"
  PROVE  /\ DOMAIN cells' = Written("q") \cup Written("k")
         /\ Result("q")' /\ Result("k")'
<1>1. call.entry = "rope_fwd" /\ call \in Calls
  BY DEF Running
<1>2. call.place["q"] = "q" /\ call.place["k"] = "k"
  <2>1. {"q", "k"} \subseteq DOMAIN call.arg /\ MayAlias(call.entry) = {}
    BY <1>1, CallFacts DEF Arguments, MayAlias
  <2> QED BY <1>1, <2>1, Places
<1>3. DOMAIN cells = Written("q") /\ Result("q") /\ call' = call
  BY DEF Progress, RunKernel
<1>4. \A a \in {"q", "k"} : \A x \in Written(a) : x[1] = a
  <2> SUFFICES ASSUME NEW a \in {"q", "k"}, NEW i \in Below(Amount(a)), NEW x \in DOMAIN Plan(a, i)
               PROVE  x[1] = a
    BY DEF Written
  <2>1. Plan(a, i) = Turn(a, i) /\ call.place[a] = a
    BY <1>2 DEF Plan
  <2> QED BY <2>1, TurnCells
<1>5. Written("q") \cap Written("k") = {}
  BY <1>4
<1>6. ASSUME NEW i \in Below(Amount("k")), NEW x \in DOMAIN Plan("k", i)
      PROVE  cells'[x] = Before(Plan("k", i)[x])
  <2>1. Plan("k", i) = Turn("k", i)
    BY DEF Plan
  <2>2. \A n \in DOMAIN Plan("k", i)[x].from : Plan("k", i)[x].from[n][1] = "k"
    BY <1>2, <2>1, TurnCells
  <2>3. \A n \in DOMAIN Plan("k", i)[x].from : Plan("k", i)[x].from[n] \notin DOMAIN cells
    BY <1>3, <1>4, <2>2
  <2> QED BY <2>3, Untouched, KernelEffect
<1>7. ASSUME NEW i \in Below(Amount("q")), NEW x \in DOMAIN Plan("q", i)
      PROVE  cells'[x] = Before(Plan("q", i)[x])
  <2>1. x \in Written("q")
    BY DEF Written
  <2>2. cells'[x] = cells[x]
    BY <1>3, <1>5, <2>1, KernelEffect
  <2> QED BY <1>3, <2>2 DEF Result
<1>8. Result("q")'
  BY <1>3, <1>7, NextResult
<1>9. Result("k")'
  BY <1>3, <1>6, NextResult
<1> QED BY <1>3, <1>8, <1>9, KernelEffect

LEMMA MeanSecond ==
  ASSUME Running, Progress, RunKernel, pc = "mean"
  PROVE  /\ DOMAIN cells' = Written("rows") \cup Written("mean")
         /\ Result("rows")' /\ Averaged'
<1> DEFINE loss == Cell("loss", 0)
           from == Mean[loss].from
<1>1. call.entry = "cross_entropy_fwd" /\ call \in Calls
  BY DEF Running
<1>2. /\ call.place["row_nll"] = "row_nll" /\ call.place["mask"] = "mask"
      /\ call.place["loss"] = "loss" /\ Rows \in Nat
  <2>1. {"row_nll", "mask", "loss"} \subseteq DOMAIN call.arg /\ MayAlias(call.entry) = {}
    BY <1>1, LossFacts
  <2> QED BY <1>1, <2>1, Places, LossFacts
<1>3. DOMAIN cells = Written("rows") /\ Result("rows") /\ call' = call
  BY DEF Progress, RunKernel
<1>4. /\ Written("mean") = {loss} /\ DOMAIN Mean = {loss}
      /\ \A n \in DOMAIN from : from[n] # loss
  BY <1>2, MeanReads
<1>5. loss \notin Written("rows")
  <2> SUFFICES ASSUME NEW i \in Below(Rows), loss \in DOMAIN LossRow(i) PROVE FALSE
    BY DEF Written, Amount, Plan
  <2> QED BY <1>2 DEF LossRow, Elements, Cell
<1>6. ASSUME NEW i \in Below(Amount("rows")), NEW x \in DOMAIN Plan("rows", i)
      PROVE  cells'[x] = Before(Plan("rows", i)[x])
  <2>1. x \in Written("rows")
    BY DEF Written
  <2>2. cells'[x] = cells[x]
    BY <1>3, <1>4, <1>5, <2>1, KernelEffect
  <2> QED BY <1>3, <2>2 DEF Result
<1>7. cells'[loss] = Evaluate(Mean[loss])
  <2>1. Plan("mean", 0) = Mean /\ 0 \in Below(Amount("mean"))
    BY DEF Plan, Amount, Below
  <2> QED BY <1>4, <2>1, KernelEffect
<1>8. DOMAIN cells' = Written("rows") \cup {loss}
  BY <1>3, <1>4, KernelEffect
<1>9. \A x : x # loss => Read(x)' = Read(x)
  <2> SUFFICES ASSUME NEW x, x # loss PROVE Read(x)' = Read(x)
    OBVIOUS
  <2>1. x \in DOMAIN cells' <=> x \in DOMAIN cells
    BY <1>3, <1>8
  <2>2. x \in DOMAIN cells => cells'[x] = cells[x]
    BY <1>3, <1>4, <1>5, KernelEffect
  <2> QED BY <2>1, <2>2 DEF Read, Original
<1>10. Mean' = Mean /\ loss' = loss
  <2>1. Mean' = Mean
    BY <1>3, SameExtents DEF Mean, Elements, Line, Cell
  <2>2. loss' = loss
    BY <1>3 DEF Cell
  <2> QED BY <2>1, <2>2
<1>11. Evaluate(Mean[loss])' = Evaluate(Mean[loss])
  <2>1. ASSUME NEW term, \A n \in DOMAIN term.from : term.from[n] # loss
        PROVE  Evaluate(term)' = Evaluate(term)
    <3>1. \A n \in DOMAIN term.from : Read(term.from[n])' = Read(term.from[n])
      BY <1>9, <2>1
    <3> QED BY <3>1 DEF Evaluate
  <2> QED BY <1>4, <1>10, <2>1
<1>12. Averaged'
  BY <1>7, <1>10, <1>11 DEF Averaged
<1> QED BY <1>3, <1>4, <1>6, <1>8, <1>12, NextResult

LEMMA SpecProgress == Spec => [](KernelInv /\ Progress)
<1>1. Init => Progress
  BY DEF Init, Progress
<1>2. ASSUME KernelInv, Progress, [Next]_vars  PROVE Progress'
  <2>1. CASE Check
    BY <1>2, <2>1, CheckProgress
  <2>2. CASE RunKernel
    <3>1. /\ Running /\ call' = call /\ pc' = NextKernel /\ pc \in Kernels
          /\ Accepts' = Accepts /\ Accepts
          /\ \A k : Written(k)' = Written(k)
      BY <1>2, <2>2, SameCall, NextResult DEF RunKernel, KernelInv, Running
    <3>2. CASE pc = "k"
      <4>1. pc' \in {"done", "fatal"} /\ call.entry = "rope_fwd"
        BY <3>1, <3>2 DEF NextKernel, Running
      <4> QED BY <1>2, <2>2, <3>1, <3>2, <4>1, RopeSecond DEF Progress
    <3>3. CASE pc = "mean"
      <4>1. pc' \in {"done", "fatal"} /\ call.entry = "cross_entropy_fwd"
        BY <3>1, <3>3 DEF NextKernel, Running
      <4> QED BY <1>2, <2>2, <3>1, <3>3, <4>1, MeanSecond DEF Progress
    <3>4. CASE pc \in {"all", "q", "rows"}
      <4>1. cells = <<>>
        BY <1>2, <3>4 DEF Progress
      <4>2. DOMAIN cells' = Written(pc) /\ \A k : k = pc => Result(k)'
        BY <2>2, <3>1, <4>1, FirstKernelEffect, NextResult
      <4>3. CASE pc = "all"
        <5>1. /\ pc' \in {"done", "fatal"}
              /\ call.entry \notin {"rope_fwd", "cross_entropy_fwd"}
          BY <3>1, <4>3 DEF NextKernel, Running
        <5> QED BY <3>1, <4>2, <4>3, <5>1 DEF Progress
      <4>4. CASE pc = "q"
        <5>1. pc' \in {"k", "fatal"}
          BY <3>1, <4>4 DEF NextKernel
        <5> QED BY <3>1, <4>2, <4>4, <5>1 DEF Progress
      <4>5. CASE pc = "rows"
        <5>1. pc' = "mean"
          BY <3>1, <4>5 DEF NextKernel
        <5> QED BY <3>1, <4>2, <4>5, <5>1 DEF Progress
      <4> QED BY <3>4, <4>3, <4>4, <4>5
    <3> QED BY <3>1, <3>2, <3>3, <3>4 DEF Kernels
  <2>3. CASE UNCHANGED vars
    <3>1. call' = call /\ cells' = cells /\ pc' = pc
      BY <2>3 DEF vars
    <3>2. /\ Accepts' = Accepts
          /\ \A k : Written(k)' = Written(k) /\ (Result(k) => Result(k)')
      BY <3>1, SameCall, NextResult DEF Result
    <3>3. Averaged => Averaged'
      <4>1. Mean' = Mean /\ Cell("loss", 0)' = Cell("loss", 0)
        BY <3>1, SameExtents DEF Mean, Elements, Line, Cell
      <4>2. \A term : Evaluate(term)' = Evaluate(term)
        BY <3>1 DEF Evaluate, Read, Original
      <4> QED BY <3>1, <4>1, <4>2 DEF Averaged
    <3> QED BY <1>2, <3>1, <3>2, <3>3 DEF Progress
  <2> QED BY <1>2, <2>1, <2>2, <2>3 DEF Next
<1> QED BY <1>1, <1>2, SpecKernelInv, PTL DEF Spec

-----------------------------------------------------------------------------
(* Terms over the elements from before the call.                           *)
Originals(s) == [n \in DOMAIN s |-> Original(s[n])]

LEMMA BeforeTerm ==
  ASSUME NEW op, NEW from, NEW at
  PROVE  Before(Term(op, from, at)) = Term(op, Originals(from), at)
  BY DEF Before, Term, Originals

LEMMA ShortOriginals ==
  /\ Originals(<<>>) = <<>>
  /\ \A x : Originals(<<x>>) = <<Original(x)>>
  /\ \A x, y : Originals(<<x, y>>) = <<Original(x), Original(y)>>
  /\ \A x, y, z : Originals(<<x, y, z>>) = <<Original(x), Original(y), Original(z)>>
<1>1. Originals(<<>>) = <<>>
  BY DEF Originals
<1>2. ASSUME NEW x PROVE Originals(<<x>>) = <<Original(x)>>
  BY DEF Originals
<1>3. ASSUME NEW x, NEW y PROVE Originals(<<x, y>>) = <<Original(x), Original(y)>>
  BY DEF Originals
<1>4. ASSUME NEW x, NEW y, NEW z
      PROVE  Originals(<<x, y, z>>) = <<Original(x), Original(y), Original(z)>>
  BY DEF Originals
<1> QED BY <1>1, <1>2, <1>3, <1>4

Maps(f, S, T) == f \in [S -> T]
Mapped(f, s) == [n \in DOMAIN s |-> f[s[n]]]

LEMMA MapOfSeq ==
  ASSUME NEW S, NEW T, NEW f, Maps(f, S, T), NEW s \in Seq(S)
  PROVE  /\ Mapped(f, s) \in Seq(T)
         /\ Len(Mapped(f, s)) = Len(s)
         /\ \A n \in 1 .. Len(s) : Mapped(f, s)[n] = f[s[n]]
<1> DEFINE t == Mapped(f, s)
<1>1. DOMAIN s = 1 .. Len(s) /\ Len(s) \in Nat
  OBVIOUS
<1>2. \A n \in 1 .. Len(s) : s[n] \in S
  BY ElementOfSeq
<1>3. t \in [1 .. Len(s) -> T] /\ \A n \in 1 .. Len(s) : t[n] = f[s[n]]
  BY <1>1, <1>2 DEF Mapped, Maps
<1> HIDE DEF t
<1>4. t \in Seq(T)
  BY <1>1, <1>3, SeqDef
<1>5. DOMAIN t = 1 .. Len(s)
  BY <1>3
<1>6. Len(t) = Len(s)
  BY <1>1, <1>4, <1>5, LenProperties
<1> QED BY <1>3, <1>4, <1>6 DEF t

LEMMA SameSequence ==
  ASSUME NEW S, NEW s \in Seq(S), NEW t \in Seq(S), Len(s) = Len(t),
         \A n \in 1 .. Len(s) : s[n] = t[n]
  PROVE  s = t
<1> DEFINE len == Len(s)
<1>1. s \in [1 .. len -> S] /\ t \in [1 .. len -> S]
  BY LenProperties
<1>2. \A n \in 1 .. len : s[n] = t[n]
  OBVIOUS
<1> HIDE DEF len
<1>3. s = [n \in 1 .. len |-> s[n]] /\ t = [n \in 1 .. len |-> t[n]]
  BY <1>1
<1>4. [n \in 1 .. len |-> s[n]] = [n \in 1 .. len |-> t[n]]
  BY <1>2
<1> QED BY <1>3, <1>4, Zenon

LEMMA MapOfConcat ==
  ASSUME NEW S, NEW T, NEW f, Maps(f, S, T), NEW s \in Seq(S), NEW t \in Seq(S)
  PROVE  Mapped(f, s \o t) = Mapped(f, s) \o Mapped(f, t)
<1> DEFINE p == Mapped(f, s)
           q == Mapped(f, t)
           st == s \o t
           left == Mapped(f, st)
           right == p \o q
<1>1. /\ st \in Seq(S) /\ Len(st) = Len(s) + Len(t)
      /\ \A n \in 1 .. Len(s) + Len(t) : st[n] = IF n <= Len(s) THEN s[n] ELSE t[n - Len(s)]
  BY ConcatProperties
<1>2. p \in Seq(T) /\ Len(p) = Len(s) /\ \A n \in 1 .. Len(s) : p[n] = f[s[n]]
  BY MapOfSeq
<1>3. q \in Seq(T) /\ Len(q) = Len(t) /\ \A n \in 1 .. Len(t) : q[n] = f[t[n]]
  BY MapOfSeq
<1> HIDE DEF st, p, q
<1>4. left \in Seq(T) /\ Len(left) = Len(st) /\ \A n \in 1 .. Len(st) : left[n] = f[st[n]]
  <2>1. st \in Seq(S) /\ Maps(f, S, T)
    BY <1>1
  <2>2. Mapped(f, st) \in Seq(T)
    BY ONLY <2>1, MapOfSeq
  <2>3. Len(Mapped(f, st)) = Len(st)
    BY ONLY <2>1, MapOfSeq
  <2>4. \A n \in 1 .. Len(st) : Mapped(f, st)[n] = f[st[n]]
    BY ONLY <2>1, MapOfSeq
  <2> QED BY <2>2, <2>3, <2>4
<1>5. /\ right \in Seq(T) /\ Len(right) = Len(p) + Len(q)
      /\ \A n \in 1 .. Len(p) + Len(q) : right[n] = IF n <= Len(p) THEN p[n] ELSE q[n - Len(p)]
  <2>1. p \in Seq(T) /\ q \in Seq(T)
    BY <1>2, <1>3
  <2> QED BY ONLY <2>1, ConcatProperties
<1> DEFINE a == Len(s)
           b == Len(t)
<1>6. a \in Nat /\ b \in Nat
  OBVIOUS
<1> HIDE DEF left, right, a, b
<1>7. ASSUME NEW n \in 1 .. a + b  PROVE left[n] = right[n]
  <2>1. left[n] = f[st[n]]
    BY <1>1, <1>4, <1>7 DEF a, b
  <2>2. CASE n <= a
    <3>1. n \in 1 .. a
      BY <1>6, <2>2
    <3>2. st[n] = s[n] /\ right[n] = p[n] /\ p[n] = f[s[n]]
      BY <1>1, <1>2, <1>3, <1>5, <1>7, <2>2, <3>1 DEF a, b
    <3> QED BY <2>1, <3>2
  <2>3. CASE ~(n <= a)
    <3>1. n - a \in 1 .. b
      BY <1>6, <2>3
    <3>2. st[n] = t[n - a] /\ right[n] = q[n - a] /\ q[n - a] = f[t[n - a]]
      BY <1>1, <1>2, <1>3, <1>5, <1>7, <2>3, <3>1 DEF a, b
    <3> QED BY <2>1, <3>2
  <2> QED BY <2>2, <2>3
<1>8. Len(left) = a + b /\ Len(right) = a + b
  BY <1>1, <1>2, <1>3, <1>4, <1>5 DEF a, b
<1>9. left = right
  BY <1>4, <1>5, <1>7, <1>8, SameSequence
<1> QED BY <1>9 DEF left, right, st, p, q

LEMMA OriginalsOfSeq ==
  ASSUME NEW S, NEW s \in Seq(S)
  PROVE  /\ Len(Originals(s)) = Len(s)
         /\ \A n \in 1 .. Len(s) : Originals(s)[n] = Original(s[n])
<1> DEFINE f == [x \in S |-> Original(x)]
           T == {Original(x) : x \in S}
<1>1. Maps(f, S, T) /\ \A x \in S : f[x] = Original(x)
  BY DEF Maps
<1>2. \A n \in DOMAIN s : s[n] \in S
  BY ElementOfSeq
<1> HIDE DEF f, T
<1>3. Originals(s) = Mapped(f, s)
  BY <1>1, <1>2 DEF Originals, Mapped
<1>4. DOMAIN s = 1 .. Len(s)
  OBVIOUS
<1> QED BY <1>1, <1>2, <1>3, <1>4, MapOfSeq

LEMMA OriginalsOfConcat ==
  ASSUME NEW S, NEW s \in Seq(S), NEW t \in Seq(S)
  PROVE  Originals(s \o t) = Originals(s) \o Originals(t)
<1> DEFINE f == [x \in S |-> Original(x)]
           T == {Original(x) : x \in S}
           st == s \o t
<1>1. Maps(f, S, T) /\ \A x \in S : f[x] = Original(x)
  BY DEF Maps
<1>2. st \in Seq(S)
  BY ConcatProperties
<1> HIDE DEF f, T, st
<1>3. ASSUME NEW u \in Seq(S)  PROVE Originals(u) = Mapped(f, u)
  <2>1. \A n \in DOMAIN u : u[n] \in S
    BY ElementOfSeq
  <2> QED BY <1>1, <2>1 DEF Originals, Mapped
<1>4. Mapped(f, st) = Mapped(f, s) \o Mapped(f, t)
  BY <1>1, MapOfConcat DEF st
<1> QED BY <1>2, <1>3, <1>4 DEF st

LEMMA OriginalsOfLine ==
  ASSUME NEW a, NEW row, NEW width
  PROVE  Originals(Line(a, row, width)) = Columns(a, row * width, width)
<1> DEFINE line == Line(a, row, width)
<1>1. line = [n \in 1 .. width |-> Cell(a, row * width + n - 1)]
  BY DEF Line
<1>2. DOMAIN line = 1 .. width /\ \A n \in 1 .. width : line[n] = Cell(a, row * width + n - 1)
  BY <1>1
<1> HIDE DEF line
<1>3. Originals(line) = [n \in 1 .. width |-> Original(Cell(a, row * width + n - 1))]
  BY <1>2 DEF Originals
<1> QED BY <1>3 DEF Columns, O, line

CellsOf(a) == {Cell(a, n) : n \in Nat}

LEMMA LinePlace ==
  ASSUME NEW a, NEW row \in Nat, NEW width \in Nat
  PROVE  /\ Line(a, row, width) \in Seq(CellsOf(a))
         /\ Len(Line(a, row, width)) = width
         /\ \A k \in Below(width) : Line(a, row, width)[k + 1] = Cell(a, row * width + k)
<1> DEFINE S == CellsOf(a)
           u == row * width
<1>1. u \in Nat
  BY SMT
<1>2. Line(a, row, width) = [n \in 1 .. width |-> Cell(a, u + n - 1)]
  BY DEF Line
<1> HIDE DEF u
<1>3. \A k \in 0 .. width - 1 : Cell(a, u + k) \in S
  BY <1>1 DEF CellsOf
<1>4. ASSUME NEW k \in Below(width)  PROVE Line(a, row, width)[k + 1] = Cell(a, u + k)
  <2>1. k + 1 \in 1 .. width /\ u + (k + 1) - 1 = u + k
    BY <1>1 DEF Below
  <2> QED BY <1>2, <2>1
<1> HIDE DEF S
<1>5. Line(a, row, width) \in Seq(S) /\ Len(Line(a, row, width)) = width
  BY <1>3, LineIn DEF u
<1> QED BY <1>4, <1>5 DEF S, u

Prefix(a, row, width, limit) == SubSeq(Line(a, row, width), 1, limit)

LEMMA OriginalsOfPrefix ==
  ASSUME NEW a, NEW row \in Nat, NEW width \in Nat, NEW limit \in 0 .. width
  PROVE  /\ Prefix(a, row, width, limit) \in Seq(CellsOf(a))
         /\ \A k \in Below(limit) : Prefix(a, row, width, limit)[k + 1] = Cell(a, row * width + k)
         /\ Originals(Prefix(a, row, width, limit)) = Columns(a, row * width, limit)
<1> DEFINE S == CellsOf(a)
           u == row * width
           line == Line(a, row, width)
           seen == SubSeq(line, 1, limit)
<1>1. u \in Nat
  BY SMT
<1>2. line \in Seq(S) /\ Len(line) = width /\ \A k \in Below(width) : line[k + 1] = Cell(a, u + k)
  <2>1. row \in Nat /\ width \in Nat
    OBVIOUS
  <2>2. line \in Seq(S) /\ Len(line) = width
    BY ONLY <2>1, LinePlace, ZenonT(30)
  <2>3. \A k \in Below(width) : line[k + 1] = Cell(a, u + k)
    BY ONLY <2>1, LinePlace, ZenonT(30)
  <2> QED BY <2>2, <2>3
<1> HIDE DEF S, line, u
<1>3. seen \in Seq(S) /\ Len(seen) = limit /\ \A n \in 1 .. limit : seen[n] = line[n]
  <2>1. 1 \in 1 .. Len(line) + 1 /\ limit \in 1 - 1 .. Len(line) /\ limit - 1 + 1 = limit
    BY <1>2
  <2>2. /\ seen \in Seq(S) /\ Len(seen) = limit - 1 + 1
        /\ \A n \in 1 .. limit - 1 + 1 : seen[n] = line[1 + n - 1]
    BY <1>2, <2>1, SubSeqProperties
  <2>3. \A n \in 1 .. limit : 1 + n - 1 = n
    OBVIOUS
  <2> QED BY <2>1, <2>2, <2>3
<1> HIDE DEF seen
<1>4. ASSUME NEW k \in Below(limit)  PROVE seen[k + 1] = Cell(a, u + k)
  <2>1. k + 1 \in 1 .. limit /\ k \in Below(width)
    BY DEF Below
  <2> QED BY <1>2, <1>3, <2>1
<1>5. DOMAIN seen = 1 .. limit
  BY <1>3
<1>6. \A n \in 1 .. limit : seen[n] = Cell(a, u + n - 1)
  <2> SUFFICES ASSUME NEW n \in 1 .. limit PROVE seen[n] = Cell(a, u + n - 1)
    OBVIOUS
  <2>1. n - 1 \in Below(limit) /\ (n - 1) + 1 = n /\ u + (n - 1) = u + n - 1
    BY <1>1 DEF Below
  <2>2. seen[(n - 1) + 1] = Cell(a, u + (n - 1))
    BY <1>4, <2>1
  <2> QED BY <2>1, <2>2
<1>7. Originals(seen) = Columns(a, u, limit)
  BY <1>5, <1>6 DEF Originals, Columns, O
<1> QED BY <1>3, <1>4, <1>7 DEF S, u, line, seen, Prefix

(* What one element's worker has left.                                     *)
LEMMA ElementLeft ==
  ASSUME NEW k, Result(k), NEW i \in Below(Amount(k)), NEW a, NEW op, NEW from, NEW at,
         Plan(k, i) = Elements(a, i, Term(op, from, at))
  PROVE  Is(a, i, op, Originals(from), at)
<1>1. Cell(a, i) \in DOMAIN Plan(k, i) /\ Plan(k, i)[Cell(a, i)] = Term(op, from, at)
  BY DEF Elements
<1>2. cells[Cell(a, i)] = Before(Term(op, from, at))
  BY <1>1 DEF Result
<1> QED BY <1>2, BeforeTerm DEF Is

-----------------------------------------------------------------------------
(* The calls of one kernel, whose workers have all been heard.             *)
Complete ==
  /\ call \in Calls /\ Accepts
  /\ DOMAIN cells = Written("all") /\ Result("all")

LEMMA FillMatches ==
  ASSUME Complete, call.entry \in {"fill_value", "fill_rng"}
  PROVE  MatchesHeader
<1>1. \A i : \/ call.entry = "fill_value" /\ Plan("all", i) = Elements("dst", i, Term("value", <<>>, <<>>))
             \/ call.entry = "fill_rng" /\ Plan("all", i) = Elements("dst", i, Term("draw", <<>>, <<i>>))
  BY DEF Plan, Single
<1>2. Written("all") = {Cell("dst", i) : i \in Below(Amount("all"))}
  <2>1. \A i : DOMAIN Plan("all", i) = {Cell("dst", i)}
    BY <1>1 DEF Elements
  <2> QED BY <2>1 DEF Written
<1>3. Outputs = {"dst"} /\ Amount("all") = Asked("dst")
  BY DEF Outputs, Asked, Amount
<1>4. DOMAIN cells = UNION {{Cell(a, i) : i \in Below(Asked(a))} : a \in Outputs}
  BY <1>2, <1>3 DEF Complete
<1>5. CASE call.entry = "fill_value"
  <2>1. ASSUME NEW i \in Below(Amount("all"))  PROVE Is("dst", i, "value", <<>>, <<>>)
    <3>1. Plan("all", i) = Elements("dst", i, Term("value", <<>>, <<>>))
      BY <1>1, <1>5
    <3>2. Is("dst", i, "value", Originals(<<>>), <<>>)
      BY <3>1, ElementLeft DEF Complete
    <3> QED BY <3>2, ShortOriginals
  <2>2. Amount("all") = Numel("dst")
    BY <1>5 DEF Amount
  <2> QED BY <1>4, <1>5, <2>1, <2>2 DEF MatchesHeader
<1>6. CASE call.entry = "fill_rng"
  <2>1. ASSUME NEW i \in Below(Amount("all"))  PROVE Is("dst", i, "draw", <<>>, <<i>>)
    <3>1. Plan("all", i) = Elements("dst", i, Term("draw", <<>>, <<i>>))
      BY <1>1, <1>6
    <3>2. Is("dst", i, "draw", Originals(<<>>), <<i>>)
      BY <3>1, ElementLeft DEF Complete
    <3> QED BY <3>2, ShortOriginals
  <2>2. Amount("all") = call.param
    BY <1>6 DEF Amount
  <2> QED BY <1>4, <1>6, <2>1, <2>2 DEF MatchesHeader
<1> QED BY <1>5, <1>6

LEMMA GeluMatches ==
  ASSUME Complete, call.entry = "gelu_fwd"
  PROVE  MatchesHeader
<1>1. \A i : Plan("all", i) = Elements("y", i, Term("gelu", <<Cell("x", i)>>, <<>>))
  BY DEF Plan, Single
<1>2. Written("all") = {Cell("y", i) : i \in Below(Amount("all"))}
  <2>1. \A i : DOMAIN Plan("all", i) = {Cell("y", i)}
    BY <1>1 DEF Elements
  <2> QED BY <2>1 DEF Written
<1>3. Numel("y") = Numel("x")
  <2>1. Elementwise("x") /\ "y" \in DOMAIN call.arg
    BY CallFacts DEF Complete, Accepts, Fits, Arguments
  <2> QED BY <2>1, SameShape DEF Elementwise, OfShape
<1>4. Outputs = {"y"} /\ Amount("all") = Asked("y") /\ Amount("all") = Numel("x")
  BY <1>3 DEF Outputs, Asked, Amount
<1>5. DOMAIN cells = UNION {{Cell(a, i) : i \in Below(Asked(a))} : a \in Outputs}
  BY <1>2, <1>4 DEF Complete
<1>6. ASSUME NEW i \in Below(Amount("all"))  PROVE Is("y", i, "gelu", <<O("x", i)>>, <<>>)
  <2>1. Is("y", i, "gelu", Originals(<<Cell("x", i)>>), <<>>)
    BY <1>1, ElementLeft DEF Complete
  <2> QED BY <2>1, ShortOriginals DEF O
<1> QED BY <1>4, <1>5, <1>6 DEF MatchesHeader

LEMMA ResidualMatches ==
  ASSUME Complete, call.entry = "residual_fwd"
  PROVE  MatchesHeader
<1>1. \A i : Plan("all", i) = Elements("out", i, Term("add", <<Cell("a", i), Cell("b", i)>>, <<>>))
  BY DEF Plan, Single
<1>2. Written("all") = {Cell("out", i) : i \in Below(Amount("all"))}
  <2>1. \A i : DOMAIN Plan("all", i) = {Cell("out", i)}
    BY <1>1 DEF Elements
  <2> QED BY <2>1 DEF Written
<1>3. Numel("out") = Numel("a")
  <2>1. Elementwise("a") /\ "out" \in DOMAIN call.arg
    BY CallFacts DEF Complete, Accepts, Fits, Arguments
  <2> QED BY <2>1, SameShape DEF Elementwise, OfShape
<1>4. Outputs = {"out"} /\ Amount("all") = Asked("out") /\ Amount("all") = Numel("a")
  BY <1>3 DEF Outputs, Asked, Amount
<1>5. DOMAIN cells = UNION {{Cell(a, i) : i \in Below(Asked(a))} : a \in Outputs}
  BY <1>2, <1>4 DEF Complete
<1>6. ASSUME NEW i \in Below(Amount("all"))
      PROVE  Is("out", i, "add", <<O("a", i), O("b", i)>>, <<>>)
  <2>1. Is("out", i, "add", Originals(<<Cell("a", i), Cell("b", i)>>), <<>>)
    BY <1>1, ElementLeft DEF Complete
  <2> QED BY <2>1, ShortOriginals DEF O
<1> QED BY <1>4, <1>5, <1>6 DEF MatchesHeader

-----------------------------------------------------------------------------
LEMMA CellLeft ==
  ASSUME NEW k, Result(k), NEW i \in Below(Amount(k)), NEW x \in DOMAIN Plan(k, i),
         NEW op, NEW from, NEW at, Plan(k, i)[x] = Term(op, from, at)
  PROVE  cells[x] = Term(op, Originals(from), at)
<1>1. cells[x] = Before(Term(op, from, at))
  BY DEF Result
<1> QED BY <1>1, BeforeTerm

(* Where an element of a head lies, and how its place is taken apart.      *)
Coordinates(B, H, T, D, b, h, t, d) ==
  /\ B \in Nat /\ H \in Nat /\ T \in Nat /\ D \in Nat
  /\ b \in Nat /\ b < B /\ h \in Nat /\ h < H /\ t \in Nat /\ t < T /\ d \in Nat /\ d < D
Place(b, H, h, T, t, D, d) == ((b * H + h) * T + t) * D + d

LEMMA HeadPlace ==
  ASSUME NEW B, NEW H, NEW T, NEW D, NEW b, NEW h, NEW t, NEW d, NEW i,
         Coordinates(B, H, T, D, b, h, t, d), i = Place(b, H, h, T, t, D, d)
  PROVE  /\ i \in Nat /\ i < ((B * H) * T) * D
         /\ i % D = d /\ i \div D = (b * H + h) * T + t
         /\ (i \div D) % T = t /\ ((i \div D) \div T) % H = h
         /\ i \div (D * T * H) = b
<1> DEFINE p == b * H + h
           n == p * T + t
           heads == B * H
           rows == heads * T
           w == D * T * H
           rest == (h * T + t) * D + d
<1>1. /\ B \in Nat /\ H \in Nat /\ T \in Nat /\ D \in Nat
      /\ b \in Nat /\ b < B /\ h \in Nat /\ h < H /\ t \in Nat /\ t < T /\ d \in Nat /\ d < D
  BY DEF Coordinates
<1>2. H \in Nat \ {0} /\ T \in Nat \ {0} /\ D \in Nat \ {0}
  BY <1>1
<1>3. p \in Nat /\ p < heads /\ heads \in Nat
  BY <1>1, RowElement, SMT
<1>4. p \div H = b /\ p % H = h
  BY ONLY <1>1, <1>2, RowPlace
<1> HIDE DEF p, heads
<1>5. n \in Nat /\ n < rows /\ rows \in Nat
  BY <1>1, <1>3, RowElement, SMT
<1>6. n \div T = p /\ n % T = t
  BY ONLY <1>1, <1>2, <1>3, RowPlace
<1> HIDE DEF n, rows
<1>7. i = n * D + d
  BY DEF n, p, Place
<1>8. i \in Nat /\ i < rows * D
  BY <1>1, <1>5, <1>7, RowElement
<1>9. i \div D = n /\ i % D = d
  BY ONLY <1>1, <1>2, <1>5, <1>7, RowPlace
<1>10. i \div w = b
  <2>1. w \in Nat
    BY <1>1, SMT
  <2>2. rest \in Nat /\ rest < w
    <3>1. h * T + t \in Nat /\ h * T + t < H * T /\ H * T \in Nat
      BY <1>1, RowElement, SMT
    <3> DEFINE m == h * T + t
               mt == H * T
    <3>2. m \in Nat /\ m < mt /\ mt \in Nat
      BY <3>1
    <3> HIDE DEF m, mt
    <3>3. m * D + d \in Nat /\ m * D + d < mt * D
      BY <1>1, <3>2, RowElement
    <3>4. mt * D = w
      BY <1>1, SMT DEF mt
    <3> QED BY <3>3, <3>4 DEF m
  <2>3. i = b * w + rest
    <3>1. p * T + t = b * (H * T) + (h * T + t)
      BY <1>1, SMT DEF p
    <3>2. n * D + d = (b * (H * T)) * D + rest
      <4> DEFINE u == b * (H * T)
                 v == h * T + t
      <4>1. u \in Nat /\ v \in Nat
        BY <1>1, SMT
      <4>2. n = u + v
        BY <3>1 DEF n
      <4> HIDE DEF u, v
      <4>3. n * D = u * D + v * D
        BY <1>1, <4>1, <4>2, SMT
      <4>4. u * D \in Nat /\ v * D \in Nat
        BY <1>1, <4>1, SMT
      <4>5. rest = v * D + d
        BY DEF v
      <4> HIDE DEF rest
      <4>6. n * D + d = u * D + rest
        BY <1>1, <4>3, <4>4, <4>5
      <4> QED BY <4>6 DEF u
    <3>3. (b * (H * T)) * D = b * w
      BY <1>1, SMT
    <3> QED BY <1>7, <3>2, <3>3
  <2> HIDE DEF w, rest
  <2>4. w \in Nat \ {0}
    BY <2>1, <2>2
  <2> QED BY ONLY <1>1, <2>2, <2>3, <2>4, RowPlace
<1> QED BY <1>3, <1>4, <1>6, <1>8, <1>9, <1>10 DEF n, p, rows, heads, w

-----------------------------------------------------------------------------
LEMMA SplitPlan ==
  ASSUME call \in Calls, Accepts, call.entry = "permute_split", NEW i,
         NEW src, src = ((i \div (Dim("q", 4) * Dim("q", 3) * Dim("q", 2))) * Dim("q", 3)
                           + ((i \div Dim("q", 4)) % Dim("q", 3))) * 3 * Inner
                        + (((i \div Dim("q", 4)) \div Dim("q", 3)) % Dim("q", 2)) * Dim("q", 4)
                        + (i % Dim("q", 4))
  PROVE  /\ DOMAIN Plan("all", i) = {Cell("q", i), Cell("k", i), Cell("v", i)}
         /\ Plan("all", i)[Cell("q", i)] = Term("copy", <<Cell("qkv", src)>>, <<>>)
         /\ Plan("all", i)[Cell("k", i)] = Term("copy", <<Cell("qkv", src + Inner)>>, <<>>)
         /\ Plan("all", i)[Cell("v", i)] = Term("copy", <<Cell("qkv", src + 2 * Inner)>>, <<>>)
<1> DEFINE B == Dim("q", 1)
           H == Dim("q", 2)
           T == Dim("q", 3)
           D == Dim("q", 4)
           d == i % D
           h == ((i \div D) \div T) % H
           t == (i \div D) % T
           b == i \div (D * T * H)
           from == (b * T + t) * 3 * Inner + h * D + d
<1>1. Plan("all", i) = Split(i)
  BY DEF Plan, Single
<1>2. /\ HeadDim = D /\ Dim("qkv", 2) = T /\ call.param = H
      /\ HeadAndTime(i \div D, T) = <<h, t>>
  BY SplitShapes DEF HeadAndTime
<1>3. <<h, t>>[1] = h /\ <<h, t>>[2] = t
  OBVIOUS
<1>4. Split(i) = [x \in {Cell(a, i) : a \in {"q", "k", "v"}} |->
        Term("copy", <<Cell("qkv", CASE x = Cell("q", i) -> from
                                     [] x = Cell("k", i) -> from + Inner
                                     [] x = Cell("v", i) -> from + 2 * Inner)>>, <<>>)]
  <2> HIDE DEF B, H, T, D
  <2> QED BY <1>2, <1>3 DEF Split
<1>5. from = src
  OBVIOUS
<1> HIDE DEF from
<1>6. Cell("q", i) # Cell("k", i) /\ Cell("q", i) # Cell("v", i) /\ Cell("k", i) # Cell("v", i)
  <2>1. \A a \in {"q", "k", "v"} : call.place[a] = a
    <3>1. {"q", "k", "v"} \subseteq DOMAIN call.arg /\ MayAlias(call.entry) = {}
      BY SplitShapes
    <3>2. KeepsContract(call)
      BY CallFacts
    <3> QED BY <3>1, <3>2 DEF KeepsContract
  <2> QED BY <2>1 DEF Cell
<1>7. {Cell(a, i) : a \in {"q", "k", "v"}} = {Cell("q", i), Cell("k", i), Cell("v", i)}
  OBVIOUS
<1> QED BY <1>1, <1>4, <1>5, <1>6, <1>7

LEMMA SplitPlaces ==
  ASSUME NEW p \in Nat, NEW inner \in Nat, NEW e \in Nat, NEW hD \in Nat, NEW d \in Nat, e = hD + d
  PROVE  /\ p * 3 * inner + hD + d = p * (3 * inner) + e
         /\ p * 3 * inner + hD + d + inner = p * (3 * inner) + (inner + e)
         /\ p * 3 * inner + hD + d + 2 * inner = p * (3 * inner) + (2 * inner + e)
<1> DEFINE u == p * 3 * inner
<1>1. u \in Nat /\ p * (3 * inner) = u
  BY SMT
<1> HIDE DEF u
<1> QED BY <1>1 DEF u

LEMMA SplitMatches ==
  ASSUME Complete, call.entry = "permute_split"
  PROVE  MatchesHeader
<1> DEFINE B == Dim("q", 1)
           H == Dim("q", 2)
           T == Dim("q", 3)
           D == Dim("q", 4)
           N == Amount("all")
<1>1. call \in Calls /\ Accepts /\ DOMAIN cells = Written("all") /\ Result("all")
  BY DEF Complete
<1>2. B \in Nat /\ H \in Nat /\ T \in Nat /\ D \in Nat
  BY <1>1, SplitShapes
<1>3. N = ((B * H) * T) * D /\ \A a \in {"q", "k", "v"} : Asked(a) = N
  BY <1>1, SplitShapes DEF Amount, Asked
<1>4. DOMAIN cells = UNION {{Cell(a, i) : i \in Below(Asked(a))} : a \in Outputs}
  <2>1. \A i : DOMAIN Plan("all", i) = {Cell("q", i), Cell("k", i), Cell("v", i)}
    BY <1>1, SplitPlan
  <2>2. Outputs = {"q", "k", "v"}
    BY DEF Outputs
  <2> HIDE DEF N
  <2>3. Written("all") = UNION {{Cell("q", i), Cell("k", i), Cell("v", i)} : i \in Below(N)}
    BY <2>1 DEF Written, N
  <2>4. UNION {{Cell(a, i) : i \in Below(Asked(a))} : a \in Outputs}
          = UNION {{Cell(a, i) : i \in Below(N)} : a \in {"q", "k", "v"}}
    BY <1>3, <2>2
  <2>5. UNION {{Cell("q", i), Cell("k", i), Cell("v", i)} : i \in Below(N)}
          = UNION {{Cell(a, i) : i \in Below(N)} : a \in {"q", "k", "v"}}
    OBVIOUS
  <2> QED BY <1>1, <2>3, <2>4, <2>5
<1>5. ASSUME NEW b \in Below(B), NEW h \in Below(H), NEW t \in Below(T), NEW d \in Below(D)
      PROVE  /\ Is("q", HeadAt("q", b, h, t, d), "copy", <<O("qkv", RowAt("qkv", b, t, h * D + d))>>, <<>>)
             /\ Is("k", HeadAt("q", b, h, t, d), "copy",
                   <<O("qkv", RowAt("qkv", b, t, H * D + (h * D + d)))>>, <<>>)
             /\ Is("v", HeadAt("q", b, h, t, d), "copy",
                   <<O("qkv", RowAt("qkv", b, t, 2 * (H * D) + (h * D + d)))>>, <<>>)
  <2> DEFINE i == HeadAt("q", b, h, t, d)
             p == b * T + t
             e == h * D + d
             src == p * 3 * Inner + h * D + d
  <2>1. i = Place(b, H, h, T, t, D, d)
    BY DEF HeadAt, Place
  <2>2. b \in Nat /\ b < B /\ h \in Nat /\ h < H /\ t \in Nat /\ t < T /\ d \in Nat /\ d < D
    <3> HIDE DEF B, H, T, D
    <3> QED BY <1>2, <1>5 DEF Below
  <2>3. Coordinates(B, H, T, D, b, h, t, d)
    BY <1>2, <2>2 DEF Coordinates
  <2>4. /\ i \in Nat /\ i < ((B * H) * T) * D
        /\ i % D = d /\ i \div D = (b * H + h) * T + t
        /\ (i \div D) % T = t /\ ((i \div D) \div T) % H = h
        /\ i \div (D * T * H) = b
    <3> HIDE DEF B, H, T, D, i
    <3> QED BY ONLY <2>3, <2>1, HeadPlace
  <2>5. i \in Below(N)
    <3> HIDE DEF B, H, T, D, i, N
    <3>1. N \in Int
      BY <1>2, <1>3, SMT
    <3> QED BY <1>3, <2>4, <3>1 DEF Below
  <2>6. /\ DOMAIN Plan("all", i) = {Cell("q", i), Cell("k", i), Cell("v", i)}
        /\ Plan("all", i)[Cell("q", i)] = Term("copy", <<Cell("qkv", src)>>, <<>>)
        /\ Plan("all", i)[Cell("k", i)] = Term("copy", <<Cell("qkv", src + Inner)>>, <<>>)
        /\ Plan("all", i)[Cell("v", i)] = Term("copy", <<Cell("qkv", src + 2 * Inner)>>, <<>>)
    <3>1. src = ((i \div (D * T * H)) * T + ((i \div D) % T)) * 3 * Inner
                  + (((i \div D) \div T) % H) * D + (i % D)
      <4> HIDE DEF B, H, T, D, i
      <4> QED BY <2>4
    <3> HIDE DEF src, i
    <3> QED BY <1>1, <3>1, SplitPlan
  <2>7. /\ src = RowAt("qkv", b, t, e) /\ src + Inner = RowAt("qkv", b, t, H * D + e)
        /\ src + 2 * Inner = RowAt("qkv", b, t, 2 * (H * D) + e)
    <3>1. Dim("qkv", 2) = T /\ Dim("qkv", 3) = 3 * Inner /\ Inner = H * D
      BY <1>1, SplitShapes
    <3>2. /\ RowAt("qkv", b, t, e) = p * (3 * Inner) + e
          /\ RowAt("qkv", b, t, H * D + e) = p * (3 * Inner) + (Inner + e)
          /\ RowAt("qkv", b, t, 2 * (H * D) + e) = p * (3 * Inner) + (2 * Inner + e)
      BY <3>1 DEF RowAt
    <3> DEFINE hD == h * D
    <3> HIDE DEF B, H, T, D
    <3>3. p \in Nat /\ Inner \in Nat /\ e \in Nat /\ hD \in Nat /\ e = hD + d /\ d \in Nat
      BY <1>2, <2>2, <3>1, SMT
    <3>4. src = p * 3 * Inner + hD + d
      OBVIOUS
    <3> HIDE DEF p, e, hD, src
    <3>5. /\ p * 3 * Inner + hD + d = p * (3 * Inner) + e
          /\ p * 3 * Inner + hD + d + Inner = p * (3 * Inner) + (Inner + e)
          /\ p * 3 * Inner + hD + d + 2 * Inner = p * (3 * Inner) + (2 * Inner + e)
      BY ONLY <3>3, SplitPlaces
    <3> QED BY <3>2, <3>4, <3>5
  <2> HIDE DEF i, src, e, p, N
  <2>8. \A x : Originals(<<x>>) = <<Original(x)>>
    BY ShortOriginals
  <2>9. Is("q", i, "copy", <<O("qkv", src)>>, <<>>)
    <3>1. cells[Cell("q", i)] = Term("copy", Originals(<<Cell("qkv", src)>>), <<>>)
      BY <1>1, <2>5, <2>6, CellLeft DEF N
    <3> QED BY <2>8, <3>1 DEF Is, O
  <2>10. Is("k", i, "copy", <<O("qkv", src + Inner)>>, <<>>)
    <3>1. cells[Cell("k", i)] = Term("copy", Originals(<<Cell("qkv", src + Inner)>>), <<>>)
      BY <1>1, <2>5, <2>6, CellLeft DEF N
    <3> QED BY <2>8, <3>1 DEF Is, O
  <2>11. Is("v", i, "copy", <<O("qkv", src + 2 * Inner)>>, <<>>)
    <3>1. cells[Cell("v", i)] = Term("copy", Originals(<<Cell("qkv", src + 2 * Inner)>>), <<>>)
      BY <1>1, <2>5, <2>6, CellLeft DEF N
    <3> QED BY <2>8, <3>1 DEF Is, O
  <2> QED BY <2>7, <2>9, <2>10, <2>11 DEF i, e
<1>6. SplitRight
  <2>1. \A a \in {"k", "v"} : \A b, h, t, d : HeadAt(a, b, h, t, d) = HeadAt("q", b, h, t, d)
    BY <1>1, SplitShapes DEF HeadAt
  <2> QED BY <1>5, <2>1 DEF SplitRight
<1> QED BY <1>4, <1>6 DEF MatchesHeader

(* One element for each worker, in the order of the output.               *)
LEMMA OneOutput ==
  ASSUME Complete, NEW a, Outputs = {a}, Asked(a) = Amount("all"),
         \A i : DOMAIN Plan("all", i) = {Cell(a, i)}
  PROVE  DOMAIN cells = UNION {{Cell(b, i) : i \in Below(Asked(b))} : b \in Outputs}
<1>1. Written("all") = {Cell(a, i) : i \in Below(Amount("all"))}
  BY DEF Written
<1> QED BY <1>1 DEF Complete

LEMMA MergePlace ==
  ASSUME NEW B, NEW H, NEW T, NEW D, NEW b, NEW h, NEW t, NEW d, NEW i, NEW inner,
         Coordinates(B, H, T, D, b, h, t, d), inner = H * D,
         i = (b * T + t) * inner + (h * D + d)
  PROVE  /\ i \in Nat /\ i < (B * T) * inner
         /\ i % D = d /\ (i \div D) % H = h
         /\ (i \div inner) % T = t /\ i \div (inner * T) = b
<1> DEFINE n == b * T + t
           e == h * D + d
<1>1. /\ B \in Nat /\ H \in Nat /\ T \in Nat /\ D \in Nat
      /\ b \in Nat /\ b < B /\ h \in Nat /\ h < H /\ t \in Nat /\ t < T /\ d \in Nat /\ d < D
  BY DEF Coordinates
<1>2. n \in Nat /\ n < B * T /\ B * T \in Nat
  BY <1>1, RowElement, SMT
<1>3. e \in Nat /\ e < inner /\ inner \in Nat \ {0}
  <2>1. e \in Nat /\ e < H * D /\ H * D \in Nat
    BY <1>1, RowElement, SMT
  <2> HIDE DEF e
  <2> QED BY <2>1
<1>4. T \in Nat \ {0}
  BY <1>1
<1>5. n \div T = b /\ n % T = t
  BY ONLY <1>1, <1>4, RowPlace
<1>6. i = n * inner + e
  OBVIOUS
<1> DEFINE rows == B * T
<1>7. i \in Nat /\ i < rows * inner
  <2> HIDE DEF n, e, rows
  <2>1. rows \in Nat /\ n < rows
    BY <1>2 DEF rows
  <2> QED BY ONLY <1>2, <1>3, <1>6, <2>1, RowElement
<1>8. i \div inner = n
  <2> HIDE DEF n, e
  <2> QED BY ONLY <1>2, <1>3, <1>6, RowPlace
<1>9. i = Place(b, T, t, H, h, D, d) /\ Coordinates(B, T, H, D, b, t, h, d)
  <2>1. i = n * (H * D) + (h * D + d)
    OBVIOUS
  <2> HIDE DEF n
  <2>2. n * (H * D) = (n * H) * D /\ (n * H + h) * D = (n * H) * D + h * D
    BY <1>1, <1>2, SMT
  <2>3. (n * H) * D \in Nat /\ h * D \in Nat
    BY <1>1, <1>2, SMT
  <2> DEFINE u == (n * H) * D
             v == h * D
  <2>4. i = u + (v + d) /\ (n * H + h) * D = u + v /\ u \in Nat /\ v \in Nat
    BY <2>1, <2>2, <2>3, Zenon
  <2> HIDE DEF u, v
  <2>5. i = (n * H + h) * D + d
    BY <1>1, <2>4
  <2> QED BY <1>1, <2>5 DEF n, Place, Coordinates
<1>10. i % D = d /\ (i \div D) % H = h /\ i \div (D * H * T) = b
  BY ONLY <1>9, HeadPlace
<1>11. D * H * T = inner * T
  BY <1>1, SMT
<1> QED BY <1>5, <1>7, <1>8, <1>10, <1>11 DEF rows

LEMMA MergeMatches ==
  ASSUME Complete, call.entry = "permute_merge"
  PROVE  MatchesHeader
<1> DEFINE B == Dim("x", 1)
           H == Dim("x", 2)
           T == Dim("x", 3)
           D == Dim("x", 4)
           inner == Inner
           src(i) == (((i \div (inner * T)) * H + ((i \div D) % H)) * T + ((i \div inner) % T)) * D + (i % D)
<1>1. call \in Calls /\ Accepts /\ Result("all")
  BY DEF Complete
<1>2. /\ B \in Nat /\ H \in Nat /\ T \in Nat /\ D \in Nat /\ inner = H * D /\ HeadDim = D
      /\ Dim("y", 2) = T /\ Dim("y", 3) = inner
  BY <1>1, MergeShapes
<1>3. Amount("all") = (B * T) * inner /\ Amount("all") = Asked("y") /\ Amount("all") \in Int
  BY <1>1, MergeShapes, NumelType DEF Amount, Asked
<1>4. \A i : Plan("all", i) = Elements("y", i, Term("copy", <<Cell("x", src(i))>>, <<>>))
  BY <1>2 DEF Plan, Single, Merge
<1>5. DOMAIN cells = UNION {{Cell(a, i) : i \in Below(Asked(a))} : a \in Outputs}
  <2>1. \A i : DOMAIN Plan("all", i) = {Cell("y", i)}
    BY <1>4 DEF Elements
  <2> QED BY <1>3, <2>1, OneOutput DEF Outputs
<1>6. ASSUME NEW b \in Below(B), NEW h \in Below(H), NEW t \in Below(T), NEW d \in Below(D)
      PROVE  Is("y", RowAt("y", b, t, h * D + d), "copy", <<O("x", HeadAt("x", b, h, t, d))>>, <<>>)
  <2> DEFINE i == RowAt("y", b, t, h * D + d)
             at == HeadAt("x", b, h, t, d)
  <2>1. i = (b * T + t) * inner + (h * D + d)
    BY <1>2 DEF RowAt
  <2>2. at = ((b * H + h) * T + t) * D + d
    BY DEF HeadAt
  <2> HIDE DEF B, H, T, D, inner, i, at
  <2>3. Coordinates(B, H, T, D, b, h, t, d)
    BY <1>2, <1>6 DEF Below, Coordinates
  <2>4. /\ i \in Nat /\ i < (B * T) * inner
        /\ i % D = d /\ (i \div D) % H = h
        /\ (i \div inner) % T = t /\ i \div (inner * T) = b
    BY ONLY <1>2, <2>1, <2>3, MergePlace
  <2>5. src(i) = at
    BY <2>2, <2>4
  <2>6. i \in Below(Amount("all"))
    BY <1>3, <2>4 DEF Below
  <2> HIDE DEF src
  <2>7. Is("y", i, "copy", Originals(<<Cell("x", src(i))>>), <<>>)
    BY <1>1, <1>4, <2>6, ElementLeft
  <2>8. Originals(<<Cell("x", src(i))>>) = <<O("x", at)>>
    BY <2>5, ShortOriginals DEF O
  <2> QED BY <2>7, <2>8 DEF i, at, D
<1>7. MergeRight
  BY <1>6 DEF MergeRight
<1> QED BY <1>5, <1>7 DEF MatchesHeader

LEMMA EmbeddingMatches ==
  ASSUME Complete, call.entry = "embedding_fwd"
  PROVE  MatchesHeader
<1> DEFINE B == Dim("y", 1)
           T == Dim("y", 2)
           W == Dim("y", 3)
           from(i) == <<Cell("wte", Id(i \div W) * W + (i % W)), Cell("tokens", i \div W)>>
<1>1. call \in Calls /\ Accepts /\ Result("all")
  BY DEF Complete
<1>2. B \in Nat /\ T \in Nat /\ W \in Nat /\ Dim("wte", 2) = W
  BY <1>1, EmbeddingShapes
<1>3. Amount("all") = (B * T) * W /\ Amount("all") = Asked("y") /\ Amount("all") \in Int
  BY <1>1, EmbeddingShapes, NumelType DEF Amount, Asked
<1>4. \A i : Plan("all", i) = Elements("y", i, Term("gather", from(i), <<>>))
  BY <1>2 DEF Plan, Single, Embed
<1>5. DOMAIN cells = UNION {{Cell(a, i) : i \in Below(Asked(a))} : a \in Outputs}
  <2>1. \A i : DOMAIN Plan("all", i) = {Cell("y", i)}
    BY <1>4 DEF Elements
  <2> QED BY <1>3, <2>1, OneOutput DEF Outputs
<1>6. ASSUME NEW b \in Below(B), NEW t \in Below(T), NEW k \in Below(W)
      PROVE  Is("y", RowAt("y", b, t, k), "gather",
                <<O("wte", Id(b * T + t) * W + k), O("tokens", b * T + t)>>, <<>>)
  <2> DEFINE n == b * T + t
             i == RowAt("y", b, t, k)
  <2>1. i = n * W + k
    BY DEF RowAt
  <2> HIDE DEF B, T, W, i
  <2>2. b \in Nat /\ b < B /\ t \in Nat /\ t < T /\ k \in Nat /\ k < W /\ W \in Nat \ {0}
    BY <1>2, <1>6 DEF Below
  <2> DEFINE rows == B * T
  <2>3. n \in Nat /\ n < rows /\ rows \in Nat
    BY <1>2, <2>2, RowElement, SMT
  <2> HIDE DEF n, rows
  <2>4. i \div W = n /\ i % W = k
    BY ONLY <2>1, <2>2, <2>3, RowPlace
  <2>5. i \in Nat /\ i < rows * W
    BY ONLY <2>1, <2>2, <2>3, RowElement
  <2>6. i \in Below(Amount("all"))
    BY <1>3, <2>5 DEF Below, rows
  <2>7. from(i) = <<Cell("wte", Id(n) * W + k), Cell("tokens", n)>>
    BY <2>4
  <2> HIDE DEF from
  <2>8. Is("y", i, "gather", Originals(from(i)), <<>>)
    BY <1>1, <1>4, <2>6, ElementLeft
  <2>9. Originals(from(i)) = <<O("wte", Id(n) * W + k), O("tokens", n)>>
    BY <2>7, ShortOriginals DEF O
  <2> QED BY <2>8, <2>9 DEF i, n
<1>7. EmbeddingRight
  BY <1>6 DEF EmbeddingRight
<1> QED BY <1>5, <1>7 DEF MatchesHeader

(* Rows, each of the width of the tensor, make up the tensor.              *)
RowCells(a, row, w) == {Cell(a, row * w + n) : n \in 0 .. w - 1}

LEMMA RowsCover ==
  ASSUME NEW rows \in Nat, NEW w \in Nat, NEW a
  PROVE  UNION {RowCells(a, row, w) : row \in Below(rows)} = {Cell(a, i) : i \in Below(rows * w)}
<1> DEFINE total == rows * w
<1>1. total \in Nat
  BY SMT
<1>2. ASSUME NEW row \in Below(rows), NEW n \in 0 .. w - 1
      PROVE  \E i \in Below(total) : Cell(a, row * w + n) = Cell(a, i)
  <2>1. row \in Nat /\ row < rows /\ n \in Nat /\ n < w
    BY DEF Below
  <2> DEFINE i == row * w + n
  <2>2. i \in Nat /\ i < total
    BY <2>1, RowElement
  <2> HIDE DEF i, total
  <2>3. i \in Below(total)
    BY <1>1, <2>2 DEF Below
  <2> QED BY <2>3 DEF i
<1>3. ASSUME NEW i \in Below(total)
      PROVE  \E row \in Below(rows), n \in 0 .. w - 1 : Cell(a, i) = Cell(a, row * w + n)
  <2>1. i \in Nat /\ i < total
    BY <1>1 DEF Below
  <2> DEFINE row == i \div w
             n == i % w
  <2>2. row \in Nat /\ row < rows /\ n \in Nat /\ n < w /\ i = row * w + n
    BY <2>1, RowOf
  <2> HIDE DEF row, n, total
  <2>3. row \in Below(rows) /\ n \in 0 .. w - 1
    BY <2>2 DEF Below
  <2> QED BY <2>2, <2>3
<1> HIDE DEF total
<1> QED BY <1>2, <1>3 DEF total, RowCells

LEMMA SoftmaxMatches ==
  ASSUME Complete, call.entry = "softmax_fwd"
  PROVE  MatchesHeader
<1> DEFINE B == Dim("x", 1)
           T == Dim("x", 2)
           w == Dim("x", 3)
           R == B * T
           limit(row) == IF Causal THEN (row % T) + 1 ELSE w
           seen(row) == Prefix("x", row, w, limit(row))
<1>1. call \in Calls /\ Accepts /\ Result("all") /\ DOMAIN cells = Written("all")
  BY DEF Complete
<1>2. B \in Nat /\ T \in Nat /\ w \in Nat /\ R \in Nat /\ (Causal => T = w)
  BY <1>1, SoftmaxShapes
<1>3. Amount("all") = R /\ Asked("y") = R * w
  BY <1>1, SoftmaxShapes DEF Amount, Asked, Rows
<1>4. \A row : Plan("all", row) = [x \in {Cell("y", row * w + n) : n \in 0 .. w - 1} |->
             IF x[2] - row * w < limit(row)
               THEN Term("softmax", <<seen(row)[x[2] - row * w + 1]>> \o seen(row), <<>>)
               ELSE Term("zero", <<>>, <<>>)]
  BY DEF Plan, Single, SoftmaxRow, Prefix
<1>5. DOMAIN cells = UNION {{Cell(a, i) : i \in Below(Asked(a))} : a \in Outputs}
  <2>1. \A row : DOMAIN Plan("all", row) = RowCells("y", row, w)
    BY <1>4 DEF RowCells
  <2>2. Outputs = {"y"}
    BY DEF Outputs
  <2> HIDE DEF R, w
  <2>3. Written("all") = UNION {RowCells("y", row, w) : row \in Below(R)}
    BY <1>3, <2>1 DEF Written
  <2>4. Written("all") = {Cell("y", i) : i \in Below(R * w)}
    BY <1>2, <2>3, RowsCover
  <2> QED BY <1>1, <1>3, <2>2, <2>4
<1>6. ASSUME NEW b \in Below(B), NEW q \in Below(T), NEW k \in Below(w)
      PROVE  IF k < (IF Causal THEN q + 1 ELSE w)
               THEN Is("y", RowAt("x", b, q, k), "softmax",
                       <<O("x", RowAt("x", b, q, k))>>
                         \o Columns("x", RowAt("x", b, q, k) - k, IF Causal THEN q + 1 ELSE w), <<>>)
               ELSE Is("y", RowAt("x", b, q, k), "zero", <<>>, <<>>)
  <2> DEFINE row == b * T + q
             i == RowAt("x", b, q, k)
             visible == IF Causal THEN q + 1 ELSE w
             first == row * w
  <2>1. i = first + k
    BY DEF RowAt
  <2> HIDE DEF B, T, w, R, i
  <2>2. b \in Nat /\ b < B /\ q \in Nat /\ q < T /\ k \in Nat /\ k < w /\ T \in Nat \ {0}
    BY <1>2, <1>6 DEF Below
  <2>3. row \in Nat /\ row < R
    BY <1>2, <2>2, RowElement DEF R
  <2>4. row % T = q
    BY ONLY <2>2, RowPlace
  <2> HIDE DEF row
  <2>5. first \in Nat
    BY <1>2, <2>3, SMT
  <2>6. limit(row) = visible /\ visible \in 0 .. w
    BY <1>2, <2>2, <2>4
  <2>7. row \in Below(Amount("all"))
    BY <1>2, <1>3, <2>3 DEF Below
  <2> HIDE DEF limit, visible
  <2>8. /\ seen(row) \in Seq(CellsOf("x"))
        /\ \A n \in Below(visible) : seen(row)[n + 1] = Cell("x", first + n)
        /\ Originals(seen(row)) = Columns("x", first, visible)
    <3> DEFINE m == limit(row)
    <3>1. w \in Nat /\ row \in Nat /\ m \in 0 .. w
      BY <1>2, <2>3, <2>6
    <3> HIDE DEF m
    <3>2. /\ Prefix("x", row, w, m) \in Seq(CellsOf("x"))
          /\ \A n \in Below(m) : Prefix("x", row, w, m)[n + 1] = Cell("x", row * w + n)
          /\ Originals(Prefix("x", row, w, m)) = Columns("x", row * w, m)
      BY ONLY <3>1, OriginalsOfPrefix
    <3> QED BY <2>6, <3>2 DEF m
  <2> HIDE DEF seen, first
  <2>9. Cell("y", i) \in DOMAIN Plan("all", row)
    <3>1. k \in 0 .. w - 1
      BY <1>2, <2>2
    <3>2. DOMAIN Plan("all", row) = {Cell("y", row * w + n) : n \in 0 .. w - 1}
      BY <1>4
    <3> QED BY <2>1, <3>1, <3>2 DEF first
  <2>10. /\ Cell("y", i)[2] - row * w = k /\ i - k = first
    BY <2>1, <2>2, <2>5 DEF Cell, first
  <2>11. CASE k < visible
    <3> DEFINE from == <<seen(row)[k + 1]>> \o seen(row)
               S == CellsOf("x")
    <3>1. Plan("all", row)[Cell("y", i)] = Term("softmax", from, <<>>)
      BY <1>4, <2>6, <2>9, <2>10, <2>11
    <3>2. seen(row)[k + 1] = Cell("x", i)
      BY <2>1, <2>2, <2>6, <2>8, <2>11 DEF Below
    <3>3. Cell("x", i) \in S
      BY <2>1, <2>2, <2>5 DEF CellsOf
    <3> HIDE DEF S
    <3>4. <<Cell("x", i)>> \in Seq(S) /\ seen(row) \in Seq(S)
      BY <2>8, <3>3, ShortSequences DEF S
    <3>5. Originals(<<Cell("x", i)>> \o seen(row)) = <<O("x", i)>> \o Columns("x", first, visible)
      <4> DEFINE head == <<Cell("x", i)>>
      <4>1. Originals(head) = <<O("x", i)>>
        BY ShortOriginals DEF O
      <4>2. head \in Seq(S) /\ seen(row) \in Seq(S)
        BY <3>4
      <4> HIDE DEF head
      <4>3. Originals(head \o seen(row)) = Originals(head) \o Originals(seen(row))
        BY ONLY <4>2, OriginalsOfConcat
      <4> QED BY <2>8, <4>1, <4>3 DEF head
    <3>6. from = <<Cell("x", i)>> \o seen(row)
      BY <3>2
    <3> HIDE DEF from
    <3>7. cells[Cell("y", i)] = Term("softmax", Originals(from), <<>>)
      BY <1>1, <2>7, <2>9, <3>1, CellLeft
    <3>8. Is("y", i, "softmax", <<O("x", i)>> \o Columns("x", i - k, visible), <<>>)
      BY <2>10, <3>5, <3>6, <3>7 DEF Is
    <3> QED BY <2>11, <3>8 DEF i, visible
  <2>12. CASE ~(k < visible)
    <3>1. Plan("all", row)[Cell("y", i)] = Term("zero", <<>>, <<>>)
      BY <1>4, <2>6, <2>9, <2>10, <2>12
    <3>2. cells[Cell("y", i)] = Term("zero", Originals(<<>>), <<>>)
      BY <1>1, <2>7, <2>9, <3>1, CellLeft
    <3>3. Is("y", i, "zero", <<>>, <<>>)
      BY <3>2, ShortOriginals DEF Is
    <3> QED BY <2>12, <3>3 DEF i, visible
  <2> QED BY <2>11, <2>12
<1>7. SoftmaxRight
  BY <1>6, Zenon DEF SoftmaxRight
<1> QED BY <1>5, <1>7 DEF MatchesHeader

LEMMA RmsnormMatches ==
  ASSUME Complete, call.entry = "rmsnorm_fwd"
  PROVE  MatchesHeader
<1> DEFINE N == Dim("x", 1)
           w == Dim("x", 2)
           line(row) == Line("x", row, w)
<1>1. call \in Calls /\ Accepts /\ Result("all") /\ DOMAIN cells = Written("all")
  BY DEF Complete
<1>2. /\ N \in Nat /\ w \in Nat /\ call.place["rstd"] = "rstd" /\ call.place["y"] # "rstd"
  <2>1. N \in Nat /\ w \in Nat
    BY <1>1, RmsnormShapes
  <2>2. DOMAIN call.arg = {"x", "g", "y", "rstd"} /\ MayAlias(call.entry) = {"x", "y"}
    BY <1>1, RmsnormShapes
  <2>3. call.place["rstd"] = "rstd" /\ call.place["y"] \in {"x", "y"}
    BY <1>1, <2>2, Places
  <2> QED BY <2>1, <2>3
<1>3. Amount("all") = N /\ Asked("y") = N * w /\ Asked("rstd") = N
  BY <1>1, RmsnormShapes DEF Amount, Asked, Rows
<1>4. \A row : Plan("all", row) =
          [x \in RowCells("y", row, w) \cup {Cell("rstd", row)} |->
             IF x = Cell("rstd", row) THEN Term("rstd", line(row), <<>>)
             ELSE Term("scaled", <<line(row)[x[2] - row * w + 1], Cell("g", x[2] - row * w)>>
                                   \o line(row), <<>>)]
  BY DEF Plan, Single, RmsnormRow, RowCells
<1>5. DOMAIN cells = UNION {{Cell(a, i) : i \in Below(Asked(a))} : a \in Outputs}
  <2>1. \A row : DOMAIN Plan("all", row) = RowCells("y", row, w) \cup {Cell("rstd", row)}
    BY <1>4
  <2>2. Outputs = {"y", "rstd"}
    BY DEF Outputs
  <2> HIDE DEF N, w
  <2>3. Written("all") = (UNION {RowCells("y", row, w) : row \in Below(N)})
                           \cup {Cell("rstd", row) : row \in Below(N)}
    <3>1. Written("all") = UNION {RowCells("y", row, w) \cup {Cell("rstd", row)} : row \in Below(N)}
      BY <1>3, <2>1 DEF Written
    <3>2. UNION {RowCells("y", row, w) \cup {Cell("rstd", row)} : row \in Below(N)}
            = (UNION {RowCells("y", row, w) : row \in Below(N)})
                \cup {Cell("rstd", row) : row \in Below(N)}
      OBVIOUS
    <3> QED BY <3>1, <3>2
  <2>4. UNION {RowCells("y", row, w) : row \in Below(N)} = {Cell("y", i) : i \in Below(N * w)}
    BY <1>2, RowsCover
  <2> QED BY <1>1, <1>3, <2>2, <2>3, <2>4
<1>6. ASSUME NEW row \in Below(N)
      PROVE  /\ Is("rstd", row, "rstd", Columns("x", row * w, w), <<>>)
             /\ \A k \in Below(w) :
                  Is("y", row * w + k, "scaled",
                     <<O("x", row * w + k), O("g", k)>> \o Columns("x", row * w, w), <<>>)
  <2> HIDE DEF N, w
  <2>1. row \in Nat /\ row \in Below(Amount("all"))
    BY <1>2, <1>3 DEF Below
  <2> DEFINE first == row * w
             S == CellsOf("x") \cup CellsOf("g")
  <2>2. first \in Nat
    BY <1>2, <2>1, SMT
  <2>3. /\ line(row) \in Seq(CellsOf("x")) /\ Len(line(row)) = w
        /\ \A k \in Below(w) : line(row)[k + 1] = Cell("x", first + k)
    <3>1. row \in Nat /\ w \in Nat
      BY <1>2, <2>1
    <3>2. Line("x", row, w) \in Seq(CellsOf("x")) /\ Len(Line("x", row, w)) = w
      BY ONLY <3>1, LinePlace, ZenonT(30)
    <3>3. \A k \in Below(w) : Line("x", row, w)[k + 1] = Cell("x", row * w + k)
      BY ONLY <3>1, LinePlace, ZenonT(30)
    <3> QED BY <3>2, <3>3
  <2>4. Originals(line(row)) = Columns("x", first, w)
    BY OriginalsOfLine
  <2>5. line(row) \in Seq(S)
    <3> DEFINE s == line(row)
               U == CellsOf("x")
    <3>1. s \in Seq(U) /\ U \subseteq S
      BY <2>3
    <3> HIDE DEF s, U, S
    <3>2. s \in Seq(S)
      BY <3>1
    <3> QED BY <3>2 DEF s
  <2> HIDE DEF line, S
  <2>6. Is("rstd", row, "rstd", Columns("x", first, w), <<>>)
    <3>1. /\ Cell("rstd", row) \in DOMAIN Plan("all", row)
          /\ Plan("all", row)[Cell("rstd", row)] = Term("rstd", line(row), <<>>)
      BY <1>4
    <3>2. cells[Cell("rstd", row)] = Term("rstd", Originals(line(row)), <<>>)
      BY <1>1, <2>1, <3>1, CellLeft
    <3> QED BY <2>4, <3>2 DEF Is
  <2>7. ASSUME NEW k \in Below(w)
        PROVE  Is("y", first + k, "scaled",
                  <<O("x", first + k), O("g", k)>> \o Columns("x", first, w), <<>>)
    <3> DEFINE x == Cell("y", first + k)
               head == <<Cell("x", first + k), Cell("g", k)>>
               from == head \o line(row)
    <3>1. k \in 0 .. w - 1 /\ k \in Nat
      BY <1>2 DEF Below
    <3>2. x \in RowCells("y", row, w) /\ x # Cell("rstd", row) /\ x[2] - row * w = k
      <4>1. x \in RowCells("y", row, w)
        BY <3>1 DEF RowCells
      <4>2. x # Cell("rstd", row) /\ x[2] = first + k
        BY <1>2 DEF Cell
      <4>3. x[2] - first = k
        <5> HIDE DEF first, x
        <5> QED BY <2>2, <3>1, <4>2
      <4> HIDE DEF x
      <4> QED BY <4>1, <4>2, <4>3
    <3> HIDE DEF first
    <3>3. Plan("all", row)[x] = Term("scaled", from, <<>>) /\ x \in DOMAIN Plan("all", row)
      <4>1. line(row)[k + 1] = Cell("x", first + k)
        BY <2>3
      <4> HIDE DEF x
      <4>2. Plan("all", row)[x]
              = Term("scaled", <<line(row)[x[2] - row * w + 1], Cell("g", x[2] - row * w)>> \o line(row), <<>>)
        BY <1>4, <3>2
      <4>3. x \in DOMAIN Plan("all", row)
        BY <1>4, <3>2
      <4> QED BY <3>2, <4>1, <4>2, <4>3
    <3>4. Cell("x", first + k) \in S /\ Cell("g", k) \in S
      BY <2>2, <3>1 DEF S, CellsOf
    <3>5. head \in Seq(S)
      BY <3>4, ShortSequences
    <3>6. Originals(head) = <<O("x", first + k), O("g", k)>>
      BY ShortOriginals DEF O
    <3> HIDE DEF head
    <3>7. Originals(from) = Originals(head) \o Originals(line(row))
      BY ONLY <2>5, <3>5, OriginalsOfConcat DEF from
    <3> HIDE DEF from, x
    <3>8. cells[x] = Term("scaled", Originals(from), <<>>)
      BY <1>1, <2>1, <3>3, CellLeft
    <3> QED BY <2>4, <3>6, <3>7, <3>8 DEF Is, x
  <2> QED BY <2>6, <2>7
<1>7. RmsnormRight
  BY <1>6, Zenon DEF RmsnormRight
<1> QED BY <1>5, <1>7 DEF MatchesHeader

(* cross_entropy_fwd: the mean reads what the rows have left.              *)
LEMMA LossRowsLeft ==
  ASSUME call \in Calls, Accepts, call.entry = "cross_entropy_fwd", Result("rows"),
         NEW row \in Below(Rows)
  PROVE  Is("row_nll", row, "nll",
            <<O("mask", row), O("targets", row), O("logits", row * Dim("logits", 3) + Id(row))>>
              \o Columns("logits", row * Dim("logits", 3), Dim("logits", 3)), <<>>)
<1> DEFINE v == Dim("logits", 3)
           picked == <<Cell("mask", row), Cell("targets", row), Cell("logits", row * v + Id(row))>>
           line == Line("logits", row, v)
           from == picked \o line
           S == {picked[1], picked[2], picked[3]} \cup CellsOf("logits")
<1>1. v \in Nat /\ Rows \in Nat
  BY LossShapes
<1>2. row \in Nat
  BY <1>1 DEF Below
<1>3. Plan("rows", row) = Elements("row_nll", row, Term("nll", from, <<>>))
  BY DEF Plan, LossRow
<1>4. Originals(picked) = <<O("mask", row), O("targets", row), O("logits", row * v + Id(row))>>
  BY ShortOriginals DEF O
<1>5. Originals(line) = Columns("logits", row * v, v)
  BY OriginalsOfLine
<1>6. picked \in Seq(S)
  OBVIOUS
<1>7. line \in Seq(S)
  <2> DEFINE U == CellsOf("logits")
  <2>1. line \in Seq(U) /\ U \subseteq S
    BY <1>1, <1>2, LinePlace
  <2> HIDE DEF U, S, line
  <2> QED BY <2>1
<1>8. row \in Below(Amount("rows"))
  BY DEF Amount
<1> HIDE DEF picked, line, S
<1>9. Originals(from) = Originals(picked) \o Originals(line)
  BY ONLY <1>6, <1>7, OriginalsOfConcat DEF from
<1> HIDE DEF from
<1>10. Is("row_nll", row, "nll", Originals(from), <<>>)
  BY <1>3, <1>8, ElementLeft
<1> QED BY <1>4, <1>5, <1>9, <1>10 DEF v

LEMMA LossWritten ==
  ASSUME call \in Calls, Accepts, call.entry = "cross_entropy_fwd"
  PROVE  /\ Written("rows") = {Cell("row_nll", i) : i \in Below(Rows)}
         /\ Written("mean") = {Cell("loss", 0)}
         /\ \A n : Cell("mask", n) \notin Written("rows") \cup Written("mean")
<1>1. call.place["row_nll"] = "row_nll" /\ call.place["mask"] = "mask" /\ call.place["loss"] = "loss"
  <2>1. /\ DOMAIN call.arg = {"logits", "targets", "mask", "row_nll", "loss"}
        /\ MayAlias(call.entry) = {}
    BY LossShapes
  <2> QED BY <2>1, Places
<1>2. Written("mean") = {Cell("loss", 0)}
  BY <1>1, LossShapes, MeanReads
<1>3. Written("rows") = {Cell("row_nll", i) : i \in Below(Rows)}
  <2>1. \A i : DOMAIN Plan("rows", i) = {Cell("row_nll", i)}
    BY DEF Plan, LossRow, Elements
  <2>2. Amount("rows") = Rows
    BY DEF Amount
  <2> QED BY <2>1, <2>2 DEF Written
<1> QED BY <1>1, <1>2, <1>3 DEF Cell

LEMMA MeanLeft ==
  ASSUME call \in Calls, Accepts, call.entry = "cross_entropy_fwd", Averaged,
         DOMAIN cells = Written("rows") \cup Written("mean")
  PROVE  Is("loss", 0, "mean",
            [n \in 1 .. Rows |-> cells[Cell("row_nll", n - 1)]] \o Columns("mask", 0, Rows), <<>>)
<1> DEFINE s == Line("row_nll", 0, Rows)
           t == Line("mask", 0, Rows)
           from == s \o t
           S == {Cell("row_nll", n) : n \in Below(Rows)} \cup CellsOf("mask")
           T == {Read(x) : x \in S}
           f == [x \in S |-> Read(x)]
           nll == [n \in 1 .. Rows |-> cells[Cell("row_nll", n - 1)]]
<1>1. Rows \in Nat /\ 0 * Rows = 0
  <2>1. Rows \in Nat
    BY LossShapes
  <2> QED BY <2>1, SMT
<1>2. /\ s = [n \in 1 .. Rows |-> Cell("row_nll", n - 1)]
      /\ t = [n \in 1 .. Rows |-> Cell("mask", n - 1)]
  <2>1. \A n \in 1 .. Rows : 0 * Rows + n - 1 = n - 1
    BY <1>1
  <2> QED BY <2>1 DEF Line
<1>3. \A n \in 1 .. Rows : n - 1 \in Below(Rows) /\ n - 1 \in Nat
  BY <1>1 DEF Below
<1>4. s \in Seq(S) /\ t \in Seq(S)
  <2>1. \A n \in 1 .. Rows : Cell("row_nll", n - 1) \in S /\ Cell("mask", n - 1) \in S
    BY <1>3 DEF CellsOf
  <2> HIDE DEF S
  <2>2. s \in [1 .. Rows -> S] /\ t \in [1 .. Rows -> S]
    BY <1>2, <2>1
  <2> HIDE DEF s, t
  <2> QED BY <1>1, <2>2, SeqDef
<1>5. /\ \A n \in Below(Rows) : Read(Cell("row_nll", n)) = cells[Cell("row_nll", n)]
      /\ \A n : Read(Cell("mask", n)) = O("mask", n)
  BY LossWritten DEF Read, O
<1>6. Maps(f, S, T) /\ \A x \in S : f[x] = Read(x)
  BY DEF Maps
<1>7. Cell("loss", 0) \in DOMAIN Mean /\ Mean[Cell("loss", 0)] = Term("mean", from, <<>>)
  BY DEF Mean, Elements
<1>8. Evaluate(Term("mean", from, <<>>)) = Term("mean", [n \in DOMAIN from |-> Read(from[n])], <<>>)
  <2> HIDE DEF from
  <2> QED BY DEF Evaluate, Term
<1>9. from \in Seq(S)
  <2> HIDE DEF s, t, S
  <2> QED BY <1>4, ConcatProperties
<1> HIDE DEF from
<1>10. [n \in DOMAIN from |-> Read(from[n])] = Mapped(f, from)
  <2>1. \A n \in DOMAIN from : from[n] \in S
    <3> HIDE DEF S
    <3> QED BY <1>9, ElementOfSeq
  <2> HIDE DEF f, S
  <2> QED BY <1>6, <2>1 DEF Mapped
<1>11. Mapped(f, s) = nll
  <2>1. DOMAIN s = 1 .. Rows /\ \A n \in 1 .. Rows : s[n] = Cell("row_nll", n - 1) /\ s[n] \in S
    BY <1>2, <1>3
  <2> HIDE DEF s, S, f
  <2>2. \A n \in 1 .. Rows : f[s[n]] = cells[Cell("row_nll", n - 1)]
    BY <1>3, <1>5, <1>6, <2>1
  <2> QED BY <2>1, <2>2 DEF Mapped
<1>12. Mapped(f, t) = Columns("mask", 0, Rows)
  <2>1. DOMAIN t = 1 .. Rows /\ \A n \in 1 .. Rows : t[n] = Cell("mask", n - 1) /\ t[n] \in S
    BY <1>2, <1>3 DEF CellsOf
  <2> HIDE DEF t, S, f
  <2>2. \A n \in 1 .. Rows : f[t[n]] = O("mask", 0 + n - 1)
    <3>1. \A n \in 1 .. Rows : 0 + n - 1 = n - 1
      OBVIOUS
    <3> QED BY <1>5, <1>6, <2>1, <3>1
  <2> QED BY <2>1, <2>2 DEF Mapped, Columns
<1> HIDE DEF s, t, S, T, f
<1>13. Mapped(f, from) = Mapped(f, s) \o Mapped(f, t)
  BY ONLY <1>4, <1>6, MapOfConcat DEF from
<1> QED BY <1>7, <1>8, <1>10, <1>11, <1>12, <1>13 DEF Averaged, Is

LEMMA LossMatches ==
  ASSUME call \in Calls, Accepts, call.entry = "cross_entropy_fwd", Result("rows"), Averaged,
         DOMAIN cells = Written("rows") \cup Written("mean")
  PROVE  MatchesHeader
<1>1. Asked("row_nll") = Rows /\ Asked("loss") = 1 /\ Outputs = {"row_nll", "loss"}
  BY LossShapes DEF Asked, Outputs
<1>2. Below(1) = {0}
  BY DEF Below
<1>3. DOMAIN cells = UNION {{Cell(a, i) : i \in Below(Asked(a))} : a \in Outputs}
  <2>1. DOMAIN cells = {Cell("row_nll", i) : i \in Below(Rows)} \cup {Cell("loss", 0)}
    BY LossWritten
  <2> QED BY <1>1, <1>2, <2>1
<1>4. CrossEntropyRight
  BY LossRowsLeft, MeanLeft DEF CrossEntropyRight
<1> QED BY <1>3, <1>4 DEF MatchesHeader

(* rope_fwd: the pairs of all rows make up the tensor.                     *)
Half(a) == Dim(a, 4) \div 2
FirstOf(a, i) == Cell(a, (i \div Half(a)) * Dim(a, 4) + (i % Half(a)))
SecondOf(a, i) == Cell(a, (i \div Half(a)) * Dim(a, 4) + ((i % Half(a)) + Half(a)))
AngleOf(a, i) == <<(i \div Half(a)) % Dim(a, 3), i % Half(a)>>

LEMMA TurnAt ==
  ASSUME NEW a \in {"q", "k"}, NEW i
  PROVE  /\ DOMAIN Plan(a, i) = {FirstOf(a, i), SecondOf(a, i)}
         /\ Plan(a, i)[FirstOf(a, i)]
              = Term("rotate", <<FirstOf(a, i), SecondOf(a, i)>>, AngleOf(a, i))
         /\ SecondOf(a, i) # FirstOf(a, i) =>
              Plan(a, i)[SecondOf(a, i)]
                = Term("rotate", <<SecondOf(a, i), FirstOf(a, i)>>, AngleOf(a, i))
<1> DEFINE x1 == FirstOf(a, i)
           x2 == SecondOf(a, i)
           at == AngleOf(a, i)
<1>1. Plan(a, i) = [x \in {x1, x2} |->
        Term("rotate", IF x = x1 THEN <<x1, x2>> ELSE <<x2, x1>>, at)]
  <2>1. Plan(a, i) = Turn(a, i)
    BY DEF Plan
  <2> QED BY <2>1 DEF Turn, Twin, FirstOf, SecondOf, AngleOf, Half
<1> HIDE DEF x1, x2, at
<1> QED BY <1>1 DEF x1, x2, at

LEMMA TurnsCover ==
  ASSUME call \in Calls, Accepts, call.entry = "rope_fwd", NEW a \in {"q", "k"}
  PROVE  Written(a) = {Cell(a, j) : j \in Below(Numel(a))}
<1> DEFINE R == (Dim(a, 1) * Dim(a, 2)) * Dim(a, 3)
           hd == Dim(a, 4)
           half == hd \div 2
           total == Numel(a)
           pairs == R * half
<1>1. /\ R \in Nat /\ hd \in Nat /\ half \in Nat /\ hd = half + half
      /\ total = R * hd /\ total \div 2 = pairs
  BY RopeShapes
<1>2. Amount(a) = pairs
  BY <1>1 DEF Amount
<1>3. total \in Nat /\ pairs \in Nat
  <2> HIDE DEF R, hd, half, total
  <2> QED BY <1>1, SMT
<1>4. \A i : DOMAIN Plan(a, i) = {Cell(a, (i \div half) * hd + (i % half)),
                                  Cell(a, (i \div half) * hd + ((i % half) + half))}
  <2>1. \A i : DOMAIN Plan(a, i) = {FirstOf(a, i), SecondOf(a, i)}
    BY TurnAt
  <2> QED BY <2>1 DEF FirstOf, SecondOf, Half
<1> HIDE DEF R, hd, half, total
<1>5. ASSUME NEW i \in Below(pairs), NEW x \in DOMAIN Plan(a, i)
      PROVE  \E j \in Below(total) : x = Cell(a, j)
  <2> DEFINE row == i \div half
             d == i % half
  <2>1. i \in Nat /\ i < R * half
    BY <1>3 DEF Below
  <2>2. row \in Nat /\ row < R /\ d \in Nat /\ d < half
    BY ONLY <1>1, <2>1, RowOf DEF row, d
  <2>3. PICK e \in {d, d + half} : x = Cell(a, row * hd + e)
    BY <1>4
  <2> HIDE DEF row, d
  <2>4. e \in Nat /\ e < hd
    BY <1>1, <2>2
  <2> DEFINE j == row * hd + e
  <2>5. j \in Nat /\ j < R * hd
    BY <1>1, <2>2, <2>4, RowElement
  <2> HIDE DEF j
  <2>6. j \in Below(total)
    BY <1>1, <1>3, <2>5 DEF Below
  <2> QED BY <2>3, <2>6 DEF j
<1>6. ASSUME NEW j \in Below(total)
      PROVE  \E i \in Below(pairs) : Cell(a, j) \in DOMAIN Plan(a, i)
  <2> DEFINE row == j \div hd
             e == j % hd
             d == IF e < half THEN e ELSE e - half
             i == row * half + d
  <2>1. j \in Nat /\ j < R * hd
    BY <1>1, <1>3 DEF Below
  <2>2. row \in Nat /\ row < R /\ e \in Nat /\ e < hd /\ j = row * hd + e
    BY ONLY <1>1, <2>1, RowOf DEF row, e
  <2> HIDE DEF row, e
  <2>3. d \in Nat /\ d < half /\ e \in {d, d + half} /\ half \in Nat \ {0}
    BY <1>1, <2>2
  <2> HIDE DEF d
  <2>4. i \div half = row /\ i % half = d
    BY ONLY <2>2, <2>3, RowPlace DEF i
  <2>5. i \in Nat /\ i < R * half
    BY <1>1, <2>2, <2>3, RowElement
  <2> HIDE DEF i
  <2>6. i \in Below(pairs)
    BY <1>3, <2>5 DEF Below
  <2>7. Cell(a, j) \in DOMAIN Plan(a, i)
    BY <1>4, <2>2, <2>3, <2>4
  <2> QED BY <2>6, <2>7
<1>7. \A x : x \in Written(a) <=> \E i \in Below(pairs) : x \in DOMAIN Plan(a, i)
  BY <1>2 DEF Written
<1> HIDE DEF pairs
<1>8. Written(a) = {Cell(a, j) : j \in Below(total)}
  BY <1>5, <1>6, <1>7
<1> QED BY <1>8 DEF total

LEMMA RopeMatches ==
  ASSUME call \in Calls, Accepts, call.entry = "rope_fwd", Result("q"), Result("k"),
         DOMAIN cells = Written("q") \cup Written("k")
  PROVE  MatchesHeader
<1>1. DOMAIN cells = UNION {{Cell(a, i) : i \in Below(Asked(a))} : a \in Outputs}
  <2>1. \A a \in {"q", "k"} : Written(a) = {Cell(a, i) : i \in Below(Asked(a))}
    BY TurnsCover DEF Asked
  <2>2. Outputs = {"q", "k"}
    BY DEF Outputs
  <2> QED BY <2>1, <2>2
<1>2. ASSUME NEW a \in {"q", "k"}, NEW b \in Below(Dim(a, 1)), NEW h \in Below(Dim(a, 2)),
             NEW t \in Below(Dim(a, 3)), NEW d \in Below(Dim(a, 4) \div 2)
      PROVE  /\ Is(a, HeadAt(a, b, h, t, d), "rotate",
                   <<O(a, HeadAt(a, b, h, t, d)), O(a, HeadAt(a, b, h, t, d + Dim(a, 4) \div 2))>>, <<t, d>>)
             /\ Is(a, HeadAt(a, b, h, t, d + Dim(a, 4) \div 2), "rotate",
                   <<O(a, HeadAt(a, b, h, t, d + Dim(a, 4) \div 2)), O(a, HeadAt(a, b, h, t, d))>>, <<t, d>>)
  <2> DEFINE B == Dim(a, 1)
             H == Dim(a, 2)
             T == Dim(a, 3)
             hd == Dim(a, 4)
             half == hd \div 2
             row == (b * H + h) * T + t
             i == Place(b, H, h, T, t, half, d)
             n1 == HeadAt(a, b, h, t, d)
             n2 == HeadAt(a, b, h, t, d + half)
             x1 == Cell(a, n1)
             x2 == Cell(a, n2)
  <2>1. /\ B \in Nat /\ H \in Nat /\ T \in Nat /\ hd \in Nat /\ half \in Nat /\ hd = half + half
        /\ Numel(a) \div 2 = ((B * H) * T) * half /\ (B * H) * T \in Nat
    BY RopeShapes
  <2>2. n1 = row * hd + d /\ n2 = row * hd + (d + half)
    BY DEF HeadAt
  <2>3. Amount(a) = ((B * H) * T) * half
    BY <2>1 DEF Amount
  <2> HIDE DEF B, H, T
  <2>4. Coordinates(B, H, T, half, b, h, t, d)
    <3> HIDE DEF half
    <3> QED BY <2>1, <1>2 DEF Below, Coordinates, B, H, T, half
  <2>5. d \in Nat /\ d < half
    BY <2>4 DEF Coordinates
  <2>6. /\ i \in Nat /\ i < ((B * H) * T) * half
        /\ i % half = d /\ i \div half = row /\ row % T = t
    <3> HIDE DEF half, i
    <3>1. /\ i \in Nat /\ i < ((B * H) * T) * half
          /\ i % half = d /\ i \div half = (b * H + h) * T + t
          /\ (i \div half) % T = t
      BY ONLY <2>4, HeadPlace DEF i
    <3> QED BY <3>1
  <2> HIDE DEF hd, half, row, i
  <2>7. i \in Below(Amount(a))
    <3>1. ((B * H) * T) * half \in Nat
      BY <2>1, SMT
    <3> QED BY <2>3, <2>6, <3>1 DEF Below
  <2> HIDE DEF n1, n2
  <2>8. x1 # x2
    <3>1. row \in Nat
      BY <2>4, RowOf, <2>1, <2>6, SMT DEF Coordinates, row
    <3>2. row * hd \in Nat
      BY <2>1, <3>1, SMT
    <3>3. n1 # n2
      <4> DEFINE u == row * hd
      <4>1. u \in Nat /\ n1 = u + d /\ n2 = u + (d + half)
        BY <2>2, <3>2
      <4> HIDE DEF u
      <4> QED BY <2>1, <2>5, <4>1
    <3> QED BY <3>3 DEF Cell
  <2>9. /\ DOMAIN Plan(a, i) = {x1, x2}
        /\ Plan(a, i)[x1] = Term("rotate", <<x1, x2>>, <<t, d>>)
        /\ Plan(a, i)[x2] = Term("rotate", <<x2, x1>>, <<t, d>>)
    <3>1. Half(a) = half /\ Dim(a, 4) = hd /\ Dim(a, 3) = T
      BY DEF Half, half, hd, T
    <3>2. FirstOf(a, i) = x1 /\ SecondOf(a, i) = x2 /\ AngleOf(a, i) = <<t, d>>
      BY <2>2, <2>6, <3>1 DEF FirstOf, SecondOf, AngleOf
    <3> HIDE DEF x1, x2
    <3> QED BY <2>8, <3>2, TurnAt
  <2>10. Result(a)
    OBVIOUS
  <2>11. cells[x1] = Term("rotate", Originals(<<x1, x2>>), <<t, d>>)
    BY <2>7, <2>9, <2>10, CellLeft
  <2>12. cells[x2] = Term("rotate", Originals(<<x2, x1>>), <<t, d>>)
    BY <2>7, <2>9, <2>10, CellLeft
  <2> QED BY <2>11, <2>12, ShortOriginals DEF Is, O, n1, n2, half, hd
<1>3. RopeRight
  BY <1>2, Zenon DEF RopeRight
<1> QED BY <1>1, <1>3 DEF MatchesHeader

-----------------------------------------------------------------------------
(* Entry by entry, what the kernels of a finished call have written is what *)
(* the header of the entry asks for.                                        *)
LEMMA ProgressSuffices ==
  ASSUME KernelInv, Progress
  PROVE  MatchesHeader
<1> SUFFICES ASSUME pc = "done" PROVE MatchesHeader
  BY DEF MatchesHeader
<1>1. call \in Calls /\ Accepts /\ call.entry \in DOMAIN Arguments
  BY CallFacts DEF KernelInv, Progress, Entries
<1>2. CASE call.entry = "rope_fwd"
  BY <1>1, <1>2, RopeMatches DEF Progress
<1>3. CASE call.entry = "cross_entropy_fwd"
  BY <1>1, <1>3, LossMatches DEF Progress
<1>4. CASE call.entry \notin {"rope_fwd", "cross_entropy_fwd"}
  <2>1. Complete
    BY <1>1, <1>4 DEF Complete, Progress
  <2> QED BY <1>1, <1>4, <2>1, FillMatches, GeluMatches, ResidualMatches, SplitMatches, MergeMatches,
             EmbeddingMatches, SoftmaxMatches, RmsnormMatches DEF Arguments
<1> QED BY <1>2, <1>3, <1>4

(* A call that returns has done what its header says, element for element:  *)
(* whatever the extents, the overlays the header allows and the launch (and *)
(* in whatever order the workers run, by KernelsOneWriter).                 *)
THEOREM KernelsMatchHeader == Spec => []MatchesHeader
<1>1. KernelInv /\ Progress => MatchesHeader
  BY ProgressSuffices
<1> QED BY <1>1, SpecProgress, PTL

-----------------------------------------------------------------------------
(* Philox: a round's products give the two multiplied words back from their*)
(* low halves, because the factors are invertible, and with them the high  *)
(* halves, which the exclusive-or takes off the two other words.           *)
LEMMA WordPositive == Word \in Nat \ {0} /\ Word * Word \in Nat
<1>1. Levels * Dropped \in Nat /\ Levels * Dropped # 0
  BY PhiloxAssumption
<1> QED BY <1>1 DEF Word

(* Division with remainder, in the form the provers can use.               *)
LEMMA Divided ==
  ASSUME NEW n \in Nat
  PROVE  /\ n \div Word \in Nat /\ n % Word \in U32
         /\ n = (n \div Word) * Word + (n % Word)
<1>1. ASSUME NEW w \in Int, w > 0
      PROVE  n % w \in 0 .. w - 1 /\ n \div w \in Nat /\ n % w = n - (n \div w) * w
  <2>1. n % w \in 0 .. w - 1
    BY <1>1
  <2>2. n \div w \in Nat
    BY <1>1
  <2>3. n % w = n - (n \div w) * w
    BY <1>1
  <2> QED BY <2>1, <2>2, <2>3
<1>2. /\ n % Word \in U32 /\ n \div Word \in Nat
      /\ n % Word = n - (n \div Word) * Word
  BY <1>1, WordPositive DEF U32
<1> DEFINE q == (n \div Word) * Word
<1>3. q \in Nat /\ n % Word \in Nat
  BY <1>2, WordPositive DEF U32
<1>4. n % Word = n - q
  BY <1>2
<1> HIDE DEF q
<1>5. n = q + (n % Word)
  BY <1>3, <1>4
<1> QED BY <1>2, <1>5 DEF q

LEMMA U64Halves ==
  ASSUME NEW n \in U64
  PROVE  n % Word \in U32 /\ n \div Word \in U32
<1>1. Word \in Nat /\ Word > 0 /\ n \in Nat /\ n <= Word * Word - 1 /\ Word * Word \in Nat
  BY WordPositive DEF U64
<1>2. /\ n \div Word \in Nat /\ n % Word \in U32
      /\ n = (n \div Word) * Word + (n % Word)
  BY <1>1, Divided
<1>3. ASSUME n \div Word >= Word PROVE FALSE
  <2>1. (n \div Word) * Word >= Word * Word
    BY <1>1, <1>2, <1>3
  <2> QED BY <1>1, <1>2, <2>1 DEF U32
<1> QED BY <1>1, <1>2, <1>3 DEF U32

(* The low half of a product with an invertible factor determines the other*)
(* factor.                                                                 *)
LEMMA MulLoInjective ==
  ASSUME NEW m \in {M0, M1}, NEW a \in U32, NEW b \in U32, MulLo(m, a) = MulLo(m, b)
  PROVE  a = b
<1>1. Word \in Nat /\ Word > 0 /\ a \in Nat /\ b \in Nat /\ a < Word /\ b < Word
  BY WordPositive DEF U32
<1>2. CASE Word = 1
  BY <1>1, <1>2
<1>3. CASE Word # 1
  <2>1. m \in Nat
    BY OddAssumption DEF U32
  <2>2. PICK v \in U32 : (m * v) % Word = 1 % Word
    BY OddAssumption
  <2>3. v \in Nat /\ m * v \in Nat /\ m * a \in Nat /\ m * b \in Nat
    BY <1>1, <2>1 DEF U32
  <2>4. 1 % Word = 1
    BY <1>1, <1>3
  <2>5. PICK q \in Nat : m * v = q * Word + 1
    <3>1. m * v = ((m * v) \div Word) * Word + ((m * v) % Word) /\ (m * v) \div Word \in Nat
      BY <2>3, Divided
    <3>2. (m * v) % Word = 1
      BY <2>2, <2>4
    <3>3. m * v = ((m * v) \div Word) * Word + 1
      BY <3>1, <3>2, Zenon
    <3> QED BY <3>1, <3>3
  <2>6. PICK s \in Nat, t \in Nat, rest \in U32 : m * a = s * Word + rest /\ m * b = t * Word + rest
    <3>1. /\ m * a = ((m * a) \div Word) * Word + ((m * a) % Word) /\ (m * a) \div Word \in Nat
          /\ m * b = ((m * b) \div Word) * Word + ((m * b) % Word) /\ (m * b) \div Word \in Nat
          /\ (m * a) % Word \in U32
      BY <2>3, Divided
    <3>2. (m * a) % Word = (m * b) % Word
      BY DEF MulLo
    <3>3. m * b = ((m * b) \div Word) * Word + ((m * a) % Word)
      BY <3>1, <3>2, Zenon
    <3> QED BY <3>1, <3>3
  <2>7. m * (a - b) = (s - t) * Word
    <3>1. rest \in Nat
      BY DEF U32
    <3>2. m * (a - b) = m * a - m * b
      BY <1>1, <2>1
    <3>3. (s - t) * Word = s * Word - t * Word
      BY <1>1
    <3> QED BY <1>1, <2>3, <2>6, <3>1, <3>2, <3>3
  <2>8. v * (m * (a - b)) = (m * v) * (a - b)
    BY <1>1, <2>1, <2>3
  <2>9. (q * Word + 1) * (a - b) = (q * (a - b)) * Word + (a - b)
    BY <1>1
  <2>10. v * ((s - t) * Word) = (v * (s - t)) * Word
    BY <1>1, <2>3
  <2>11. a - b = (v * (s - t) - q * (a - b)) * Word
    <3> DEFINE e == v * (s - t)
               f == q * (a - b)
    <3>1. e \in Int /\ f \in Int
      BY <1>1, <2>3
    <3>2. e * Word = f * Word + (a - b)
      BY <2>5, <2>7, <2>8, <2>9, <2>10
    <3> HIDE DEF e, f
    <3>3. (e - f) * Word = e * Word - f * Word
      BY <1>1, <3>1
    <3>4. a - b = (e - f) * Word
      BY <1>1, <3>1, <3>2, <3>3
    <3> QED BY <3>4 DEF e, f
  <2>12. PICK z \in Int : a - b = z * Word
    BY <1>1, <2>3, <2>11
  <2>13. z < 1
    <3>1. z >= 1 => z * Word >= Word
      BY <1>1
    <3> QED BY <1>1, <2>12, <3>1
  <2>14. z > -1
    <3>1. z <= -1 => z * Word <= -Word
      BY <1>1
    <3> QED BY <1>1, <2>12, <3>1
  <2>15. z = 0
    BY <2>13, <2>14
  <2> QED BY <1>1, <2>12, <2>15
<1> QED BY <1>2, <1>3

LEMMA HalvesAreWords ==
  ASSUME NEW m \in {M0, M1}, NEW a \in U32
  PROVE  MulLo(m, a) \in U32 /\ MulHi(m, a) \in U32
<1>1. m \in U32
  BY OddAssumption
<1>2. Word \in Nat /\ Word > 0 /\ m \in Nat /\ a \in Nat /\ m < Word /\ a < Word
  BY <1>1, WordPositive DEF U32
<1>3. m * a \in U64
  <2>1. m * a \in Nat /\ Word * Word \in Nat
    BY <1>2
  <2>2. m * a <= (Word - 1) * a
    BY <1>2
  <2>3. (Word - 1) * a <= (Word - 1) * Word
    BY <1>2
  <2>4. (Word - 1) * Word = Word * Word - Word
    BY <1>2
  <2> QED BY <1>2, <2>1, <2>2, <2>3, <2>4 DEF U64
<1> QED BY <1>3, U64Halves DEF MulLo, MulHi

(* An exclusive-or with two known words can be taken off.                  *)
LEMMA XorCancels ==
  ASSUME NEW h \in U32, NEW k \in U32, NEW a \in U32, NEW b \in U32,
         Xor32(Xor32(h, a), k) = Xor32(Xor32(h, b), k)
  PROVE  a = b
<1>1. Xor32(h, a) \in U32 /\ Xor32(h, b) \in U32
  BY XorAssumption
<1>2. Xor32(h, a) = Xor32(h, b)
  BY <1>1, XorAssumption
<1>3. Xor32(a, h) = Xor32(b, h)
  BY <1>2, XorAssumption
<1> QED BY <1>3, XorAssumption

LEMMA RoundTyped ==
  ASSUME NEW a \in U32x4, NEW key0 \in U32, NEW key1 \in U32
  PROVE  philox_round(a, key0, key1) \in U32x4
<1>1. a.x \in U32 /\ a.y \in U32 /\ a.z \in U32 /\ a.w \in U32
  BY DEF U32x4
<1>2. /\ MulLo(M0, a.x) \in U32 /\ MulHi(M0, a.x) \in U32
      /\ MulLo(M1, a.z) \in U32 /\ MulHi(M1, a.z) \in U32
  BY <1>1, HalvesAreWords
<1>3. /\ Xor32(Xor32(MulHi(M1, a.z), a.y), key0) \in U32
      /\ Xor32(Xor32(MulHi(M0, a.x), a.w), key1) \in U32
  BY <1>1, <1>2, XorAssumption
<1> QED BY <1>2, <1>3 DEF philox_round, U32x4

LEMMA RoundInjective ==
  ASSUME NEW a \in U32x4, NEW b \in U32x4, NEW key0 \in U32, NEW key1 \in U32,
         philox_round(a, key0, key1) = philox_round(b, key0, key1)
  PROVE  a = b
<1>1. /\ a.x \in U32 /\ a.y \in U32 /\ a.z \in U32 /\ a.w \in U32
      /\ b.x \in U32 /\ b.y \in U32 /\ b.z \in U32 /\ b.w \in U32
  BY DEF U32x4
<1>2. /\ Xor32(Xor32(MulHi(M1, a.z), a.y), key0) = Xor32(Xor32(MulHi(M1, b.z), b.y), key0)
      /\ MulLo(M1, a.z) = MulLo(M1, b.z)
      /\ Xor32(Xor32(MulHi(M0, a.x), a.w), key1) = Xor32(Xor32(MulHi(M0, b.x), b.w), key1)
      /\ MulLo(M0, a.x) = MulLo(M0, b.x)
  BY DEF philox_round
<1>3. a.z = b.z /\ a.x = b.x
  BY <1>1, <1>2, MulLoInjective
<1>4. MulHi(M1, a.z) \in U32 /\ MulHi(M0, a.x) \in U32
  BY <1>1, HalvesAreWords
<1>5. a.y = b.y
  BY <1>1, <1>2, <1>3, <1>4, XorCancels
<1>6. a.w = b.w
  BY <1>1, <1>2, <1>3, <1>4, XorCancels
<1> QED BY <1>3, <1>5, <1>6 DEF U32x4

LEMMA CounterTyped ==
  ASSUME NEW d \in Draw
  PROVE  Counter(d) \in U32x4
<1>1. d.index \in U64 /\ d.stream \in U64
  BY PhiloxAssumption DEF Draw
<1> QED BY <1>1, U64Halves DEF Counter, U32x4

LEMMA CounterInjective ==
  ASSUME NEW d \in Draw, NEW e \in Draw, Counter(d) = Counter(e)
  PROVE  d = e
<1>1. /\ d.index \in Nat /\ d.stream \in Nat /\ e.index \in Nat /\ e.stream \in Nat
  <2>1. U64 \subseteq Nat
    BY WordPositive DEF U64
  <2>2. d.index \in U64 /\ d.stream \in U64 /\ e.index \in U64 /\ e.stream \in U64
    BY PhiloxAssumption DEF Draw
  <2> QED BY <2>1, <2>2
<1>2. /\ d.index % Word = e.index % Word /\ d.index \div Word = e.index \div Word
      /\ d.stream % Word = e.stream % Word /\ d.stream \div Word = e.stream \div Word
  BY DEF Counter
<1>3. ASSUME NEW m \in Nat, NEW n \in Nat, m % Word = n % Word, m \div Word = n \div Word
      PROVE  m = n
  <2>1. m = (m \div Word) * Word + (m % Word) /\ n = (n \div Word) * Word + (n % Word)
    BY Divided
  <2>2. m = (n \div Word) * Word + (n % Word)
    BY <1>3, <2>1, Zenon
  <2> QED BY <2>1, <2>2, Zenon
<1>4. d.index = e.index /\ d.stream = e.stream
  BY <1>1, <1>2, <1>3
<1> QED BY <1>4 DEF Draw

-----------------------------------------------------------------------------
Injective == \A d, e \in Draw : c[d] = c[e] => d = e
DrawsInv == DrawsTypeOK /\ Injective

LEMMA InitDrawsInv == InitDraws => DrawsInv
<1> SUFFICES ASSUME InitDraws PROVE DrawsInv
  OBVIOUS
<1>1. PICK seed \in U64 : k0 = seed % Word /\ k1 = seed \div Word
  BY PhiloxAssumption DEF InitDraws
<1>2. c = [d \in Draw |-> Counter(d)] /\ r = 0
  BY DEF InitDraws
<1>3. DrawsTypeOK
  BY <1>1, <1>2, U64Halves, CounterTyped, PhiloxAssumption DEF DrawsTypeOK
<1>4. Injective
  BY <1>2, CounterInjective DEF Injective
<1> QED BY <1>3, <1>4 DEF DrawsInv

LEMMA NextKeepsDraws == DrawsInv /\ [NextDraws]_drawVars => DrawsInv'
<1> SUFFICES ASSUME DrawsInv, [NextDraws]_drawVars PROVE DrawsInv'
  OBVIOUS
<1>1. CASE Round
  <2>1. /\ c' = [d \in Draw |-> philox_round(c[d], k0, k1)]
        /\ r < Rounds /\ r' = r + 1 /\ r \in 0 .. Rounds /\ Rounds \in Nat
        /\ k0 \in U32 /\ k1 \in U32 /\ \A d \in Draw : c[d] \in U32x4
    BY <1>1, PhiloxAssumption DEF Round, DrawsInv, DrawsTypeOK
  <2>2. k0' \in U32 /\ k1' \in U32
    <3>1. k0 + W0 \in Nat /\ k1 + W1 \in Nat
      BY <2>1, PhiloxAssumption DEF U32
    <3> QED BY <1>1, <3>1, Divided DEF Round
  <2>3. \A d \in Draw : c'[d] \in U32x4
    BY <2>1, RoundTyped
  <2>4. DrawsTypeOK'
    BY <2>1, <2>2, <2>3 DEF DrawsTypeOK
  <2>5. ASSUME NEW d \in Draw, NEW e \in Draw, c'[d] = c'[e] PROVE d = e
    <3>1. philox_round(c[d], k0, k1) = philox_round(c[e], k0, k1)
      BY <2>1, <2>5
    <3>2. c[d] = c[e]
      BY <2>1, <3>1, RoundInjective
    <3> QED BY <3>2 DEF DrawsInv, Injective
  <2> QED BY <2>4, <2>5 DEF DrawsInv, Injective
<1>2. CASE UNCHANGED drawVars
  BY <1>2 DEF DrawsInv, DrawsTypeOK, Injective, drawVars
<1> QED BY <1>1, <1>2 DEF NextDraws

(* The four lanes and the key stay words of 32 bits.                       *)
THEOREM PhiloxTypeOK == DrawsSpec => []DrawsTypeOK
<1>1. DrawsInv => DrawsTypeOK
  BY DEF DrawsInv
<1> QED BY <1>1, InitDrawsInv, NextKeepsDraws, PTL DEF DrawsSpec

LEMMA DrawFinite == IsFiniteSet(Draw)
<1>1. Streams \subseteq 0 .. Word * Word - 1 /\ Indices \subseteq 0 .. Word * Word - 1
  BY PhiloxAssumption DEF U64
<1>2. IsFiniteSet(0 .. Word * Word - 1)
  BY WordPositive, FS_Interval
<1>3. IsFiniteSet(Streams) /\ IsFiniteSet(Indices)
  BY <1>1, <1>2, FS_Subset
<1>4. IsFiniteSet(Streams \X Indices)
  BY <1>3, FS_Product
<1> DEFINE f == [p \in Streams \X Indices |-> [stream |-> p[1], index |-> p[2]]]
<1>5. f \in Surjection(Streams \X Indices, Draw)
  <2>1. f \in [Streams \X Indices -> Draw]
    BY DEF Draw
  <2>2. ASSUME NEW d \in Draw PROVE \E p \in Streams \X Indices : f[p] = d
    <3>1. d.stream \in Streams /\ d.index \in Indices
      BY DEF Draw
    <3>2. f[<<d.stream, d.index>>] = [stream |-> d.stream, index |-> d.index]
      BY <3>1
    <3>3. d = [stream |-> d.stream, index |-> d.index]
      BY DEF Draw
    <3> QED BY <3>1, <3>2, <3>3
  <2> QED BY <2>1, <2>2 DEF Surjection
<1> QED BY <1>4, <1>5, FS_Surjection

(* Under one seed, different streams and indices give different blocks.    *)
THEOREM PhiloxDrawsDistinct == DrawsSpec => []DrawsDistinct
<1>1. ASSUME DrawsInv PROVE DrawsDistinct
  <2> DEFINE blocks == {c[d] : d \in Draw}
  <2>1. c \in [Draw -> blocks]
    BY <1>1 DEF DrawsInv, DrawsTypeOK
  <2>2. c \in Surjection(Draw, blocks)
    BY <2>1 DEF Surjection
  <2>3. c \in Injection(Draw, blocks)
    BY <1>1, <2>1 DEF DrawsInv, Injective, Injection, IsInjective
  <2>4. Cardinality(blocks) = Cardinality(Draw)
    BY <2>2, <2>3, DrawFinite, FS_Surjection
  <2> QED BY <2>4 DEF DrawsDistinct
<1>2. DrawsInv => DrawsDistinct
  BY <1>1
<1> QED BY <1>2, InitDrawsInv, NextKeepsDraws, PTL DEF DrawsSpec
-----------------------------------------------------------------------------
(* The blocks whose first two words lie in given sets.                     *)
Blocks(A, B) == {b \in U32x4 : b.x \in A /\ b.y \in B}

LEMMA WordsCounted == IsFiniteSet(U32) /\ Cardinality(U32) = Word
<1>1. Word - 1 \in Int /\ 0 \in Int /\ ~(0 > Word - 1) /\ Word - 1 - 0 + 1 = Word
  BY WordPositive
<1> QED BY <1>1, FS_Interval DEF U32

LEMMA BlocksCounted ==
  ASSUME NEW A \in SUBSET U32, NEW B \in SUBSET U32
  PROVE  /\ IsFiniteSet(Blocks(A, B))
         /\ Cardinality(Blocks(A, B)) = (Cardinality(A) * Cardinality(B)) * (Word * Word)
<1> DEFINE P == (A \X B) \X (U32 \X U32)
           f == [p \in P |-> [x |-> p[1][1], y |-> p[1][2], z |-> p[2][1], w |-> p[2][2]]]
<1>1. IsFiniteSet(A) /\ IsFiniteSet(B)
  BY WordsCounted, FS_Subset
<1>2. IsFiniteSet(A \X B) /\ Cardinality(A \X B) = Cardinality(A) * Cardinality(B)
  BY <1>1, FS_Product
<1>3. IsFiniteSet(U32 \X U32) /\ Cardinality(U32 \X U32) = Word * Word
  BY WordsCounted, FS_Product
<1>4. IsFiniteSet(P) /\ Cardinality(P) = (Cardinality(A) * Cardinality(B)) * (Word * Word)
  BY <1>2, <1>3, FS_Product
<1>5. f \in [P -> Blocks(A, B)]
  BY DEF Blocks, U32x4
<1>6. ASSUME NEW p \in P, NEW q \in P, f[p] = f[q]  PROVE p = q
  <2>1. /\ f[p].x = p[1][1] /\ f[p].y = p[1][2] /\ f[p].z = p[2][1] /\ f[p].w = p[2][2]
        /\ f[q].x = q[1][1] /\ f[q].y = q[1][2] /\ f[q].z = q[2][1] /\ f[q].w = q[2][2]
    OBVIOUS
  <2>2. p[1][1] = q[1][1] /\ p[1][2] = q[1][2] /\ p[2][1] = q[2][1] /\ p[2][2] = q[2][2]
    BY <1>6, <2>1
  <2>3. p = <<<<p[1][1], p[1][2]>>, <<p[2][1], p[2][2]>>>>
    OBVIOUS
  <2>4. q = <<<<q[1][1], q[1][2]>>, <<q[2][1], q[2][2]>>>>
    OBVIOUS
  <2> QED BY <2>2, <2>3, <2>4
<1>7. ASSUME NEW b \in Blocks(A, B)  PROVE \E p \in P : f[p] = b
  <2> DEFINE p == <<<<b.x, b.y>>, <<b.z, b.w>>>>
  <2>1. b.x \in A /\ b.y \in B /\ b.z \in U32 /\ b.w \in U32
    BY DEF Blocks, U32x4
  <2>2. p \in P
    BY <2>1
  <2>3. f[p] = [x |-> b.x, y |-> b.y, z |-> b.z, w |-> b.w]
    BY <2>2
  <2>4. b = [x |-> b.x, y |-> b.y, z |-> b.z, w |-> b.w]
    BY DEF Blocks, U32x4
  <2> QED BY <2>2, <2>3, <2>4
<1> HIDE DEF f
<1>8. f \in Bijection(P, Blocks(A, B))
  BY <1>5, <1>6, <1>7 DEF Bijection, Injection, Surjection, IsInjective
<1>9. ExistsBijection(P, Blocks(A, B))
  BY <1>8 DEF ExistsBijection
<1> HIDE DEF P
<1> QED BY <1>4, <1>9, FS_Bijection

(* The words that to_uniform gives the same level.                         *)
WordsAt(v) == {u \in U32 : to_uniform(u) = v}

LEMMA LevelCounted ==
  ASSUME NEW v \in 0 .. Levels - 1
  PROVE  WordsAt(v) \in SUBSET U32 /\ Cardinality(WordsAt(v)) = Dropped
<1> DEFINE low == v * Dropped
           high == low + Dropped - 1
<1>1. Levels \in Nat \ {0} /\ Dropped \in Nat \ {0} /\ v \in Nat /\ v + 1 <= Levels
  BY PhiloxAssumption
<1>2. low \in Nat /\ low + Dropped <= Word /\ Word \in Nat
  <2>1. (v + 1) * Dropped <= Levels * Dropped
    BY <1>1, SMT
  <2>2. (v + 1) * Dropped = low + Dropped /\ low \in Nat
    BY <1>1, SMT
  <2> QED BY <2>1, <2>2, WordPositive DEF Word
<1>3. ASSUME NEW u \in Nat  PROVE u \div Dropped = v <=> low <= u /\ u < low + Dropped
  <2> DEFINE q == u \div Dropped
             rest == u % Dropped
  <2>1. q \in Nat /\ rest \in 0 .. Dropped - 1 /\ u = q * Dropped + rest
    BY <1>1, SMT
  <2> HIDE DEF q, rest
  <2>2. CASE q = v
    BY <1>1, <2>1, <2>2
  <2>3. CASE q < v
    <3>1. (q + 1) * Dropped <= v * Dropped
      BY <1>1, <2>1, <2>3, SMT
    <3>2. (q + 1) * Dropped = q * Dropped + Dropped /\ q * Dropped \in Nat
      BY <1>1, <2>1, SMT
    <3> QED BY <1>1, <2>1, <2>3, <3>1, <3>2 DEF q
  <2>4. CASE v < q
    <3>1. (v + 1) * Dropped <= q * Dropped
      BY <1>1, <2>1, <2>4, SMT
    <3>2. (v + 1) * Dropped = low + Dropped /\ q * Dropped \in Nat
      BY <1>1, <2>1, SMT
    <3> QED BY <1>1, <1>2, <2>1, <2>4, <3>1, <3>2 DEF q
  <2> QED BY <1>1, <2>1, <2>2, <2>3, <2>4
<1> HIDE DEF low
<1>4. WordsAt(v) = low .. high
  <2>1. ASSUME NEW u \in WordsAt(v)  PROVE u \in low .. high
    <3>1. u \in Nat /\ u \div Dropped = v
      BY WordPositive DEF WordsAt, to_uniform, U32
    <3>2. low <= u /\ u < low + Dropped
      BY <1>3, <3>1
    <3> QED BY <1>1, <1>2, <3>1, <3>2
  <2>2. ASSUME NEW u \in low .. high  PROVE u \in WordsAt(v)
    <3>1. u \in Nat /\ low <= u /\ u < low + Dropped
      BY <1>1, <1>2
    <3>2. u \div Dropped = v
      BY <1>3, <3>1
    <3>3. u \in U32
      BY <1>1, <1>2, <3>1 DEF U32
    <3> QED BY <3>2, <3>3 DEF WordsAt, to_uniform
  <2> QED BY <2>1, <2>2
<1>5. Cardinality(low .. high) = Dropped
  <2>1. low \in Int /\ high \in Int /\ ~(low > high) /\ high - low + 1 = Dropped
    BY <1>1, <1>2
  <2> HIDE DEF high
  <2> QED BY <2>1, FS_Interval
<1>6. WordsAt(v) \in SUBSET U32
  BY DEF WordsAt
<1> QED BY <1>4, <1>5, <1>6

(* A whole period has as many draws as there are blocks.                   *)
LEMMA PeriodCounted ==
  ASSUME Streams = U64, Indices = U64
  PROVE  Cardinality(Draw) = (Word * Word) * (Word * Word)
<1> DEFINE P == U64 \X U64
           f == [p \in P |-> [stream |-> p[1], index |-> p[2]]]
<1>1. IsFiniteSet(U64) /\ Cardinality(U64) = Word * Word
  <2>1. Word * Word \in Nat \ {0}
    BY WordPositive, SMT
  <2> DEFINE top == Word * Word - 1
  <2>2. top \in Int /\ ~(0 > top) /\ top - 0 + 1 = Word * Word
    BY <2>1
  <2> HIDE DEF top
  <2>3. IsFiniteSet(0 .. top) /\ Cardinality(0 .. top) = Word * Word
    BY <2>2, FS_Interval
  <2> QED BY <2>3 DEF U64, top
<1>2. IsFiniteSet(P) /\ Cardinality(P) = (Word * Word) * (Word * Word)
  BY <1>1, FS_Product
<1>3. f \in [P -> Draw]
  BY DEF Draw
<1>4. ASSUME NEW p \in P, NEW q \in P, f[p] = f[q]  PROVE p = q
  <2>1. f[p].stream = p[1] /\ f[p].index = p[2] /\ f[q].stream = q[1] /\ f[q].index = q[2]
    OBVIOUS
  <2>2. p = <<p[1], p[2]>> /\ q = <<q[1], q[2]>>
    OBVIOUS
  <2>3. p[1] = q[1] /\ p[2] = q[2]
    BY <1>4, <2>1
  <2> QED BY <2>2, <2>3
<1>5. ASSUME NEW d \in Draw  PROVE \E p \in P : f[p] = d
  <2>1. <<d.stream, d.index>> \in P
    BY DEF Draw
  <2>2. f[<<d.stream, d.index>>] = [stream |-> d.stream, index |-> d.index]
    BY <2>1
  <2>3. d = [stream |-> d.stream, index |-> d.index]
    BY DEF Draw
  <2> QED BY <2>1, <2>2, <2>3
<1> HIDE DEF f
<1>6. f \in Bijection(P, Draw)
  BY <1>3, <1>4, <1>5 DEF Bijection, Injection, Surjection, IsInjective
<1>7. ExistsBijection(P, Draw)
  BY <1>6 DEF ExistsBijection
<1> HIDE DEF P
<1> QED BY <1>2, <1>7, FS_Bijection

(* Over a whole period the draws take every block once.                    *)
LEMMA EveryBlockDrawn ==
  ASSUME DrawsInv, Streams = U64, Indices = U64
  PROVE  c \in Bijection(Draw, U32x4)
<1>1. c \in Injection(Draw, U32x4)
  BY DEF DrawsInv, DrawsTypeOK, Injective, Injection, IsInjective
<1>2. IsFiniteSet(U32x4) /\ Cardinality(U32x4) = (Word * Word) * (Word * Word)
  <2>1. Blocks(U32, U32) = U32x4
    BY DEF Blocks, U32x4
  <2> QED BY <2>1, BlocksCounted, WordsCounted
<1>3. Cardinality(Draw) = Cardinality(U32x4)
  BY <1>2, PeriodCounted
<1>4. c \in Surjection(Draw, U32x4)
  BY <1>1, <1>2, <1>3, FS_Injection
<1> QED BY <1>1, <1>4 DEF Bijection

LEMMA PairsCounted ==
  ASSUME DrawsInv, Streams = U64, Indices = U64,
         NEW level \in 1 .. Levels, NEW angle \in 0 .. Levels - 1
  PROVE  Cardinality(PairsOf(level, angle)) = (Dropped * Dropped) * (Word * Word)
<1> DEFINE S == PairsOf(level, angle)
           T == Blocks(WordsAt(level - 1), WordsAt(angle))
           g == [d \in S |-> c[d]]
<1>1. level - 1 \in 0 .. Levels - 1 /\ Levels \in Nat
  BY PhiloxAssumption
<1>2. c \in [Draw -> U32x4]
  BY DEF DrawsInv, DrawsTypeOK
<1>3. ASSUME NEW d \in Draw  PROVE d \in S <=> c[d] \in T
  <2>1. c[d] \in U32x4 /\ c[d].x \in U32 /\ c[d].y \in U32
    BY <1>2 DEF U32x4
  <2>2. to_uniform(c[d].x) \in Nat
    <3>1. c[d].x \in Nat /\ Dropped \in Nat \ {0}
      BY <2>1, WordPositive, PhiloxAssumption DEF U32
    <3> QED BY <3>1, SMT DEF to_uniform
  <2>3. U1(c[d]) = level <=> to_uniform(c[d].x) = level - 1
    BY <1>1, <2>2 DEF U1
  <2> QED BY <2>1, <2>3 DEF PairsOf, Blocks, WordsAt, U2
<1>4. S \subseteq Draw
  BY DEF PairsOf
<1>5. IsFiniteSet(S)
  BY <1>4, DrawFinite, FS_Subset
<1>6. g \in [S -> T]
  BY <1>3, <1>4
<1>7. ASSUME NEW d \in S, NEW e \in S, g[d] = g[e]  PROVE d = e
  BY <1>4, <1>7 DEF DrawsInv, Injective
<1>8. ASSUME NEW b \in T  PROVE \E d \in S : g[d] = b
  <2>1. b \in U32x4
    BY DEF Blocks
  <2>2. PICK d \in Draw : c[d] = b
    BY <2>1, EveryBlockDrawn DEF Bijection, Surjection
  <2>3. d \in S
    BY <1>3, <2>2
  <2> QED BY <2>2, <2>3
<1> HIDE DEF S, T, g
<1>9. g \in Bijection(S, T)
  BY <1>6, <1>7, <1>8 DEF Bijection, Injection, Surjection, IsInjective
<1>10. Cardinality(S) = Cardinality(T)
  BY <1>5, <1>9, FS_Bijection DEF ExistsBijection
<1>11. Cardinality(T) = (Dropped * Dropped) * (Word * Word)
  BY <1>1, BlocksCounted, LevelCounted DEF T
<1> QED BY <1>10, <1>11 DEF S

(* Whatever the width of a word and of a mantissa: over a whole period of  *)
(* the counter, normal() takes every pair of a logarithm's argument and an *)
(* angle equally often.                                                    *)
THEOREM PhiloxDrawsBalanced == DrawsSpec => []DrawsBalanced
<1>1. DrawsInv => DrawsBalanced
  <2> SUFFICES ASSUME DrawsInv, Streams = U64, Indices = U64,
                      NEW level \in 1 .. Levels, NEW angle \in 0 .. Levels - 1
               PROVE  Cardinality(PairsOf(level, angle)) * Levels * Levels = Cardinality(Draw)
    BY DEF DrawsBalanced
  <2>1. Levels \in Nat /\ Dropped \in Nat /\ Word = Levels * Dropped
    BY PhiloxAssumption DEF Word
  <2>2. (Word * Word) = (Dropped * Dropped) * Levels * Levels
    BY <2>1, SMT
  <2> DEFINE square == Word * Word
             d == Dropped * Dropped
  <2>3. square \in Nat /\ d \in Nat /\ square = d * Levels * Levels
    BY <2>1, <2>2, WordPositive, SMT
  <2>4. Cardinality(PairsOf(level, angle)) = d * square /\ Cardinality(Draw) = square * square
    BY PairsCounted, PeriodCounted
  <2> HIDE DEF square, d
  <2>5. (d * square) * Levels * Levels = (d * Levels * Levels) * square
    BY <2>1, <2>3, SMT
  <2> QED BY <2>3, <2>4, <2>5
<1> QED BY <1>1, InitDrawsInv, NextKeepsDraws, PTL DEF DrawsSpec
=============================================================================
