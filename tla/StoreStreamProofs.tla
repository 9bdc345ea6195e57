------------------------- MODULE StoreStreamProofs -------------------------
(***************************************************************************)
(* Proofs about StoreStream, for any parameters, buffers, observed         *)
(* locations and number of calls: a program cannot tell that the device    *)
(* lags behind.                                                            *)
(***************************************************************************)
EXTENDS StoreStream, DataFacts, TLAPS

-----------------------------------------------------------------------------
(* The memory after each prefix of a sequence of operations.               *)
Follows(g, m, ops, n) ==
  g = [k \in 0 .. n |-> IF k = 0 THEN m ELSE Apply(g[k - 1], ops[k])]

Reaches(g, m, ops) == Follows(g, m, ops, Len(ops))

LEMMA PrefixReached ==
  ASSUME NEW m, NEW ops, Len(ops) \in Nat
  PROVE  \A n \in Nat : n <= Len(ops) => \E g : Follows(g, m, ops, n)
<1> DEFINE S == {n \in Nat : n <= Len(ops) => \E g : Follows(g, m, ops, n)}
<1>1. 0 \in S
  <2>1. Follows([k \in 0 .. 0 |-> m], m, ops, 0)
    BY DEF Follows
  <2> QED BY <2>1
<1>2. ASSUME NEW n \in Nat, n \in S  PROVE n + 1 \in S
  <2> SUFFICES ASSUME n + 1 <= Len(ops)  PROVE \E h : Follows(h, m, ops, n + 1)
    OBVIOUS
  <2>1. PICK g : Follows(g, m, ops, n)
    BY <1>2
  <2> DEFINE h == [k \in 0 .. n + 1 |->
                     IF k = n + 1 THEN Apply(g[n], ops[n + 1]) ELSE g[k]]
  <2>2. ASSUME NEW k \in 0 .. n + 1
        PROVE  h[k] = IF k = 0 THEN m ELSE Apply(h[k - 1], ops[k])
    <3>1. CASE k = n + 1
      BY <3>1
    <3>2. CASE k # n + 1
      <4>1. k \in 0 .. n /\ (k # 0 => k - 1 \in 0 .. n /\ k - 1 # n + 1)
        BY <3>2
      <4>2. g[k] = IF k = 0 THEN m ELSE Apply(g[k - 1], ops[k])
        BY <2>1, <4>1 DEF Follows
      <4>3. h[k] = g[k] /\ (k # 0 => h[k - 1] = g[k - 1])
        BY <3>2, <4>1
      <4> QED BY <4>2, <4>3
    <3> QED BY <3>1, <3>2
  <2>3. h = [k \in 0 .. n + 1 |-> h[k]]
    OBVIOUS
  <2> HIDE DEF h
  <2>4. Follows(h, m, ops, n + 1)
    BY <2>2, <2>3 DEF Follows
  <2> QED BY <2>4
<1> HIDE DEF S
<1>3. Nat \subseteq S
  BY <1>1, <1>2, SetInduction
<1> QED BY <1>3 DEF S

LEMMA RunReaches ==
  ASSUME NEW m, NEW ops, Len(ops) \in Nat
  PROVE  \E g : Reaches(g, m, ops) /\ Run(m, ops) = g[Len(ops)]
<1> DEFINE after[n \in 0 .. Len(ops)] ==
             IF n = 0 THEN m ELSE Apply(after[n - 1], ops[n])
<1>1. \E g : Reaches(g, m, ops)
  <2> HIDE DEF after
  <2>1. Len(ops) <= Len(ops)
    OBVIOUS
  <2> QED BY <2>1, PrefixReached DEF Reaches
<1>2. Reaches(after, m, ops)
  BY <1>1 DEF Reaches, Follows
<1>3. Run(m, ops) = after[Len(ops)]
  BY DEF Run
<1> QED BY <1>2, <1>3

LEMMA ReachesSteps ==
  ASSUME NEW m, NEW ops, Len(ops) \in Nat, NEW g, Reaches(g, m, ops)
  PROVE  /\ g[0] = m
         /\ \A n \in 0 .. Len(ops) - 1 : g[n + 1] = Apply(g[n], ops[n + 1])
<1>1. g[0] = m
  BY DEF Reaches, Follows
<1>2. ASSUME NEW n \in 0 .. Len(ops) - 1  PROVE g[n + 1] = Apply(g[n], ops[n + 1])
  <2>1. n + 1 \in 0 .. Len(ops) /\ n + 1 # 0 /\ n + 1 - 1 = n
    OBVIOUS
  <2> QED BY <2>1 DEF Reaches, Follows
<1> QED BY <1>1, <1>2

LEMMA RunSteps ==
  ASSUME NEW m, NEW ops, Len(ops) \in Nat
  PROVE  \E g : /\ Run(m, ops) = g[Len(ops)] /\ g[0] = m
                /\ \A n \in 0 .. Len(ops) - 1 : g[n + 1] = Apply(g[n], ops[n + 1])
<1>1. PICK g : Reaches(g, m, ops) /\ Run(m, ops) = g[Len(ops)]
  BY RunReaches
<1>2. g[0] = m
  BY <1>1, ReachesSteps
<1>3. \A n \in 0 .. Len(ops) - 1 : g[n + 1] = Apply(g[n], ops[n + 1])
  BY <1>1, ReachesSteps
<1> QED BY <1>1, <1>2, <1>3

(* Whatever steps from m through the operations ends in Run(m, ops).       *)
LEMMA StepsReachRun ==
  ASSUME NEW m, NEW ops, Len(ops) \in Nat, NEW h, h[0] = m,
         \A n \in 0 .. Len(ops) - 1 : h[n + 1] = Apply(h[n], ops[n + 1])
  PROVE  h[Len(ops)] = Run(m, ops)
<1>1. PICK g : /\ Run(m, ops) = g[Len(ops)] /\ g[0] = m
               /\ \A n \in 0 .. Len(ops) - 1 : g[n + 1] = Apply(g[n], ops[n + 1])
  BY RunSteps
<1> DEFINE S == {n \in Nat : n <= Len(ops) => h[n] = g[n]}
<1>3. 0 \in S
  BY <1>1
<1>4. ASSUME NEW n \in Nat, n \in S  PROVE n + 1 \in S
  <2>1. CASE n + 1 <= Len(ops)
    <3>1. n \in 0 .. Len(ops) - 1 /\ h[n] = g[n]
      BY <1>4, <2>1
    <3>2. h[n + 1] = g[n + 1]
      BY <1>1, <3>1
    <3> QED BY <3>2
  <2> QED BY <2>1
<1> HIDE DEF S
<1>5. Nat \subseteq S
  BY <1>3, <1>4, SetInduction
<1> QED BY <1>1, <1>5 DEF S

(* Two batches one after the other are one batch.                          *)
LEMMA RunSplit ==
  ASSUME NEW m, NEW a, NEW b, NEW ab,
         Len(a) \in Nat, Len(b) \in Nat, Len(ab) = Len(a) + Len(b),
         \A j \in 1 .. Len(a) : ab[j] = a[j],
         \A j \in 1 .. Len(b) : ab[Len(a) + j] = b[j]
  PROVE  Run(m, ab) = Run(Run(m, a), b)
<1>1. PICK g : Reaches(g, m, a) /\ Run(m, a) = g[Len(a)]
  BY RunReaches
<1>2. PICK h : Reaches(h, Run(m, a), b) /\ Run(Run(m, a), b) = h[Len(b)]
  <2> DEFINE middle == Run(m, a)
  <2> HIDE DEF middle
  <2>1. \E h : Reaches(h, middle, b) /\ Run(middle, b) = h[Len(b)]
    BY RunReaches
  <2> QED BY <2>1 DEF middle
<1>3. /\ g[0] = m
      /\ \A n \in 0 .. Len(a) - 1 : g[n + 1] = Apply(g[n], a[n + 1])
  <2>1. Len(a) \in Nat /\ Reaches(g, m, a)
    BY <1>1
  <2> QED BY ONLY <2>1, ReachesSteps
<1>4. /\ h[0] = g[Len(a)]
      /\ \A n \in 0 .. Len(b) - 1 : h[n + 1] = Apply(h[n], b[n + 1])
  BY <1>1, <1>2, ReachesSteps
<1> DEFINE w == [n \in 0 .. Len(ab) |-> IF n <= Len(a) THEN g[n] ELSE h[n - Len(a)]]
<1>5. w[0] = m /\ w[Len(ab)] = h[Len(b)]
  <2>1. CASE Len(b) = 0
    BY <1>3, <1>4, <2>1
  <2>2. CASE Len(b) # 0
    BY <1>3, <2>2
  <2> QED BY <2>1, <2>2
<1>6. ASSUME NEW n \in 0 .. Len(ab) - 1  PROVE w[n + 1] = Apply(w[n], ab[n + 1])
  <2>1. CASE n < Len(a)
    <3>1. n \in 0 .. Len(a) - 1 /\ n + 1 \in 1 .. Len(a)
      BY <2>1
    <3>2. w[n] = g[n] /\ w[n + 1] = g[n + 1]
      BY <2>1
    <3>3. g[n + 1] = Apply(g[n], a[n + 1]) /\ ab[n + 1] = a[n + 1]
      BY <1>3, <3>1
    <3> QED BY <3>2, <3>3
  <2>2. CASE n >= Len(a)
    <3> DEFINE k == n - Len(a)
    <3>1. k \in 0 .. Len(b) - 1 /\ k + 1 \in 1 .. Len(b) /\ n + 1 = Len(a) + (k + 1)
      BY <2>2
    <3>2. w[n] = h[k] /\ w[n + 1] = h[k + 1]
      BY <1>4, <2>2
    <3>3. h[k + 1] = Apply(h[k], b[k + 1]) /\ ab[Len(a) + (k + 1)] = b[k + 1]
      <4> HIDE DEF k
      <4> QED BY <1>4, <3>1
    <3> QED BY <3>1, <3>2, <3>3
  <2> QED BY <2>1, <2>2
<1>7. Len(ab) \in Nat
  OBVIOUS
<1> HIDE DEF w
<1>8. w[Len(ab)] = Run(m, ab)
  BY <1>5, <1>6, <1>7, StepsReachRun
<1> QED BY <1>2, <1>5, <1>8

LEMMA RunNone ==
  ASSUME NEW m, NEW ops, Len(ops) = 0
  PROVE  Run(m, ops) = m
<1>1. PICK g : Reaches(g, m, ops) /\ Run(m, ops) = g[Len(ops)]
  BY RunReaches
<1> QED BY <1>1 DEF Reaches, Follows

LEMMA RunOne ==
  ASSUME NEW m, NEW op
  PROVE  Run(m, <<op>>) = Apply(m, op)
<1>1. Len(<<op>>) = 1 /\ <<op>>[1] = op
  OBVIOUS
<1>2. PICK g : Reaches(g, m, <<op>>) /\ Run(m, <<op>>) = g[1]
  BY <1>1, RunReaches
<1>3. g[1] = Apply(g[0], <<op>>[1])
  <2>1. \A n \in 0 .. Len(<<op>>) - 1 : g[n + 1] = Apply(g[n], <<op>>[n + 1])
    BY <1>1, <1>2, ReachesSteps
  <2> QED BY <1>1, <2>1
<1>4. g[0] = m
  BY <1>1, <1>2, ReachesSteps
<1> QED BY <1>1, <1>2, <1>3, <1>4

LEMMA RunFirst ==
  ASSUME NEW m, NEW ops, NEW rest, Len(rest) \in Nat, Len(ops) = Len(rest) + 1,
         \A j \in 1 .. Len(rest) : rest[j] = ops[j + 1]
  PROVE  Run(m, ops) = Run(Apply(m, ops[1]), rest)
<1> DEFINE one == <<ops[1]>>
<1>1. Len(one) = 1 /\ one[1] = ops[1] /\ Len(ops) = Len(one) + Len(rest)
  OBVIOUS
<1>2. \A j \in 1 .. Len(one) : ops[j] = one[j]
  <2>1. \A j \in 1 .. Len(one) : j = 1
    BY <1>1
  <2> QED BY <1>1, <2>1
<1>3. \A j \in 1 .. Len(rest) : ops[Len(one) + j] = rest[j]
  <2> SUFFICES ASSUME NEW j \in 1 .. Len(rest)  PROVE ops[1 + j] = rest[j]
    BY <1>1
  <2> QED OBVIOUS
<1>4. Run(m, one) = Apply(m, ops[1])
  BY RunOne
<1> HIDE DEF one
<1>5. /\ Len(one) \in Nat /\ Len(rest) \in Nat /\ Len(ops) = Len(one) + Len(rest)
      /\ \A j \in 1 .. Len(one) : ops[j] = one[j]
      /\ \A j \in 1 .. Len(rest) : ops[Len(one) + j] = rest[j]
  BY <1>1, <1>2, <1>3
<1>6. Run(m, ops) = Run(Run(m, one), rest)
  BY ONLY <1>5, RunSplit
<1> QED BY <1>4, <1>6

LEMMA RunTwo ==
  ASSUME NEW m, NEW op1, NEW op2
  PROVE  Run(m, <<op1, op2>>)
           = Apply(Apply(m, op1), op2)
<1> DEFINE ops == <<op1, op2>>
           rest == <<op2>>
<1>1. Len(ops) = 2 /\ Len(rest) = 1 /\ ops[1] = op1
  OBVIOUS
<1>2. ASSUME NEW j \in 1 .. 1  PROVE rest[j] = ops[j + 1]
  <2>1. j = 1
    OBVIOUS
  <2> QED BY <2>1
<1>3. Run(Apply(m, op1), rest)
        = Apply(Apply(m, op1), op2)
  BY RunOne
<1> HIDE DEF ops, rest
<1>4. /\ Len(rest) \in Nat /\ Len(ops) = Len(rest) + 1
      /\ \A j \in 1 .. Len(rest) : rest[j] = ops[j + 1]
  BY <1>1, <1>2
<1>5. Run(m, ops) = Run(Apply(m, ops[1]), rest)
  BY <1>4, RunFirst
<1> QED BY <1>1, <1>3, <1>5 DEF ops

LEMMA RunThree ==
  ASSUME NEW m, NEW op1, NEW op2, NEW op3
  PROVE  Run(m, <<op1, op2, op3>>)
           = Apply(Apply(Apply(m, op1), op2), op3)
<1> DEFINE ops == <<op1, op2, op3>>
           rest == <<op2, op3>>
<1>1. Len(ops) = 3 /\ Len(rest) = 2 /\ ops[1] = op1
  OBVIOUS
<1>2. ASSUME NEW j \in 1 .. 2  PROVE rest[j] = ops[j + 1]
  <2>1. j = 1 \/ j = 2
    OBVIOUS
  <2> QED BY <2>1
<1>3. Run(Apply(m, op1), rest)
        = Apply(Apply(Apply(m, op1), op2), op3)
  BY RunTwo
<1> HIDE DEF ops, rest
<1>4. /\ Len(rest) \in Nat /\ Len(ops) = Len(rest) + 1
      /\ \A j \in 1 .. Len(rest) : rest[j] = ops[j + 1]
  BY <1>1, <1>2
<1>5. Run(m, ops) = Run(Apply(m, ops[1]), rest)
  BY <1>4, RunFirst
<1> QED BY <1>1, <1>3, <1>5 DEF ops

LEMMA RunFour ==
  ASSUME NEW m, NEW op1, NEW op2, NEW op3, NEW op4
  PROVE  Run(m, <<op1, op2, op3, op4>>)
           = Apply(Apply(Apply(Apply(m, op1), op2), op3), op4)
<1> DEFINE ops == <<op1, op2, op3, op4>>
           rest == <<op2, op3, op4>>
<1>1. Len(ops) = 4 /\ Len(rest) = 3 /\ ops[1] = op1
  OBVIOUS
<1>2. ASSUME NEW j \in 1 .. 3  PROVE rest[j] = ops[j + 1]
  <2>1. j = 1 \/ j = 2 \/ j = 3
    OBVIOUS
  <2> QED BY <2>1
<1>3. Run(Apply(m, op1), rest)
        = Apply(Apply(Apply(Apply(m, op1), op2), op3), op4)
  BY RunThree
<1> HIDE DEF ops, rest
<1>4. /\ Len(rest) \in Nat /\ Len(ops) = Len(rest) + 1
      /\ \A j \in 1 .. Len(rest) : rest[j] = ops[j + 1]
  BY <1>1, <1>2
<1>5. Run(m, ops) = Run(Apply(m, ops[1]), rest)
  BY <1>4, RunFirst
<1> QED BY <1>1, <1>3, <1>5 DEF ops

-----------------------------------------------------------------------------
(* The operations that a program can have issued, told apart by kernel.    *)
Kernel ==
  {"memset", "init", "data", "x WT", "dy W", "accumulate", "gelu", "copy"}

Padding == {<<kind, "padding">> : kind \in Kind}
Grads == {Grad(p) : p \in Params}

Operation ==
  {op \in [kernel : Kernel, dst : SUBSET Location, src : Seq(Location)] :
     /\ Host \in op.dst <=> op.kernel = "copy"
     /\ op.kernel = "copy" => op.dst = {Host}
     /\ op.kernel \in {"memset", "data"} => op.src = <<>>
     /\ op.kernel = "memset" => op.dst \subseteq Store
     /\ op.kernel \in {"data", "copy"} => op.dst \cap Store = {}
     /\ op.kernel # "memset" => op.dst \cap Padding = {}
     /\ op.kernel \notin {"memset", "accumulate"} => op.dst \cap Grads = {}}

Entry == [stream : {"default", "device"}, op : Operation]

LEMMA Places ==
  /\ Store \subseteq Location /\ Tensors \subseteq Location /\ Host \in Location
  /\ Host \notin Store /\ Host \notin Tensors /\ Store \cap Tensors = {}
  /\ \A kind \in Kind : Span(kind) \subseteq Store
  /\ \A p \in Params : Weight(p) \in Store /\ Grad(p) \in Store
  /\ \A b \in Buffers : Buffer(b) \in Tensors
<1>1. /\ Store \subseteq Location /\ Tensors \subseteq Location /\ Host \in Location
      /\ \A b \in Buffers : Buffer(b) \in Tensors
  BY DEF Location, Tensors
<1>2. \A kind \in Kind : Span(kind) \subseteq Store
  BY DEF Store
<1>3. \A p \in Params : Weight(p) \in Store /\ Grad(p) \in Store
  <2>1. "Weight" \in Kind /\ "Grad" \in Kind
    BY DEF Kind
  <2>2. \A p \in Params : Weight(p) \in Span("Weight") /\ Grad(p) \in Span("Grad")
    BY DEF Weight, Grad, Span
  <2> QED BY <1>2, <2>1, <2>2
<1>4. \A loc \in Store : loc[1] \in Kind
  BY DEF Store, Span
<1>5. \A loc \in Tensors : loc[1] = "buffer"
  BY DEF Tensors, Buffer
<1>6. Host[1] = "host"
  BY DEF Host
<1>7. "host" \notin Kind /\ "buffer" \notin Kind
  BY DEF Kind
<1> QED BY <1>1, <1>2, <1>3, <1>4, <1>5, <1>6, <1>7

LEMMA Slices ==
  /\ Padding \subseteq Store /\ Grads \subseteq Store
  /\ \A p \in Params : Weight(p) \notin Padding /\ Grad(p) \notin Padding
  /\ \A p \in Params : Weight(p) \notin Grads
<1>1. \A kind \in Kind : <<kind, "padding">> \in Span(kind)
  BY DEF Span
<1>2. Padding \subseteq Store
  BY <1>1, Places DEF Padding
<1>3. Grads \subseteq Store
  BY Places DEF Grads
<1>4. \A p \in Params : p # "padding"
  BY DeviceMemoryAssumption
<1>5. \A p \in Params : Weight(p) \notin Padding /\ Grad(p) \notin Padding
  BY <1>4 DEF Padding, Weight, Grad
<1>6. \A p \in Params : Weight(p) \notin Grads
  BY DEF Grads, Weight, Grad
<1> QED BY <1>2, <1>3, <1>5, <1>6

(* Every operation that a call issues is of this sort.                     *)
LEMMA OpType ==
  ASSUME NEW kernel \in Kernel, NEW dst, NEW src \in Seq(Location),
         \/ kernel = "copy" /\ dst = {Host}
         \/ /\ kernel # "copy" /\ dst \subseteq Location \ {Host}
            /\ kernel \in {"memset", "data"} => src = <<>>
            /\ kernel = "memset" => dst \subseteq Store
            /\ kernel = "data" => dst \cap Store = {}
            /\ kernel # "memset" => dst \cap Padding = {}
            /\ kernel \notin {"memset", "accumulate"} => dst \cap Grads = {}
  PROVE  Op(kernel, dst, src) \in Operation
  BY Places, Slices DEF Operation, Op

LEMMA MemsetType == \A kind \in Kind : Memset(kind) \in Operation
<1> SUFFICES ASSUME NEW kind \in Kind  PROVE Memset(kind) \in Operation
  OBVIOUS
<1>1. /\ <<>> \in Seq(Location) /\ "memset" \in Kernel
      /\ Span(kind) \subseteq Location \ {Host} /\ Span(kind) \subseteq Store
  BY Places DEF Kernel
<1> QED BY <1>1, OpType DEF Memset

LEMMA FillType == \A p \in Params : Fill(p) \in Operation
<1> SUFFICES ASSUME NEW p \in Params  PROVE Fill(p) \in Operation
  OBVIOUS
<1>1. /\ <<>> \in Seq(Location) /\ "init" \in Kernel
      /\ {Weight(p)} \subseteq Location \ {Host}
      /\ {Weight(p)} \cap Padding = {} /\ {Weight(p)} \cap Grads = {}
  BY Places, Slices DEF Kernel
<1> QED BY <1>1, OpType DEF Fill

LEMMA DataType ==
  \A b \in Buffers : Op("data", {Buffer(b)}, <<>>) \in Operation
<1> SUFFICES ASSUME NEW b \in Buffers  PROVE Op("data", {Buffer(b)}, <<>>) \in Operation
  OBVIOUS
<1>1. /\ <<>> \in Seq(Location) /\ "data" \in Kernel
      /\ {Buffer(b)} \subseteq Location \ {Host} /\ {Buffer(b)} \cap Store = {}
      /\ {Buffer(b)} \cap Padding = {} /\ {Buffer(b)} \cap Grads = {}
  BY Places, Slices DEF Kernel
<1> QED BY <1>1, OpType

LEMMA CopyType ==
  \A loc \in Location : Op("copy", {Host}, <<loc>>) \in Operation
<1> SUFFICES ASSUME NEW loc \in Location  PROVE Op("copy", {Host}, <<loc>>) \in Operation
  OBVIOUS
<1>1. <<loc>> \in Seq(Location) /\ "copy" \in Kernel
  BY DEF Kernel
<1> QED BY <1>1, OpType

LEMMA PairType ==
  ASSUME NEW S, NEW a \in S, NEW b \in S
  PROVE  <<a, b>> \in Seq(S)
  OBVIOUS

LEMMA ProductType ==
  ASSUME NEW kernel \in {"x WT", "dy W"}, NEW t \in Tensors, NEW x \in Tensors,
         NEW p \in Params
  PROVE  Op(kernel, {t}, <<x, Weight(p)>>) \in Operation
<1>1. x \in Location /\ Weight(p) \in Location /\ t \in Location /\ t # Host
  BY Places
<1>2. <<x, Weight(p)>> \in Seq(Location)
  BY <1>1, PairType
<1>3. {t} \subseteq Location \ {Host} /\ {t} \cap Padding = {} /\ {t} \cap Grads = {}
  BY <1>1, Places, Slices
<1>4. kernel \in Kernel /\ kernel \notin {"copy", "memset", "data"}
  BY DEF Kernel
<1> QED BY <1>2, <1>3, <1>4, OpType

LEMMA AccumulateType ==
  ASSUME NEW dy \in Tensors, NEW x \in Tensors, NEW p \in Params
  PROVE  Op("accumulate", {Grad(p)}, <<dy, x, Grad(p)>>) \in Operation
<1>1. dy \in Location /\ x \in Location /\ Grad(p) \in Location
  BY Places
<1>2. /\ <<dy, x, Grad(p)>> \in Seq(Location) /\ "accumulate" \in Kernel
      /\ {Grad(p)} \subseteq Location \ {Host} /\ {Grad(p)} \cap Padding = {}
  BY <1>1, Places, Slices DEF Kernel
<1> QED BY <1>2, OpType

LEMMA GeluType == \A h \in Tensors : Op("gelu", {h}, <<h>>) \in Operation
<1> SUFFICES ASSUME NEW h \in Tensors  PROVE Op("gelu", {h}, <<h>>) \in Operation
  OBVIOUS
<1>1. h \in Location
  BY Places
<1>2. /\ <<h>> \in Seq(Location) /\ "gelu" \in Kernel /\ {h} \subseteq Location \ {Host}
      /\ {h} \cap Padding = {} /\ {h} \cap Grads = {}
  BY <1>1, Places, Slices DEF Kernel
<1> QED BY <1>2, OpType

(* The values that kernels compute; only a copy can bring garbage.         *)
LEMMA Values ==
  ASSUME NEW m, NEW op
  PROVE  /\ op.kernel = "memset" => Value(m, op) = Zero
         /\ op.kernel \in {"init", "data"} => Value(m, op) = <<op.kernel, op.dst>>
         /\ op.kernel \in {"x WT", "dy W"} =>
              Value(m, op) = <<op.kernel, m[op.src[1]], m[op.src[2]]>>
         /\ op.kernel = "accumulate" =>
              Value(m, op) = Sum(m[op.src[3]], <<"dyT x", m[op.src[1]], m[op.src[2]]>>)
         /\ op.kernel = "gelu" => Value(m, op) = <<"gelu", m[op.src[1]]>>
         /\ op.kernel = "copy" => Value(m, op) = m[op.src[1]]
<1>1. CASE op.kernel = "memset"
  BY <1>1 DEF Value
<1>2. CASE op.kernel \in {"init", "data"}
  BY <1>2 DEF Value
<1>3. CASE op.kernel \in {"x WT", "dy W"}
  BY <1>3 DEF Value
<1>4. CASE op.kernel = "accumulate"
  BY <1>4 DEF Value
<1>5. CASE op.kernel = "gelu"
  BY <1>5 DEF Value
<1>6. CASE op.kernel = "copy"
  BY <1>6 DEF Value
<1> QED BY <1>1, <1>2, <1>3, <1>4, <1>5, <1>6

LEMMA NotGarbage ==
  ASSUME NEW m, NEW op \in Operation, op.kernel # "copy"
  PROVE  Value(m, op) # Garbage
<1> DEFINE v == Value(m, op)
<1>1. CASE op.kernel = "memset"
  <2>1. v = <<"zero">>
    BY <1>1, Values DEF Zero
  <2> QED BY <2>1 DEF Garbage
<1>2. CASE op.kernel \in {"init", "data"}
  <2>1. v = <<op.kernel, op.dst>>
    BY <1>2, Values
  <2> QED BY <2>1 DEF Garbage
<1>3. CASE op.kernel \in {"x WT", "dy W"}
  <2>1. v = <<op.kernel, m[op.src[1]], m[op.src[2]]>>
    BY <1>3, Values
  <2> QED BY <2>1 DEF Garbage
<1>4. CASE op.kernel = "accumulate"
  <2>1. PICK a, b : v = <<"+", a, b>>
    BY <1>4, Values DEF Sum
  <2> HIDE DEF v
  <2>2. Len(v) = 3 /\ Len(Garbage) = 1
    BY <2>1 DEF Garbage
  <2> QED BY <2>2 DEF v
<1>5. CASE op.kernel = "gelu"
  <2>1. v = <<"gelu", m[op.src[1]]>>
    BY <1>5, Values
  <2> QED BY <2>1 DEF Garbage
<1> QED BY <1>1, <1>2, <1>3, <1>4, <1>5 DEF Operation, Kernel

-----------------------------------------------------------------------------
(* The inductive invariant.  Everything is in one queue, whose operations  *)
(* are executed in order; a download that the host waits for is the last   *)
(* of them.  Before finalize() the queue holds only uploads, and perhaps   *)
(* that download, so that nothing before a memset touches the store.       *)
IsMemory(m) == m = [loc \in Location |-> m[loc]]

QueueOK ==
  /\ pending \in Seq(Entry)
  /\ IsMemory(mem)
  /\ finalized \in BOOLEAN /\ waiting \in BOOLEAN /\ calls \in Nat

HostWaits ==
  /\ waiting => pending # <<>>
  /\ \A j \in 1 .. Len(pending) :
       pending[j].op.kernel = "copy" <=> waiting /\ j = Len(pending)

BeforeFinalize ==
  ~finalized =>
    \A j \in 1 .. Len(pending) : pending[j].op.kernel \in {"data", "copy"}

BehindMemsets ==
  \A e, j \in 1 .. Len(pending) :
    e < j /\ pending[j].op.kernel = "memset" => pending[e].op.kernel \in {"data", "memset"}

Zeroing(loc) ==
  \E e \in 1 .. Len(pending) :
    pending[e].op.kernel = "memset" /\ loc \in pending[e].op.dst

Zeroed == finalized => \A loc \in Store : mem[loc] # Garbage \/ Zeroing(loc)

IInv == QueueOK /\ HostWaits /\ BeforeFinalize /\ BehindMemsets /\ Zeroed

(* Both streams are ordered with each other, so only the oldest operation  *)
(* can be executed.                                                        *)
LEMMA OnlyTheOldest ==
  ASSUME QueueOK, NEW j \in 1 .. Len(pending), Executable(j)
  PROVE  j = 1
<1>1. pending \in Seq(Entry) /\ Len(pending) \in Nat
  BY DEF QueueOK
<1>2. \A k \in 1 .. Len(pending) : pending[k].stream \in {"default", "device"}
  <2> SUFFICES ASSUME NEW k \in 1 .. Len(pending)
               PROVE  pending[k].stream \in {"default", "device"}
    OBVIOUS
  <2>1. pending[k] \in Entry
    BY <1>1, ElementInSet
  <2> QED BY <2>1 DEF Entry
<1>3. ASSUME j # 1  PROVE FALSE
  <2>1. 1 \in 1 .. j - 1 /\ 1 \in 1 .. Len(pending)
    BY <1>1, <1>3
  <2>2. ~Ordered(pending[1].stream, pending[j].stream)
    BY <2>1 DEF Executable
  <2> QED BY <1>2, <2>1, <2>2 DEF Ordered
<1> QED BY <1>3

LEMMA ExecuteFirst ==
  ASSUME QueueOK, NEW j \in 1 .. Len(pending), Execute(j)
  PROVE  /\ Len(pending) \in Nat \ {0} /\ pending[1] \in Entry
         /\ pending' \in Seq(Entry)
         /\ Len(pending') = Len(pending) - 1
         /\ \A k \in 1 .. Len(pending') : pending'[k] = pending[k + 1]
         /\ mem' = Apply(mem, pending[1].op)
         /\ waiting' = (waiting /\ pending[1].op.dst # {Host})
         /\ UNCHANGED <<finalized, calls>>
<1>1. pending \in Seq(Entry) /\ Len(pending) \in Nat
  BY DEF QueueOK
<1>2. j = 1
  BY OnlyTheOldest DEF Execute
<1>3. Len(pending) \in Nat \ {0} /\ pending[1] \in Entry
  BY <1>1, <1>2, ElementInSet
<1>4. pending' = SubSeq(pending, 1, 0) \o SubSeq(pending, 2, Len(pending))
  BY <1>2 DEF Execute
<1>5. /\ SubSeq(pending, 2, Len(pending)) \in Seq(Entry)
      /\ Len(SubSeq(pending, 2, Len(pending))) = Len(pending) - 1
      /\ \A k \in 1 .. Len(pending) - 1 : SubSeq(pending, 2, Len(pending))[k] = pending[k + 1]
  BY <1>1, <1>3, SubSeqFacts
<1>6. SubSeq(pending, 1, 0) = <<>>
  BY <1>1
<1>7. pending' = SubSeq(pending, 2, Len(pending))
  BY <1>4, <1>5, <1>6
<1> QED BY <1>2, <1>3, <1>5, <1>7 DEF Execute

LEMMA IssueFacts ==
  ASSUME pending \in Seq(Entry), NEW ops \in Seq(Operation),
         NEW stream \in {"default", "device"}, Issue(stream, ops)
  PROVE  /\ Len(pending) \in Nat /\ Len(ops) \in Nat
         /\ pending' \in Seq(Entry)
         /\ Len(pending') = Len(pending) + Len(ops)
         /\ \A j \in 1 .. Len(pending) : pending'[j] = pending[j]
         /\ \A j \in 1 .. Len(ops) : pending'[Len(pending) + j].op = ops[j]
<1> DEFINE new == [j \in 1 .. Len(ops) |-> [stream |-> stream, op |-> ops[j]]]
<1>1. Len(pending) \in Nat /\ Len(ops) \in Nat
  OBVIOUS
<1>2. new \in Seq(Entry) /\ Len(new) = Len(ops)
  <2>1. ASSUME NEW j \in 1 .. Len(ops)  PROVE [stream |-> stream, op |-> ops[j]] \in Entry
    <3>1. ops[j] \in Operation
      BY ElementInSet
    <3> QED BY <3>1 DEF Entry
  <2>2. new \in [1 .. Len(ops) -> Entry]
    BY <2>1
  <2> HIDE DEF new
  <2> QED BY <1>1, <2>2
<1>3. \A j \in 1 .. Len(ops) : new[j].op = ops[j]
  OBVIOUS
<1>4. pending' = pending \o new
  BY DEF Issue
<1> HIDE DEF new
<1>5. pending' \in Seq(Entry) /\ Len(pending') = Len(pending) + Len(ops)
  BY <1>1, <1>2, <1>4
<1>6. \A j \in 1 .. Len(pending) : pending'[j] = pending[j]
  BY <1>1, <1>2, <1>4
<1>7. \A j \in 1 .. Len(ops) : pending'[Len(pending) + j] = new[j]
  BY <1>1, <1>2, <1>4
<1> QED BY <1>1, <1>3, <1>5, <1>6, <1>7

-----------------------------------------------------------------------------
(* The operations of the calls that come after finalize().                 *)
Asynchronous == {op \in Operation : op.kernel \notin {"memset", "copy"}}

LEMMA InitParamsType ==
  [j \in 1 .. Len(Order) |-> Fill(Order[j])] \in Seq(Asynchronous)
<1> DEFINE ops == [j \in 1 .. Len(Order) |-> Fill(Order[j])]
<1>1. Len(Order) \in Nat
  BY StoreStreamAssumption
<1>2. ASSUME NEW j \in 1 .. Len(Order)  PROVE Fill(Order[j]) \in Asynchronous
  <2>1. Order[j] \in Params
    BY StoreStreamAssumption, ElementInSet
  <2>2. Fill(Order[j]) \in Operation /\ Fill(Order[j]).kernel = "init"
    BY <2>1, FillType DEF Fill, Op
  <2> QED BY <2>2 DEF Asynchronous
<1>3. ops \in [1 .. Len(Order) -> Asynchronous]
  BY <1>2
<1> HIDE DEF ops
<1>4. ops \in Seq(Asynchronous)
  BY <1>1, <1>3
<1> QED BY <1>4 DEF ops

LEMMA ProductAsynchronous ==
  ASSUME NEW kernel \in {"x WT", "dy W"}, NEW t \in Tensors, NEW x \in Tensors,
         NEW p \in Params
  PROVE  Op(kernel, {t}, <<x, Weight(p)>>) \in Asynchronous
  BY ProductType DEF Asynchronous, Op

LEMMA ForwardType ==
  ASSUME NEW p \in Params, NEW y \in Tensors, NEW x \in Tensors
  PROVE  ForwardOps(p, y, x) \in Seq(Asynchronous)
<1> DEFINE op == Op("x WT", {y}, <<x, Weight(p)>>)
<1>1. op \in Asynchronous
  BY ProductAsynchronous
<1> HIDE DEF op
<1>2. <<op>> \in Seq(Asynchronous)
  BY <1>1
<1> QED BY <1>2 DEF ForwardOps, op

LEMMA BackwardType ==
  ASSUME NEW p \in Params, NEW dx \in Tensors, NEW dy \in Tensors, NEW x \in Tensors
  PROVE  BackwardOps(p, dx, dy, x) \in Seq(Asynchronous)
<1> DEFINE op1 == Op("dy W", {dx}, <<dy, Weight(p)>>)
           op2 == Op("accumulate", {Grad(p)}, <<dy, x, Grad(p)>>)
<1>1. op1 \in Asynchronous
  BY ProductAsynchronous
<1>2. op2 \in Asynchronous
  BY AccumulateType DEF Asynchronous, Op
<1> HIDE DEF op1, op2
<1>3. <<op1, op2>> \in Seq(Asynchronous)
  BY <1>1, <1>2
<1> QED BY <1>3 DEF BackwardOps, op1, op2

(* The activation is issued between the two products.                      *)
LEMMA MlpOpsAre ==
  ASSUME NEW up, NEW down, NEW y, NEW h, NEW x
  PROVE  MlpOps(up, down, y, h, x)
           = <<Op("x WT", {h}, <<x, Weight(up)>>), Op("gelu", {h}, <<h>>),
               Op("x WT", {y}, <<h, Weight(down)>>)>>
<1> DEFINE op1 == Op("x WT", {h}, <<x, Weight(up)>>)
           op2 == Op("gelu", {h}, <<h>>)
           op3 == Op("x WT", {y}, <<h, Weight(down)>>)
<1>1. MlpOps(up, down, y, h, x) = <<op1>> \o <<op2>> \o <<op3>>
  BY DEF MlpOps, ForwardOps
<1> HIDE DEF op1, op2, op3
<1> DEFINE S == {op1, op2, op3}
<1>2. <<op1>> \o <<op2>> = <<op1, op2>>
  <2>1. op1 \in S /\ op2 \in S
    OBVIOUS
  <2> QED BY <2>1, ConcatTwo
<1>3. <<op1, op2>> \o <<op3>> = <<op1, op2, op3>>
  <2>1. op1 \in S /\ op2 \in S /\ op3 \in S
    OBVIOUS
  <2> QED BY <2>1, ConcatThird
<1> QED BY <1>1, <1>2, <1>3 DEF op1, op2, op3

LEMMA MlpType ==
  ASSUME NEW up \in Params, NEW down \in Params, NEW y \in Tensors, NEW h \in Tensors,
         NEW x \in Tensors
  PROVE  MlpOps(up, down, y, h, x) \in Seq(Asynchronous)
<1> DEFINE op1 == Op("x WT", {h}, <<x, Weight(up)>>)
           op2 == Op("gelu", {h}, <<h>>)
           op3 == Op("x WT", {y}, <<h, Weight(down)>>)
<1>1. op1 \in Asynchronous
  BY ProductAsynchronous
<1>2. op2 \in Asynchronous
  BY GeluType DEF Asynchronous, Op
<1>3. op3 \in Asynchronous
  BY ProductAsynchronous
<1> HIDE DEF op1, op2, op3
<1>4. <<op1, op2, op3>> \in Seq(Asynchronous)
  BY <1>1, <1>2, <1>3
<1> QED BY <1>4, MlpOpsAre DEF op1, op2, op3

LEMMA UploadType ==
  ASSUME NEW b \in Buffers
  PROVE  /\ UploadOps(b) \in Seq(Asynchronous)
         /\ \A j \in 1 .. Len(UploadOps(b)) : UploadOps(b)[j].kernel = "data"
<1> DEFINE op == Op("data", {Buffer(b)}, <<>>)
<1>1. op \in Asynchronous /\ op.kernel = "data"
  BY DataType DEF Asynchronous, Op
<1> HIDE DEF op
<1>2. <<op>> \in Seq(Asynchronous) /\ \A j \in 1 .. Len(<<op>>) : <<op>>[j].kernel = "data"
  BY <1>1
<1> QED BY <1>2 DEF UploadOps, op

-----------------------------------------------------------------------------
LEMMA CallKeepsIInv ==
  ASSUME IInv, NEW ops \in Seq(Asynchronous), Call(ops),
         finalized \/ \A j \in 1 .. Len(ops) : ops[j].kernel = "data"
  PROVE  IInv'
<1>1. /\ UNCHANGED <<mem, finalized, waiting>> /\ ~waiting
      /\ Issue("device", ops) /\ calls' = calls + 1
  BY DEF Call, HostRuns
<1>2. ops \in Seq(Operation) /\ pending \in Seq(Entry)
  BY DEF Asynchronous, IInv, QueueOK
<1>3. /\ Len(pending) \in Nat /\ Len(ops) \in Nat
      /\ pending' \in Seq(Entry)
      /\ Len(pending') = Len(pending) + Len(ops)
      /\ \A j \in 1 .. Len(pending) : pending'[j] = pending[j]
      /\ \A j \in 1 .. Len(ops) : pending'[Len(pending) + j].op = ops[j]
  BY <1>1, <1>2, IssueFacts
<1>4. ASSUME NEW j \in 1 .. Len(pending')
      PROVE  \/ j \in 1 .. Len(pending) /\ pending'[j] = pending[j]
             \/ /\ j - Len(pending) \in 1 .. Len(ops)
                /\ pending'[j].op = ops[j - Len(pending)]
                /\ pending'[j].op.kernel \notin {"memset", "copy"}
  <2>1. CASE j <= Len(pending)
    BY <1>3, <2>1
  <2>2. CASE j > Len(pending)
    <3> DEFINE k == j - Len(pending)
    <3>1. k \in 1 .. Len(ops) /\ j = Len(pending) + k
      BY <1>3, <2>2
    <3> HIDE DEF k
    <3>2. pending'[j].op = ops[k] /\ ops[k] \in Asynchronous
      BY <1>3, <3>1, ElementInSet
    <3> QED BY <3>1, <3>2 DEF Asynchronous, k
  <2> QED BY <1>3, <2>1, <2>2
<1>5. QueueOK'
  BY <1>1, <1>3 DEF IInv, QueueOK
<1>6. HostWaits'
  BY <1>1, <1>4 DEF IInv, HostWaits
<1>7. BeforeFinalize'
  BY <1>1, <1>4 DEF IInv, BeforeFinalize
<1>8. BehindMemsets'
  <2> SUFFICES ASSUME NEW e \in 1 .. Len(pending'), NEW j \in 1 .. Len(pending'),
                      e < j, pending'[j].op.kernel = "memset"
               PROVE  pending'[e].op.kernel \in {"data", "memset"}
    BY DEF BehindMemsets
  <2>1. j \in 1 .. Len(pending) /\ pending'[j] = pending[j]
    BY <1>4
  <2>2. e \in 1 .. Len(pending) /\ pending'[e] = pending[e]
    BY <1>3, <2>1
  <2> QED BY <2>1, <2>2 DEF IInv, BehindMemsets
<1>9. Zeroed'
  <2> SUFFICES ASSUME finalized, NEW loc \in Store, mem[loc] = Garbage
               PROVE  Zeroing(loc)'
    BY <1>1 DEF Zeroed
  <2>1. PICK e \in 1 .. Len(pending) :
          pending[e].op.kernel = "memset" /\ loc \in pending[e].op.dst
    BY DEF IInv, Zeroed, Zeroing
  <2>2. e \in 1 .. Len(pending') /\ pending'[e] = pending[e]
    BY <1>3
  <2> QED BY <2>1, <2>2 DEF Zeroing
<1> QED BY <1>5, <1>6, <1>7, <1>8, <1>9 DEF IInv

LEMMA FinalizeOpsAre ==
  /\ FinalizeOps \in Seq(Operation) /\ Len(FinalizeOps) = 4
  /\ \A j \in 1 .. 4 : FinalizeOps[j].kernel = "memset"
  /\ \A loc \in Store : \E j \in 1 .. 4 : loc \in FinalizeOps[j].dst
<1>1. /\ "Weight" \in Kind /\ "Grad" \in Kind /\ "AdamM" \in Kind /\ "AdamV" \in Kind
      /\ \A kind \in Kind : kind \in {"Weight", "Grad", "AdamM", "AdamV"}
  BY DEF Kind
<1> DEFINE op1 == Memset("Weight")
           op2 == Memset("Grad")
           op3 == Memset("AdamM")
           op4 == Memset("AdamV")
<1>2. op1 \in Operation /\ op2 \in Operation /\ op3 \in Operation /\ op4 \in Operation
  BY <1>1, MemsetType
<1>3. \A kind \in Kind : Memset(kind).kernel = "memset" /\ Memset(kind).dst = Span(kind)
  BY DEF Memset, Op
<1>4. FinalizeOps = <<op1, op2, op3, op4>>
  BY DEF FinalizeOps
<1>5. /\ op1.kernel = "memset" /\ op2.kernel = "memset"
      /\ op3.kernel = "memset" /\ op4.kernel = "memset"
  BY <1>1, <1>3
<1>6. \A loc \in Store : loc \in op1.dst \/ loc \in op2.dst \/ loc \in op3.dst \/ loc \in op4.dst
  BY <1>1, <1>3 DEF Store
<1> HIDE DEF op1, op2, op3, op4
<1>7. FinalizeOps \in Seq(Operation) /\ Len(FinalizeOps) = 4
  BY <1>2, <1>4
<1>8. /\ FinalizeOps[1] = op1 /\ FinalizeOps[2] = op2
      /\ FinalizeOps[3] = op3 /\ FinalizeOps[4] = op4
  BY <1>4
<1>9. \A j \in 1 .. 4 : j = 1 \/ j = 2 \/ j = 3 \/ j = 4
  OBVIOUS
<1>10. 1 \in 1 .. 4 /\ 2 \in 1 .. 4 /\ 3 \in 1 .. 4 /\ 4 \in 1 .. 4
  OBVIOUS
<1> QED BY <1>5, <1>6, <1>7, <1>8, <1>9, <1>10

LEMMA FinalizeKeepsIInv ==
  ASSUME IInv, Finalize
  PROVE  IInv'
<1>1. /\ UNCHANGED <<mem, waiting, calls>> /\ ~waiting /\ ~finalized /\ finalized'
      /\ finalized' = TRUE /\ Issue("default", FinalizeOps)
  BY DEF Finalize
<1>2. pending \in Seq(Entry)
  BY DEF IInv, QueueOK
<1>3. /\ Len(pending) \in Nat /\ Len(FinalizeOps) = 4
      /\ pending' \in Seq(Entry)
      /\ Len(pending') = Len(pending) + 4
      /\ \A j \in 1 .. Len(pending) : pending'[j] = pending[j]
      /\ \A j \in 1 .. 4 : pending'[Len(pending) + j].op = FinalizeOps[j]
  BY <1>1, <1>2, FinalizeOpsAre, IssueFacts
<1>4. ASSUME NEW j \in 1 .. Len(pending')
      PROVE  pending'[j].op.kernel \in {"data", "memset"}
  <2>1. CASE j <= Len(pending)
    <3>1. j \in 1 .. Len(pending) /\ pending'[j] = pending[j]
      BY <1>3, <2>1
    <3>2. pending[j].op.kernel \in {"data", "copy"} /\ pending[j].op.kernel # "copy"
      BY <1>1, <3>1 DEF IInv, BeforeFinalize, HostWaits
    <3> QED BY <3>1, <3>2
  <2>2. CASE j > Len(pending)
    <3> DEFINE k == j - Len(pending)
    <3>1. k \in 1 .. 4 /\ j = Len(pending) + k
      BY <1>3, <2>2
    <3> HIDE DEF k
    <3> QED BY <1>3, <3>1, FinalizeOpsAre
  <2> QED BY <1>3, <2>1, <2>2
<1>5. QueueOK'
  BY <1>1, <1>3 DEF IInv, QueueOK
<1>6. HostWaits'
  BY <1>1, <1>4 DEF HostWaits
<1>7. BeforeFinalize' /\ BehindMemsets'
  BY <1>1, <1>4 DEF BeforeFinalize, BehindMemsets
<1>8. Zeroed'
  <2> SUFFICES ASSUME NEW loc \in Store  PROVE Zeroing(loc)'
    BY DEF Zeroed
  <2>1. PICK j \in 1 .. 4 : loc \in FinalizeOps[j].dst
    BY FinalizeOpsAre
  <2>2. Len(pending) + j \in 1 .. Len(pending')
    BY <1>3
  <2>3. pending'[Len(pending) + j].op = FinalizeOps[j]
    BY <1>3
  <2>4. FinalizeOps[j].kernel = "memset"
    BY FinalizeOpsAre
  <2> QED BY <2>1, <2>2, <2>3, <2>4 DEF Zeroing
<1> QED BY <1>5, <1>6, <1>7, <1>8 DEF IInv

LEMMA DownloadKeepsIInv ==
  ASSUME IInv, NEW loc \in Observed, Download(loc)
  PROVE  IInv'
<1> DEFINE op == Op("copy", {Host}, <<loc>>)
           ops == <<op>>
<1>1. /\ UNCHANGED <<mem, finalized>> /\ ~waiting /\ waiting' = TRUE
      /\ Issue("default", ops) /\ calls' = calls + 1
  BY DEF Download, HostRuns, DownloadOps
<1>2. op \in Operation /\ op.kernel = "copy"
  <2>1. loc \in Location
    BY StoreStreamAssumption
  <2> QED BY <2>1, CopyType DEF Op
<1> HIDE DEF op
<1>3. ops \in Seq(Operation) /\ Len(ops) = 1 /\ ops[1] = op
  BY <1>2
<1>4. pending \in Seq(Entry)
  BY DEF IInv, QueueOK
<1> HIDE DEF ops
<1>5. /\ Len(pending) \in Nat
      /\ pending' \in Seq(Entry)
      /\ Len(pending') = Len(pending) + 1
      /\ \A j \in 1 .. Len(pending) : pending'[j] = pending[j]
      /\ \A j \in 1 .. 1 : pending'[Len(pending) + j].op = ops[j]
  BY <1>1, <1>3, <1>4, IssueFacts
<1>6. pending'[Len(pending) + 1].op = op
  BY <1>3, <1>5
<1>7. \A j \in 1 .. Len(pending') :
        \/ j \in 1 .. Len(pending) /\ pending'[j] = pending[j]
        \/ j = Len(pending') /\ pending'[j].op.kernel = "copy"
  BY <1>2, <1>5, <1>6
<1>8. QueueOK'
  BY <1>1, <1>5 DEF IInv, QueueOK
<1>9. HostWaits'
  <2>1. pending' # <<>>
    BY <1>5
  <2>2. \A j \in 1 .. Len(pending) : pending[j].op.kernel # "copy" /\ j # Len(pending')
    BY <1>1, <1>5 DEF IInv, HostWaits
  <2> QED BY <1>1, <1>7, <2>1, <2>2 DEF HostWaits
<1>10. BeforeFinalize'
  BY <1>1, <1>7 DEF IInv, BeforeFinalize
<1>11. BehindMemsets'
  <2> SUFFICES ASSUME NEW e \in 1 .. Len(pending'), NEW j \in 1 .. Len(pending'),
                      e < j, pending'[j].op.kernel = "memset"
               PROVE  pending'[e].op.kernel \in {"data", "memset"}
    BY DEF BehindMemsets
  <2>1. j \in 1 .. Len(pending) /\ pending'[j] = pending[j]
    BY <1>7
  <2>2. e \in 1 .. Len(pending) /\ pending'[e] = pending[e]
    BY <1>5, <2>1
  <2> QED BY <2>1, <2>2 DEF IInv, BehindMemsets
<1>12. Zeroed'
  <2> SUFFICES ASSUME finalized, NEW l \in Store, mem[l] = Garbage
               PROVE  Zeroing(l)'
    BY <1>1 DEF Zeroed
  <2>1. PICK e \in 1 .. Len(pending) :
          pending[e].op.kernel = "memset" /\ l \in pending[e].op.dst
    BY DEF IInv, Zeroed, Zeroing
  <2>2. e \in 1 .. Len(pending') /\ pending'[e] = pending[e]
    BY <1>5
  <2> QED BY <2>1, <2>2 DEF Zeroing
<1> QED BY <1>8, <1>9, <1>10, <1>11, <1>12 DEF IInv

LEMMA Applied ==
  ASSUME NEW m, NEW op, NEW loc \in Location
  PROVE  Apply(m, op)[loc] = IF loc \in op.dst THEN Value(m, op) ELSE m[loc]
  BY DEF Apply

LEMMA ExecuteKeepsIInv ==
  ASSUME IInv, NEW i \in 1 .. Len(pending), Execute(i)
  PROVE  IInv'
<1> DEFINE op == pending[1].op
<1>1. /\ Len(pending) \in Nat \ {0} /\ pending[1] \in Entry
      /\ pending' \in Seq(Entry)
      /\ Len(pending') = Len(pending) - 1
      /\ \A k \in 1 .. Len(pending') : pending'[k] = pending[k + 1]
      /\ mem' = Apply(mem, op)
      /\ waiting' = (waiting /\ op.dst # {Host})
      /\ UNCHANGED <<finalized, calls>>
  BY ExecuteFirst DEF IInv
<1>2. op \in Operation
  BY <1>1 DEF Entry
<1>3. /\ op.dst \subseteq Location
      /\ op.kernel = "copy" => op.dst = {Host}
      /\ op.kernel # "copy" => Host \notin op.dst
  BY <1>2 DEF Operation
<1>4. \A k \in 1 .. Len(pending') : k + 1 \in 1 .. Len(pending)
  BY <1>1
<1>5. QueueOK'
  <2>1. IsMemory(mem')
    BY <1>1 DEF Apply, IsMemory
  <2>2. waiting' \in BOOLEAN
    BY <1>1
  <2> QED BY <1>1, <2>1, <2>2 DEF IInv, QueueOK
<1>6. HostWaits'
  <2>1. CASE Len(pending) = 1
    <3>1. waiting => op.kernel = "copy"
      BY <2>1 DEF IInv, HostWaits
    <3>2. ~waiting'
      BY <1>1, <1>3, <3>1
    <3>3. Len(pending') = 0
      BY <1>1, <2>1
    <3> QED BY <3>2, <3>3 DEF HostWaits
  <2>2. CASE Len(pending) # 1
    <3>1. op.kernel # "copy"
      BY <1>1, <2>2 DEF IInv, HostWaits
    <3>2. waiting' = waiting
      BY <1>1, <1>3, <3>1 DEF IInv, QueueOK
    <3>3. pending' # <<>>
      BY <1>1, <2>2
    <3>4. ASSUME NEW k \in 1 .. Len(pending')
          PROVE  pending'[k].op.kernel = "copy" <=> waiting' /\ k = Len(pending')
      <4>1. pending[k + 1].op.kernel = "copy" <=> waiting /\ k + 1 = Len(pending)
        BY <1>4 DEF IInv, HostWaits
      <4> QED BY <1>1, <3>2, <4>1
    <3> QED BY <3>3, <3>4 DEF HostWaits
  <2> QED BY <2>1, <2>2
<1>7. BeforeFinalize'
  <2> SUFFICES ASSUME ~finalized, NEW k \in 1 .. Len(pending')
               PROVE  pending'[k].op.kernel \in {"data", "copy"}
    BY <1>1 DEF BeforeFinalize
  <2> QED BY <1>1, <1>4 DEF IInv, BeforeFinalize
<1>8. BehindMemsets'
  <2> SUFFICES ASSUME NEW e \in 1 .. Len(pending'), NEW j \in 1 .. Len(pending'),
                      e < j, pending'[j].op.kernel = "memset"
               PROVE  pending'[e].op.kernel \in {"data", "memset"}
    BY DEF BehindMemsets
  <2>1. e + 1 \in 1 .. Len(pending) /\ j + 1 \in 1 .. Len(pending) /\ e + 1 < j + 1
    BY <1>4
  <2>2. pending'[e] = pending[e + 1] /\ pending'[j] = pending[j + 1]
    BY <1>1
  <2> QED BY <2>1, <2>2 DEF IInv, BehindMemsets
<1>9. Zeroed'
  <2> SUFFICES ASSUME finalized, NEW loc \in Store, mem'[loc] = Garbage
               PROVE  Zeroing(loc)'
    BY <1>1 DEF Zeroed
  <2>1. loc \in Location /\ loc # Host
    BY Places
  <2>2. mem'[loc] = IF loc \in op.dst THEN Value(mem, op) ELSE mem[loc]
    BY <1>1, <2>1, Applied
  <2>3. loc \notin op.dst
    BY <1>2, <1>3, <2>1, <2>2, NotGarbage
  <2>4. PICK e \in 1 .. Len(pending) :
          pending[e].op.kernel = "memset" /\ loc \in pending[e].op.dst
    BY <2>2, <2>3 DEF IInv, Zeroed, Zeroing
  <2>5. e - 1 \in 1 .. Len(pending') /\ e - 1 + 1 = e
    BY <1>1, <2>3, <2>4
  <2>6. pending'[e - 1] = pending[e]
    BY <1>1, <2>5
  <2> QED BY <2>4, <2>5, <2>6 DEF Zeroing
<1> QED BY <1>5, <1>6, <1>7, <1>8, <1>9 DEF IInv

(* The calls, by what they put on the stream.                              *)
LEMMA CallCases ==
  ASSUME Next
  PROVE  \/ Finalize
         \/ \E ops \in Seq(Asynchronous) :
              /\ Call(ops)
              /\ finalized \/ \A j \in 1 .. Len(ops) : ops[j].kernel = "data"
         \/ \E loc \in Observed : Download(loc)
         \/ \E j \in 1 .. Len(pending) : Execute(j)
<1>1. CASE InitParams
  BY <1>1, InitParamsType DEF InitParams
<1>2. CASE Forward
  BY <1>2, ForwardType DEF Forward
<1>3. CASE Backward
  BY <1>3, BackwardType DEF Backward
<1>4. CASE Mlp
  BY <1>4, MlpType DEF Mlp
<1>5. CASE Upload
  BY <1>5, UploadType DEF Upload
<1> QED BY <1>1, <1>2, <1>3, <1>4, <1>5 DEF Next

THEOREM StreamInvariant == Spec => []IInv
<1>1. Init => IInv
  <2> SUFFICES ASSUME Init  PROVE IInv
    OBVIOUS
  <2>1. IsMemory(mem)
    BY DEF Init, IsMemory
  <2>2. pending \in Seq(Entry) /\ Len(pending) = 0
    BY DEF Init
  <2>3. QueueOK
    BY <2>1, <2>2 DEF Init, QueueOK
  <2>4. 1 .. Len(pending) = {} /\ ~waiting /\ ~finalized
    BY <2>2 DEF Init
  <2> QED BY <2>3, <2>4 DEF IInv, HostWaits, BeforeFinalize, BehindMemsets, Zeroed
<1>2. IInv /\ [Next]_vars => IInv'
  <2> SUFFICES ASSUME IInv, [Next]_vars  PROVE IInv'
    OBVIOUS
  <2>1. CASE Finalize
    BY <2>1, FinalizeKeepsIInv
  <2>2. ASSUME NEW ops \in Seq(Asynchronous), Call(ops),
               finalized \/ \A j \in 1 .. Len(ops) : ops[j].kernel = "data"
        PROVE  IInv'
    BY <2>2, CallKeepsIInv
  <2>3. ASSUME NEW loc \in Observed, Download(loc)  PROVE IInv'
    BY <2>3, DownloadKeepsIInv
  <2>4. ASSUME NEW j \in 1 .. Len(pending), Execute(j)  PROVE IInv'
    BY <2>4, ExecuteKeepsIInv
  <2>5. CASE UNCHANGED vars
    BY <2>5 DEF vars, IInv, QueueOK, HostWaits, BeforeFinalize, BehindMemsets, Zeroed,
                Zeroing
  <2> QED BY <2>1, <2>2, <2>3, <2>4, <2>5, CallCases
<1> QED BY <1>1, <1>2, PTL DEF Spec

(* No operation reads what the memsets of finalize() have yet to zero, or  *)
(* writes what they would then wipe out.                                   *)
THEOREM NothingBeforeZeroing == Spec => []ZeroedBeforeUse
<1>1. IInv => ZeroedBeforeUse
  <2> SUFFICES ASSUME IInv, NEW j \in 1 .. Len(pending), Executable(j),
                      pending[j].op.kernel # "memset"
               PROVE  /\ \A n \in 1 .. Len(pending[j].op.src) :
                           pending[j].op.src[n] \in Store /\ finalized =>
                             mem[pending[j].op.src[n]] # Garbage
                      /\ \A e \in 1 .. Len(pending) :
                           pending[e].op.kernel = "memset" =>
                             pending[e].op.dst \cap pending[j].op.dst = {}
    BY DEF ZeroedBeforeUse
  <2> DEFINE op == pending[1].op
  <2>1. j = 1 /\ Len(pending) \in Nat /\ op \in Operation
    <3>1. j = 1
      BY OnlyTheOldest DEF IInv
    <3>2. pending[j] \in Entry
      BY ElementInSet DEF IInv, QueueOK
    <3> QED BY <3>1, <3>2 DEF IInv, QueueOK, Entry
  <2>2. ASSUME NEW e \in 1 .. Len(pending), pending[e].op.kernel = "memset"
        PROVE  op.kernel = "data"
    <3>1. 1 \in 1 .. Len(pending) /\ 1 < e
      BY <2>1, <2>2
    <3> QED BY <2>1, <2>2, <3>1 DEF IInv, BehindMemsets
  <2>3. ASSUME NEW n \in 1 .. Len(op.src), op.src[n] \in Store, finalized
        PROVE  mem[op.src[n]] # Garbage
    <3>1. op.kernel # "data"
      BY <2>1, <2>3 DEF Operation
    <3>2. ~Zeroing(op.src[n])
      BY <2>2, <3>1 DEF Zeroing
    <3> QED BY <2>3, <3>2 DEF IInv, Zeroed
  <2>4. ASSUME NEW e \in 1 .. Len(pending), pending[e].op.kernel = "memset"
        PROVE  pending[e].op.dst \cap op.dst = {}
    <3>1. op.dst \cap Store = {}
      BY <2>1, <2>2, <2>4 DEF Operation
    <3>2. pending[e].op.dst \subseteq Store
      <4>1. pending[e] \in Entry
        BY ElementInSet DEF IInv, QueueOK
      <4>2. pending[e].op \in Operation
        BY <4>1 DEF Entry
      <4> QED BY <2>4, <4>2 DEF Operation
    <3> QED BY <3>1, <3>2
  <2> QED BY <2>1, <2>3, <2>4
<1> QED BY <1>1, StreamInvariant, PTL

-----------------------------------------------------------------------------
(* What the queue will have done to the memory.                            *)
LEMMA RunKeeps ==
  ASSUME NEW m, NEW ops, Len(ops) \in Nat, NEW loc \in Location,
         \A j \in 1 .. Len(ops) : loc \notin ops[j].dst
  PROVE  Run(m, ops)[loc] = m[loc]
<1>1. PICK g : /\ Run(m, ops) = g[Len(ops)] /\ g[0] = m
               /\ \A n \in 0 .. Len(ops) - 1 : g[n + 1] = Apply(g[n], ops[n + 1])
  BY RunSteps
<1> DEFINE S == {n \in Nat : n <= Len(ops) => g[n][loc] = m[loc]}
<1>3. 0 \in S
  BY <1>1
<1>4. ASSUME NEW n \in Nat, n \in S  PROVE n + 1 \in S
  <2>1. CASE n + 1 <= Len(ops)
    <3>1. n \in 0 .. Len(ops) - 1 /\ n + 1 \in 1 .. Len(ops) /\ g[n][loc] = m[loc]
      BY <1>4, <2>1
    <3>2. g[n + 1] = Apply(g[n], ops[n + 1]) /\ loc \notin ops[n + 1].dst
      BY <1>1, <3>1
    <3>3. g[n + 1][loc] = g[n][loc]
      BY <3>2, Applied
    <3> QED BY <3>1, <3>3
  <2> QED BY <2>1
<1> HIDE DEF S
<1>5. Nat \subseteq S
  BY <1>3, <1>4, SetInduction
<1>6. g[Len(ops)][loc] = m[loc]
  BY <1>5 DEF S
<1> QED BY <1>1, <1>6

LEMMA RunShape ==
  ASSUME NEW m, NEW ops, Len(ops) \in Nat
  PROVE  IsMemory(m) => IsMemory(Run(m, ops))
<1>1. PICK g : /\ Run(m, ops) = g[Len(ops)] /\ g[0] = m
               /\ \A n \in 0 .. Len(ops) - 1 : g[n + 1] = Apply(g[n], ops[n + 1])
  BY RunSteps
<1>2. CASE Len(ops) = 0
  <2>1. Run(m, ops) = m
    BY <1>2, RunNone
  <2> QED BY <2>1
<1>3. CASE Len(ops) # 0
  <2> DEFINE n == Len(ops) - 1
  <2>1. n \in 0 .. Len(ops) - 1 /\ n + 1 = Len(ops)
    BY <1>3
  <2>2. g[n + 1] = Apply(g[n], ops[n + 1])
    BY <1>1, <2>1
  <2>3. Run(m, ops) = Apply(g[n], ops[n + 1])
    BY <1>1, <2>1, <2>2
  <2> HIDE DEF n
  <2> QED BY <2>3 DEF Apply, IsMemory
<1> QED BY <1>2, <1>3

LEMMA OpsOf ==
  ASSUME NEW q \in Seq(Entry)
  PROVE  LET ops == [j \in 1 .. Len(q) |-> q[j].op] IN
           /\ Len(q) \in Nat /\ ops \in Seq(Operation) /\ Len(ops) = Len(q)
           /\ \A j \in 1 .. Len(q) : ops[j] = q[j].op
<1> DEFINE ops == [j \in 1 .. Len(q) |-> q[j].op]
<1>1. ASSUME NEW j \in 1 .. Len(q)  PROVE q[j].op \in Operation
  <2>1. q[j] \in Entry
    BY ElementInSet
  <2> QED BY <2>1 DEF Entry
<1>2. Len(q) \in Nat /\ ops \in [1 .. Len(q) -> Operation]
  BY <1>1
<1>3. \A j \in 1 .. Len(q) : ops[j] = q[j].op
  OBVIOUS
<1> HIDE DEF ops
<1>4. ops \in Seq(Operation) /\ Len(ops) = Len(q)
  BY <1>2
<1> QED BY <1>2, <1>3, <1>4 DEF ops

LEMMA EventualOfIssue ==
  ASSUME QueueOK, NEW ops \in Seq(Operation), NEW stream \in {"default", "device"},
         Issue(stream, ops), UNCHANGED mem
  PROVE  Eventual' = Run(Eventual, ops)
<1>1. pending \in Seq(Entry)
  BY DEF QueueOK
<1>2. /\ Len(pending) \in Nat /\ Len(ops) \in Nat
      /\ pending' \in Seq(Entry)
      /\ Len(pending') = Len(pending) + Len(ops)
      /\ \A j \in 1 .. Len(pending) : pending'[j] = pending[j]
      /\ \A j \in 1 .. Len(ops) : pending'[Len(pending) + j].op = ops[j]
  BY <1>1, IssueFacts
<1>3. Len(Ops) = Len(pending) /\ \A j \in 1 .. Len(pending) : Ops[j] = pending[j].op
  BY <1>1, OpsOf DEF Ops
<1>4. Len(Ops') = Len(pending') /\ \A j \in 1 .. Len(pending') : Ops'[j] = pending'[j].op
  BY <1>2, OpsOf DEF Ops
<1>5. \A j \in 1 .. Len(Ops) : Ops'[j] = Ops[j]
  BY <1>2, <1>3, <1>4
<1>6. ASSUME NEW j \in 1 .. Len(ops)  PROVE Ops'[Len(Ops) + j] = ops[j]
  <2>1. Len(pending) + j \in 1 .. Len(pending')
    BY <1>2
  <2>2. Ops'[Len(pending) + j] = pending'[Len(pending) + j].op
    BY <1>4, <2>1
  <2> QED BY <1>2, <1>3, <2>2
<1>7. /\ Len(Ops) \in Nat /\ Len(ops) \in Nat /\ Len(Ops') = Len(Ops) + Len(ops)
      /\ \A j \in 1 .. Len(Ops) : Ops'[j] = Ops[j]
      /\ \A j \in 1 .. Len(ops) : Ops'[Len(Ops) + j] = ops[j]
  BY <1>2, <1>3, <1>4, <1>5, <1>6
<1>8. Run(mem, Ops') = Run(Run(mem, Ops), ops)
  BY <1>7, RunSplit
<1> QED BY <1>8 DEF Eventual

LEMMA EventualOfExecute ==
  ASSUME QueueOK, NEW j \in 1 .. Len(pending), Execute(j)
  PROVE  Eventual' = Eventual
<1>1. pending \in Seq(Entry)
  BY DEF QueueOK
<1>2. /\ Len(pending) \in Nat \ {0}
      /\ pending' \in Seq(Entry)
      /\ Len(pending') = Len(pending) - 1
      /\ \A k \in 1 .. Len(pending') : pending'[k] = pending[k + 1]
      /\ mem' = Apply(mem, pending[1].op)
  BY ExecuteFirst
<1>3. Len(Ops) = Len(pending) /\ \A k \in 1 .. Len(pending) : Ops[k] = pending[k].op
  BY <1>1, OpsOf DEF Ops
<1>4. Len(Ops') = Len(pending') /\ \A k \in 1 .. Len(pending') : Ops'[k] = pending'[k].op
  BY <1>2, OpsOf DEF Ops
<1>5. /\ Len(Ops') \in Nat /\ Len(Ops) = Len(Ops') + 1
      /\ \A k \in 1 .. Len(Ops') : Ops'[k] = Ops[k + 1]
  BY <1>2, <1>3, <1>4
<1>6. Run(mem, Ops) = Run(Apply(mem, Ops[1]), Ops')
  BY <1>5, RunFirst
<1>7. Ops[1] = pending[1].op
  BY <1>2, <1>3
<1> QED BY <1>2, <1>6, <1>7 DEF Eventual

(* Nothing that is pending once a download has returned writes the host's  *)
(* result.                                                                 *)
LEMMA HostSettled ==
  ASSUME IInv, ~waiting
  PROVE  Eventual[Host] = mem[Host]
<1>1. pending \in Seq(Entry)
  BY DEF IInv, QueueOK
<1>2. /\ Len(pending) \in Nat /\ Ops \in Seq(Operation) /\ Len(Ops) = Len(pending)
      /\ \A j \in 1 .. Len(pending) : Ops[j] = pending[j].op
  BY <1>1, OpsOf DEF Ops
<1>3. ASSUME NEW j \in 1 .. Len(Ops)  PROVE Host \notin Ops[j].dst
  <2>1. Ops[j] \in Operation /\ Ops[j].kernel # "copy"
    BY <1>2, ElementInSet DEF IInv, HostWaits
  <2> QED BY <2>1 DEF Operation
<1>4. Host \in Location /\ Len(Ops) \in Nat
  BY <1>2, Places
<1>5. Run(mem, Ops)[Host] = mem[Host]
  BY <1>3, <1>4, RunKeeps
<1> QED BY <1>5 DEF Eventual

(* A call's effect on the memory as it will be.                            *)
LEMMA EventualOfCall ==
  ASSUME IInv, NEW ops \in Seq(Asynchronous), Call(ops)
  PROVE  Eventual' = Run(Eventual, ops)
<1>1. ops \in Seq(Operation)
  BY DEF Asynchronous
<1> QED BY <1>1, EventualOfIssue DEF IInv, Call

LEMMA EventualOfDownload ==
  ASSUME IInv, NEW loc \in Observed, Download(loc)
  PROVE  Eventual' = Run(Eventual, DownloadOps(loc))
<1> DEFINE op == Op("copy", {Host}, <<loc>>)
<1>1. op \in Operation
  BY StoreStreamAssumption, CopyType
<1>2. DownloadOps(loc) = <<op>>
  BY DEF DownloadOps
<1> HIDE DEF op
<1>3. <<op>> \in Seq(Operation)
  BY <1>1
<1> QED BY <1>2, <1>3, EventualOfIssue DEF IInv, Download

LEMMA DownloadKeeps ==
  ASSUME IInv, NEW loc \in Observed, Download(loc), NEW l \in Store
  PROVE  Eventual'[l] = Eventual[l]
<1> DEFINE op == Op("copy", {Host}, <<loc>>)
<1>1. op.dst = {Host}
  BY DEF Op
<1> HIDE DEF op
<1>2. DownloadOps(loc) = <<op>>
  BY DEF DownloadOps, op
<1>3. Eventual' = Apply(Eventual, op)
  BY <1>2, EventualOfDownload, RunOne
<1>4. l \in Location /\ l \notin op.dst
  BY <1>1, Places
<1> QED BY <1>3, <1>4, Applied

(* Each call adds to the memory as it will be just what it was meant to do *)
(* at the time, and no execution changes it: so a download, which leaves   *)
(* nothing pending for the host, returns what was meant when it was called.*)
THEOREM DownloadsAreCurrent == Spec => []DownloadCurrent
<1> DEFINE AsMeant == meant = Eventual
<1>1. Init => AsMeant
  <2> SUFFICES ASSUME Init  PROVE meant = Eventual
    OBVIOUS
  <2>1. Len(Ops) = 0
    BY DEF Init, Ops
  <2> QED BY <2>1, RunNone DEF Init, Eventual
<1>2. IInv /\ AsMeant /\ [Next]_vars => AsMeant'
  <2> SUFFICES ASSUME IInv, meant = Eventual, [Next]_vars  PROVE meant' = Eventual'
    OBVIOUS
  <2>1. CASE Finalize
    <3>1. Eventual' = Run(Eventual, FinalizeOps)
      BY <2>1, EventualOfIssue, FinalizeOpsAre DEF IInv, Finalize
    <3> QED BY <2>1, <3>1 DEF Finalize, Issue
  <2>2. ASSUME NEW ops \in Seq(Asynchronous), Call(ops)  PROVE meant' = Eventual'
    <3>1. Eventual' = Run(Eventual, ops)
      BY <2>2, EventualOfCall
    <3> QED BY <2>2, <3>1 DEF Call, Issue
  <2>3. ASSUME NEW loc \in Observed, Download(loc)  PROVE meant' = Eventual'
    <3>1. Eventual' = Run(Eventual, DownloadOps(loc))
      BY <2>3, EventualOfDownload
    <3> QED BY <2>3, <3>1 DEF Download, Issue
  <2>4. ASSUME NEW j \in 1 .. Len(pending), Execute(j)  PROVE meant' = Eventual'
    BY <2>4, EventualOfExecute DEF IInv, Execute
  <2>5. CASE UNCHANGED vars
    BY <2>5 DEF vars, Eventual, Ops
  <2> QED BY <2>1, <2>2, <2>3, <2>4, <2>5, CallCases
<1>3. IInv /\ AsMeant => DownloadCurrent
  BY HostSettled DEF DownloadCurrent
<1> HIDE DEF AsMeant
<1> QED BY <1>1, <1>2, <1>3, StreamInvariant, PTL DEF Spec

-----------------------------------------------------------------------------
(* The refinement.  StoreCalls has the operations of DeviceMemory under    *)
(* names of its own.                                                       *)
LEMMA SameMemory ==
  /\ Calls!Location = Location /\ Calls!Garbage = Garbage /\ Calls!Zero = Zero
  /\ Calls!Kind = Kind /\ Calls!Host = Host /\ Calls!FinalizeOps = FinalizeOps
  /\ Calls!Tensors = Tensors
  BY DEF Calls!Location, Location, Calls!Store, Store, Calls!Span, Span, Calls!Kind, Kind,
         Calls!Buffer, Buffer, Calls!Host, Host, Calls!Garbage, Garbage, Calls!Zero, Zero,
         Calls!Tensors, Tensors, Calls!FinalizeOps, FinalizeOps, Calls!Memset, Memset,
         Calls!Op, Op

LEMMA SameRun ==
  /\ \A m, op : Calls!Value(m, op) = Value(m, op)
  /\ \A m, ops : Calls!Run(m, ops) = Run(m, ops)
<1>1. ASSUME NEW m, NEW op  PROVE Calls!Value(m, op) = Value(m, op)
  BY DEF Calls!Value, Value, Calls!Zero, Zero, Calls!Sum, Sum
<1>2. ASSUME NEW m, NEW ops  PROVE Calls!Run(m, ops) = Run(m, ops)
  BY DEF Calls!Run, Run, Calls!Apply, Apply, Calls!Value, Value, Calls!Location, Location,
         Calls!Store, Store, Calls!Span, Span, Calls!Kind, Kind, Calls!Buffer, Buffer,
         Calls!Host, Host, Calls!Zero, Zero, Calls!Sum, Sum
<1> QED BY <1>1, <1>2

LEMMA SameOps ==
  /\ \A p : Calls!Fill(p) = Fill(p) /\ Calls!Grad(p) = Grad(p) /\ Calls!Weight(p) = Weight(p)
  /\ \A p, y, x : Calls!ForwardOps(p, y, x) = ForwardOps(p, y, x)
  /\ \A p, dx, dy, x : Calls!BackwardOps(p, dx, dy, x) = BackwardOps(p, dx, dy, x)
  /\ \A up, down, y, h, x : Calls!MlpOps(up, down, y, h, x) = MlpOps(up, down, y, h, x)
  /\ \A b : Calls!UploadOps(b) = UploadOps(b)
  /\ \A loc : Calls!DownloadOps(loc) = DownloadOps(loc)
  BY DEF Calls!Fill, Fill, Calls!Grad, Grad, Calls!Weight, Weight, Calls!ForwardOps,
         ForwardOps, Calls!BackwardOps, BackwardOps, Calls!MlpOps, MlpOps,
         Calls!UploadOps, UploadOps, Calls!DownloadOps, DownloadOps, Calls!Op, Op,
         Calls!Buffer, Buffer, Calls!Host, Host

LEMMA RunWrites ==
  ASSUME NEW m, NEW ops, Len(ops) \in Nat, NEW loc \in Location, NEW v,
         \A j \in 1 .. Len(ops) : loc \in ops[j].dst => \A w : Value(w, ops[j]) = v,
         NEW i \in 1 .. Len(ops), loc \in ops[i].dst
  PROVE  Run(m, ops)[loc] = v
<1>1. PICK g : /\ Run(m, ops) = g[Len(ops)] /\ g[0] = m
               /\ \A n \in 0 .. Len(ops) - 1 : g[n + 1] = Apply(g[n], ops[n + 1])
  BY RunSteps
<1> DEFINE S == {n \in Nat : n <= Len(ops) /\ i <= n => g[n][loc] = v}
<1>2. 0 \in S
  OBVIOUS
<1>3. ASSUME NEW n \in Nat, n \in S  PROVE n + 1 \in S
  <2>1. CASE n + 1 <= Len(ops) /\ i <= n + 1
    <3>1. n \in 0 .. Len(ops) - 1 /\ n + 1 \in 1 .. Len(ops)
      BY <2>1
    <3>2. g[n + 1] = Apply(g[n], ops[n + 1])
      BY <1>1, <3>1
    <3>3. g[n + 1][loc] = IF loc \in ops[n + 1].dst THEN Value(g[n], ops[n + 1]) ELSE g[n][loc]
      BY <3>2, Applied
    <3>4. CASE loc \in ops[n + 1].dst
      <4>1. \A w : Value(w, ops[n + 1]) = v
        BY <3>1, <3>4
      <4> QED BY <3>3, <3>4, <4>1
    <3>5. CASE loc \notin ops[n + 1].dst
      <4>1. i <= n
        BY <2>1, <3>5
      <4>2. g[n][loc] = v
        BY <1>3, <2>1, <4>1
      <4> QED BY <3>3, <3>5, <4>2
    <3> QED BY <3>4, <3>5
  <2> QED BY <2>1
<1> HIDE DEF S
<1>4. Nat \subseteq S
  BY <1>2, <1>3, SetInduction
<1>5. g[Len(ops)][loc] = v
  BY <1>4 DEF S
<1> QED BY <1>1, <1>5

(* The fills of init_params touch different locations, so their order does *)
(* not matter.                                                             *)
LEMMA RunFills ==
  ASSUME NEW m, NEW loc \in Location
  PROVE  Run(m, [j \in 1 .. Len(Order) |-> Fill(Order[j])])[loc]
           = LET writers == {p \in Params : loc \in Fill(p).dst} IN
               IF writers = {} THEN m[loc]
               ELSE Value(m, Fill(CHOOSE p \in writers : TRUE))
<1> DEFINE ops == [j \in 1 .. Len(Order) |-> Fill(Order[j])]
           writers == {p \in Params : loc \in Fill(p).dst}
<1>1. ops \in Seq(Asynchronous)
  BY InitParamsType
<1>2. Len(Order) \in Nat /\ DOMAIN ops = 1 .. Len(Order)
  BY StoreStreamAssumption
<1>3. Len(ops) = Len(Order)
  BY <1>2
<1>4. \A j \in 1 .. Len(Order) : Order[j] \in Params /\ ops[j] = Fill(Order[j])
  BY StoreStreamAssumption, ElementInSet
<1>5. \A p : Fill(p).kernel = "init" /\ Fill(p).dst = {Weight(p)}
  BY DEF Fill, Op
<1>6. \A w, p : Value(w, Fill(p)) = <<"init", {Weight(p)}>>
  BY <1>5, Values
<1> HIDE DEF ops
<1>7. CASE writers = {}
  <2>1. \A j \in 1 .. Len(ops) : loc \notin ops[j].dst
    BY <1>3, <1>4, <1>7
  <2>2. Len(ops) \in Nat
    BY <1>2, <1>3
  <2>3. Run(m, ops)[loc] = m[loc]
    BY <2>1, <2>2, RunKeeps
  <2> QED BY <1>7, <2>3 DEF ops
<1>8. CASE writers # {}
  <2> DEFINE p == CHOOSE q \in writers : TRUE
             v == <<"init", {loc}>>
  <2>1. p \in writers
    BY <1>8
  <2> HIDE DEF p
  <2>2. p \in Params /\ loc = Weight(p)
    BY <1>5, <2>1
  <2>3. PICK i \in 1 .. Len(Order) : Order[i] = p
    BY <2>2, StoreStreamAssumption
  <2>4. i \in 1 .. Len(ops) /\ loc \in ops[i].dst /\ Len(ops) \in Nat
    BY <1>2, <1>3, <1>4, <1>5, <2>2, <2>3
  <2>5. ASSUME NEW j \in 1 .. Len(ops), loc \in ops[j].dst
        PROVE  \A w : Value(w, ops[j]) = v
    <3>1. ops[j] = Fill(Order[j])
      BY <1>3, <1>4
    <3>2. loc = Weight(Order[j])
      BY <1>5, <2>5, <3>1
    <3> QED BY <1>6, <3>1, <3>2
  <2>6. Value(m, Fill(p)) = v
    BY <1>6, <2>2
  <2> HIDE DEF v
  <2>7. Run(m, ops)[loc] = v
    BY <2>4, <2>5, RunWrites
  <2> QED BY <1>8, <2>6, <2>7 DEF ops, p
<1> QED BY <1>7, <1>8

LEMMA CallImplements ==
  ASSUME IInv, NEW ops \in Seq(Operation), NEW stream \in {"default", "device"},
         Issue(stream, ops), UNCHANGED <<mem, finalized>>
  PROVE  Calls!Call(ops)
<1>1. Eventual' = Run(Eventual, ops)
  BY EventualOfIssue DEF IInv
<1>2. Eventual' = Calls!Run(Eventual, ops)
  BY <1>1, SameRun
<1> QED BY <1>2 DEF Calls!Call

LEMMA AsynchronousImplements ==
  ASSUME IInv, NEW ops \in Seq(Asynchronous), Call(ops)
  PROVE  Calls!Call(ops)
<1>1. ops \in Seq(Operation)
  BY DEF Asynchronous
<1> QED BY <1>1, CallImplements DEF Call

LEMMA FinalizeImplements ==
  ASSUME IInv, Finalize
  PROVE  Calls!Finalize
<1>1. Eventual' = Run(Eventual, FinalizeOps)
  BY EventualOfIssue, FinalizeOpsAre DEF IInv, Finalize
<1>2. Eventual' = Calls!Run(Eventual, Calls!FinalizeOps)
  BY <1>1, SameRun, SameMemory
<1> QED BY <1>2 DEF Calls!Finalize, Finalize

LEMMA EventualShape ==
  ASSUME IInv
  PROVE  IsMemory(Eventual)
<1>1. pending \in Seq(Entry) /\ IsMemory(mem)
  BY DEF IInv, QueueOK
<1>2. Len(Ops) \in Nat
  BY <1>1, OpsOf DEF Ops
<1> QED BY <1>1, <1>2, RunShape DEF Eventual

LEMMA InitParamsImplements ==
  ASSUME IInv, InitParams
  PROVE  Calls!InitParams
<1> DEFINE ops == [j \in 1 .. Len(Order) |-> Fill(Order[j])]
           Filled(loc) ==
             LET writers == {p \in Params : loc \in Fill(p).dst} IN
               IF writers = {} THEN Eventual[loc]
               ELSE Value(Eventual, Fill(CHOOSE p \in writers : TRUE))
<1>1. ops \in Seq(Asynchronous)
  BY InitParamsType
<1>2. finalized /\ Call(ops)
  BY DEF InitParams
<1> HIDE DEF ops
<1>3. Calls!Call(ops)
  BY <1>1, <1>2, AsynchronousImplements
<1>4. Eventual' = Run(Eventual, ops) /\ UNCHANGED finalized
  BY <1>3, SameRun DEF Calls!Call
<1>5. \A loc \in Location : Run(Eventual, ops)[loc] = Filled(loc)
  BY RunFills DEF ops
<1>6. IsMemory(Run(Eventual, ops))
  <2>1. ops \in Seq(Asynchronous) /\ Len(ops) \in Nat
    BY <1>1
  <2> QED BY <2>1, EventualShape, RunShape
<1>7. Eventual' = [loc \in Location |-> Filled(loc)]
  BY <1>4, <1>5, <1>6 DEF IsMemory
<1> QED BY <1>2, <1>4, <1>7, SameMemory, SameRun, SameOps DEF Calls!InitParams

(* Every step is the call's step of StoreCalls, or changes nothing there.  *)
LEMMA StepImplements ==
  ASSUME IInv, [Next]_vars
  PROVE  [Calls!Next]_Calls!vars
<1>1. CASE Finalize
  BY <1>1, FinalizeImplements DEF Calls!Next
<1>2. CASE InitParams
  BY <1>2, InitParamsImplements DEF Calls!Next
<1>3. CASE Forward
  <2>1. PICK p \in Params, y \in Tensors, x \in Tensors :
          finalized /\ y # x /\ Call(ForwardOps(p, y, x))
    BY <1>3 DEF Forward
  <2>2. Calls!Call(Calls!ForwardOps(p, y, x))
    BY <2>1, ForwardType, AsynchronousImplements, SameOps
  <2>3. Calls!Forward
    BY <2>1, <2>2, SameMemory DEF Calls!Forward
  <2> QED BY <2>3 DEF Calls!Next
<1>4. CASE Backward
  <2>1. PICK p \in Params, dx \in Tensors, dy \in Tensors, x \in Tensors :
          finalized /\ dx \notin {dy, x} /\ Call(BackwardOps(p, dx, dy, x))
    BY <1>4 DEF Backward
  <2>2. Calls!Call(Calls!BackwardOps(p, dx, dy, x))
    BY <2>1, BackwardType, AsynchronousImplements, SameOps
  <2>3. Calls!Backward
    BY <2>1, <2>2, SameMemory DEF Calls!Backward, Calls!BackwardCall
  <2> QED BY <2>3 DEF Calls!Next
<1>5. CASE Mlp
  <2>1. PICK up \in Params, down \in Params, y \in Tensors, h \in Tensors, x \in Tensors :
          finalized /\ up # down /\ h \notin {x, y} /\ Call(MlpOps(up, down, y, h, x))
    BY <1>5 DEF Mlp
  <2>2. Calls!Call(Calls!MlpOps(up, down, y, h, x))
    BY <2>1, MlpType, AsynchronousImplements, SameOps
  <2>3. Calls!Mlp
    BY <2>1, <2>2, SameMemory DEF Calls!Mlp, Calls!MlpForward
  <2> QED BY <2>3 DEF Calls!Next
<1>6. CASE Upload
  <2>1. PICK b \in Buffers : Call(UploadOps(b))
    BY <1>6 DEF Upload
  <2>2. Calls!Call(Calls!UploadOps(b))
    BY <2>1, UploadType, AsynchronousImplements, SameOps
  <2> QED BY <2>2 DEF Calls!Next, Calls!Upload
<1>7. ASSUME NEW loc \in Observed, Download(loc)  PROVE Calls!Next
  <2>1. loc \in Location \ {Host}
    BY StoreStreamAssumption
  <2> DEFINE op == Op("copy", {Host}, <<loc>>)
  <2>2. op \in Operation
    BY <2>1, CopyType
  <2> HIDE DEF op
  <2>3. <<op>> \in Seq(Operation)
    BY <2>2
  <2>4. DownloadOps(loc) = <<op>>
    BY DEF DownloadOps, op
  <2>5. Calls!Call(Calls!DownloadOps(loc))
    BY <1>7, <2>3, <2>4, CallImplements, SameOps DEF Download
  <2>6. Calls!Download
    BY <2>1, <2>5, SameMemory DEF Calls!Download
  <2> QED BY <2>6 DEF Calls!Next
<1>8. ASSUME NEW j \in 1 .. Len(pending), Execute(j)  PROVE UNCHANGED Calls!vars
  BY <1>8, EventualOfExecute DEF IInv, Execute, Calls!vars
<1>9. CASE UNCHANGED vars
  BY <1>9 DEF vars, Calls!vars, Eventual, Ops
<1> QED BY <1>1, <1>2, <1>3, <1>4, <1>5, <1>6, <1>7, <1>8, <1>9 DEF Next

(* From the outside, every call has had its effect when it returns.        *)
THEOREM StreamImplementsCalls == Spec => ImplementsCalls
<1>1. Init => Calls!Init
  <2> SUFFICES ASSUME Init  PROVE Calls!Init
    OBVIOUS
  <2>1. Len(Ops) = 0
    BY DEF Init, Ops
  <2>2. Eventual = mem
    BY <2>1, RunNone DEF Eventual
  <2> QED BY <2>2, SameMemory DEF Init, Calls!Init
<1>2. IInv /\ [Next]_vars => [Calls!Next]_Calls!vars
  BY StepImplements
<1> QED BY <1>1, <1>2, StreamInvariant, PTL DEF Spec, ImplementsCalls, Calls!Spec

-----------------------------------------------------------------------------
(* What the device keeps of the store.                                     *)
LEMMA PaddingKept ==
  ASSUME NEW m, NEW ops \in Seq(Operation), NEW loc \in Padding,
         \A j \in 1 .. Len(ops) : ops[j].kernel # "memset"
  PROVE  Run(m, ops)[loc] = m[loc]
<1>1. ASSUME NEW j \in 1 .. Len(ops)  PROVE loc \notin ops[j].dst
  <2>1. ops[j] \in Operation
    BY ElementInSet
  <2> QED BY <2>1 DEF Operation
<1>2. loc \in Location /\ Len(ops) \in Nat
  BY Places, Slices
<1> QED BY <1>1, <1>2, RunKeeps

LEMMA FinalizeZeroes ==
  ASSUME NEW m, NEW loc \in Store
  PROVE  Run(m, FinalizeOps)[loc] = Zero
<1>1. PICK i \in 1 .. 4 : loc \in FinalizeOps[i].dst
  BY FinalizeOpsAre
<1>2. \A j \in 1 .. 4 : \A w : Value(w, FinalizeOps[j]) = Zero
  BY FinalizeOpsAre, Values
<1>3. loc \in Location /\ Len(FinalizeOps) = 4 /\ 4 \in Nat
  BY Places, FinalizeOpsAre
<1> DEFINE ops == FinalizeOps
<1>4. /\ Len(ops) \in Nat /\ i \in 1 .. Len(ops) /\ loc \in ops[i].dst
      /\ \A j \in 1 .. Len(ops) : loc \in ops[j].dst => \A w : Value(w, ops[j]) = Zero
  BY <1>1, <1>2, <1>3
<1> HIDE DEF ops
<1>5. loc \in Location
  BY <1>3
<1>6. Run(m, ops)[loc] = Zero
  BY ONLY <1>4, <1>5, RunWrites
<1> QED BY <1>6 DEF ops

(* Only the memsets write the padding, and nothing after finalize() is a   *)
(* memset, so that the padding stays zero for the store's lifetime.        *)
THEOREM PaddingIsZero == Spec => []PaddingStaysZero
<1> DEFINE Inv == finalized => \A loc \in Padding : Eventual[loc] = Zero
<1>1. Init => Inv
  BY DEF Init
<1>2. IInv /\ Inv /\ [Next]_vars => Inv'
  <2> SUFFICES ASSUME IInv, Inv, [Next]_vars, finalized', NEW loc \in Padding
               PROVE  Eventual'[loc] = Zero
    OBVIOUS
  <2>1. CASE Finalize
    <3>1. Eventual' = Run(Eventual, FinalizeOps)
      BY <2>1, EventualOfIssue, FinalizeOpsAre DEF IInv, Finalize
    <3>2. loc \in Store
      BY Slices
    <3> QED BY <3>1, <3>2, FinalizeZeroes
  <2>2. ASSUME NEW ops \in Seq(Asynchronous), Call(ops)  PROVE Eventual'[loc] = Zero
    <3>1. ops \in Seq(Operation)
      BY DEF Asynchronous
    <3>2. \A j \in 1 .. Len(ops) : ops[j].kernel # "memset"
      <4> SUFFICES ASSUME NEW j \in 1 .. Len(ops)  PROVE ops[j].kernel # "memset"
        OBVIOUS
      <4>1. ops[j] \in Asynchronous
        BY ElementInSet
      <4> QED BY <4>1 DEF Asynchronous
    <3>3. Eventual' = Run(Eventual, ops)
      BY <2>2, EventualOfCall
    <3> QED BY <2>2, <3>1, <3>2, <3>3, PaddingKept DEF Call
  <2>3. ASSUME NEW l \in Observed, Download(l)  PROVE Eventual'[loc] = Zero
    BY <2>3, DownloadKeeps, Slices DEF Download
  <2>4. ASSUME NEW j \in 1 .. Len(pending), Execute(j)  PROVE Eventual'[loc] = Zero
    BY <2>4, EventualOfExecute DEF IInv, Execute
  <2>5. CASE UNCHANGED vars
    BY <2>5 DEF vars, Eventual, Ops
  <2> QED BY <2>1, <2>2, <2>3, <2>4, <2>5, CallCases
<1>3. Inv => PaddingStaysZero
  BY SameMemory DEF PaddingStaysZero, Calls!PaddingStaysZero, Padding
<1> HIDE DEF Inv
<1> QED BY <1>1, <1>2, <1>3, StreamInvariant, PTL DEF Spec

LEMMA GradsKept ==
  ASSUME NEW m, NEW ops \in Seq(Asynchronous), NEW p \in Params,
         \A j \in 1 .. Len(ops) : ops[j].kernel # "accumulate"
  PROVE  Run(m, ops)[Grad(p)] = m[Grad(p)]
<1>1. ASSUME NEW j \in 1 .. Len(ops)  PROVE Grad(p) \notin ops[j].dst
  <2>1. ops[j] \in Asynchronous
    BY ElementInSet
  <2> QED BY <2>1 DEF Asynchronous, Operation, Grads
<1>2. Grad(p) \in Location /\ Len(ops) \in Nat
  BY Places
<1> QED BY <1>1, <1>2, RunKeeps

(* What the second product of backward() adds, and what the layers of the  *)
(* MLP leave in h and in y.                                                *)
Product(m, dy, x) == <<"dyT x", m[dy], m[x]>>
Activation(m, up, x) == <<"gelu", <<"x WT", m[x], m[Weight(up)]>>>>
Output(m, up, down, x) == <<"x WT", Activation(m, up, x), m[Weight(down)]>>

(* The sum that backward() leaves is made of the inputs it was called with:*)
(* its first product, to dx, changes neither.                              *)
LEMMA BackwardAccumulates ==
  ASSUME NEW m, NEW p \in Params, NEW dx \in Tensors, NEW dy \in Tensors,
         NEW x \in Tensors, NEW q \in Params, dx # dy, dx # x
  PROVE  \/ Run(m, BackwardOps(p, dx, dy, x))[Grad(q)] = m[Grad(q)]
         \/ /\ q = p
            /\ Run(m, BackwardOps(p, dx, dy, x))[Grad(q)]
                 = Sum(m[Grad(q)], Product(m, dy, x))
<1> DEFINE op1 == Op("dy W", {dx}, <<dy, Weight(p)>>)
           op2 == Op("accumulate", {Grad(p)}, <<dy, x, Grad(p)>>)
           m1 == Apply(m, op1)
           m2 == Apply(m1, op2)
<1>1. /\ op1.dst = {dx} /\ op2.dst = {Grad(p)} /\ op2.kernel = "accumulate"
      /\ op2.src[1] = dy /\ op2.src[2] = x /\ op2.src[3] = Grad(p)
  BY DEF Op
<1>2. Run(m, BackwardOps(p, dx, dy, x)) = m2
  <2>1. BackwardOps(p, dx, dy, x) = <<op1, op2>>
    BY DEF BackwardOps
  <2> HIDE DEF op1, op2
  <2>2. Run(m, <<op1, op2>>) = m2
    BY RunTwo
  <2> QED BY <2>1, <2>2
<1> HIDE DEF op1, op2
<1>3. ASSUME NEW w  PROVE Value(w, op2) = Sum(w[Grad(p)], <<"dyT x", w[dy], w[x]>>)
  <2>1. Value(w, op2)
          = Sum(w[op2.src[3]], <<"dyT x", w[op2.src[1]], w[op2.src[2]]>>)
    BY <1>1, Values
  <2> QED BY <1>1, <2>1, Zenon
<1>4. /\ dy \in Location /\ x \in Location /\ Grad(p) \in Location /\ Grad(q) \in Location
      /\ Grad(p) # dx /\ Grad(q) # dx
  BY Places
<1>5. /\ m1[dy] = m[dy] /\ m1[x] = m[x] /\ m1[Grad(p)] = m[Grad(p)]
      /\ m1[Grad(q)] = m[Grad(q)]
  BY <1>1, <1>4, Applied
<1> HIDE DEF m1
<1>6. m2[Grad(q)] = IF Grad(q) = Grad(p) THEN Value(m1, op2) ELSE m1[Grad(q)]
  BY <1>1, <1>4, Applied
<1> HIDE DEF m2
<1>7. CASE Grad(q) = Grad(p)
  <2>1. m2[Grad(q)] = Sum(m[Grad(p)], <<"dyT x", m[dy], m[x]>>)
    BY <1>3, <1>5, <1>6, <1>7
  <2>2. q = p
    BY <1>7 DEF Grad
  <2> QED BY <1>2, <1>7, <2>1, <2>2 DEF Product
<1>8. CASE Grad(q) # Grad(p)
  BY <1>2, <1>5, <1>6, <1>8
<1> QED BY <1>7, <1>8

LEMMA NoAccumulate ==
  /\ \A j \in 1 .. Len([j \in 1 .. Len(Order) |-> Fill(Order[j])]) :
       [k \in 1 .. Len(Order) |-> Fill(Order[k])][j].kernel # "accumulate"
  /\ \A p \in Params, y, x \in Tensors : \A j \in 1 .. Len(ForwardOps(p, y, x)) :
       ForwardOps(p, y, x)[j].kernel # "accumulate"
  /\ \A up, down \in Params, y, h, x \in Tensors :
       \A j \in 1 .. Len(MlpOps(up, down, y, h, x)) :
         MlpOps(up, down, y, h, x)[j].kernel # "accumulate"
  /\ \A b \in Buffers : \A j \in 1 .. Len(UploadOps(b)) :
       UploadOps(b)[j].kernel # "accumulate"
<1>1. ASSUME NEW j \in 1 .. Len([k \in 1 .. Len(Order) |-> Fill(Order[k])])
      PROVE  [k \in 1 .. Len(Order) |-> Fill(Order[k])][j].kernel # "accumulate"
  <2>1. Len(Order) \in Nat
    BY StoreStreamAssumption
  <2>2. j \in 1 .. Len(Order)
    BY <2>1
  <2> QED BY <2>2 DEF Fill, Op
<1>2. ASSUME NEW p \in Params, NEW y \in Tensors, NEW x \in Tensors,
             NEW j \in 1 .. Len(ForwardOps(p, y, x))
      PROVE  ForwardOps(p, y, x)[j].kernel # "accumulate"
  <2> DEFINE op == Op("x WT", {y}, <<x, Weight(p)>>)
  <2>1. op.kernel # "accumulate"
    BY DEF Op
  <2>2. ForwardOps(p, y, x) = <<op>>
    BY DEF ForwardOps
  <2> HIDE DEF op
  <2>3. j = 1
    BY <2>2
  <2> QED BY <2>1, <2>2, <2>3
<1>3. ASSUME NEW up \in Params, NEW down \in Params, NEW y \in Tensors, NEW h \in Tensors,
             NEW x \in Tensors, NEW j \in 1 .. Len(MlpOps(up, down, y, h, x))
      PROVE  MlpOps(up, down, y, h, x)[j].kernel # "accumulate"
  <2> DEFINE op1 == Op("x WT", {h}, <<x, Weight(up)>>)
             op2 == Op("gelu", {h}, <<h>>)
             op3 == Op("x WT", {y}, <<h, Weight(down)>>)
  <2>1. /\ op1.kernel # "accumulate" /\ op2.kernel # "accumulate"
        /\ op3.kernel # "accumulate"
    BY DEF Op
  <2>2. MlpOps(up, down, y, h, x) = <<op1, op2, op3>>
    BY MlpOpsAre
  <2> HIDE DEF op1, op2, op3
  <2>3. j = 1 \/ j = 2 \/ j = 3
    BY <2>2
  <2> QED BY <2>1, <2>2, <2>3
<1>4. ASSUME NEW b \in Buffers, NEW j \in 1 .. Len(UploadOps(b))
      PROVE  UploadOps(b)[j].kernel # "accumulate"
  BY UploadType
<1> QED BY <1>1, <1>2, <1>3, <1>4

(* After finalize() a gradient only grows, by its parameter's backward()   *)
(* and by the product of what that was called with.                        *)
THEOREM GradientsAccumulate == Spec => GradAccumulates
<1> DEFINE Grows(q) ==
             \/ Eventual'[Grad(q)] = Eventual[Grad(q)]
             \/ \E dx, dy, x \in Tensors :
                  /\ Calls!BackwardCall(q, dx, dy, x)
                  /\ Eventual'[Grad(q)]
                       = Sum(Eventual[Grad(q)], <<"dyT x", Eventual[dy], Eventual[x]>>)
<1>1. ASSUME IInv, [Next]_vars, finalized, NEW q \in Params
      PROVE  Grows(q)
  <2>1. ASSUME NEW ops \in Seq(Asynchronous), Call(ops),
               \A j \in 1 .. Len(ops) : ops[j].kernel # "accumulate"
        PROVE  Eventual'[Grad(q)] = Eventual[Grad(q)]
    BY <1>1, <2>1, EventualOfCall, GradsKept
  <2>2. CASE InitParams
    BY <2>1, <2>2, InitParamsType, NoAccumulate DEF InitParams
  <2>3. CASE Forward
    BY <2>1, <2>3, ForwardType, NoAccumulate DEF Forward
  <2>4. CASE Backward
    <3>1. PICK p \in Params, dx \in Tensors, dy \in Tensors, x \in Tensors :
            dx \notin {dy, x} /\ Call(BackwardOps(p, dx, dy, x))
      BY <2>4 DEF Backward
    <3>2. Eventual' = Run(Eventual, BackwardOps(p, dx, dy, x))
      BY <1>1, <3>1, BackwardType, EventualOfCall
    <3>3. dx # dy /\ dx # x
      BY <3>1
    <3>4. \/ Run(Eventual, BackwardOps(p, dx, dy, x))[Grad(q)] = Eventual[Grad(q)]
          \/ /\ q = p
             /\ Run(Eventual, BackwardOps(p, dx, dy, x))[Grad(q)]
                  = Sum(Eventual[Grad(q)], Product(Eventual, dy, x))
      BY <3>3, BackwardAccumulates
    <3>5. Calls!BackwardCall(p, dx, dy, x)
      <4>1. Calls!Call(Calls!BackwardOps(p, dx, dy, x))
        BY <1>1, <3>1, BackwardType, AsynchronousImplements, SameOps
      <4> QED BY <1>1, <3>1, <4>1 DEF Calls!BackwardCall
    <3>6. CASE Eventual'[Grad(q)] = Eventual[Grad(q)]
      BY <3>6
    <3>7. CASE Eventual'[Grad(q)] # Eventual[Grad(q)]
      <4>1. /\ q = p
            /\ Eventual'[Grad(q)]
                 = Sum(Eventual[Grad(q)], <<"dyT x", Eventual[dy], Eventual[x]>>)
        BY <3>2, <3>4, <3>7 DEF Product
      <4>2. Calls!BackwardCall(q, dx, dy, x)
        BY <3>5, <4>1
      <4> QED BY <4>1, <4>2
    <3> QED BY <3>6, <3>7
  <2>5. CASE Mlp
    BY <2>1, <2>5, MlpType, NoAccumulate DEF Mlp
  <2>6. CASE Upload
    BY <2>1, <2>6, UploadType, NoAccumulate DEF Upload
  <2>7. CASE Finalize
    BY <1>1, <2>7 DEF Finalize
  <2>8. ASSUME NEW loc \in Observed, Download(loc)
        PROVE  Eventual'[Grad(q)] = Eventual[Grad(q)]
    BY <1>1, <2>8, DownloadKeeps, Places
  <2>9. ASSUME NEW j \in 1 .. Len(pending), Execute(j)
        PROVE  Eventual'[Grad(q)] = Eventual[Grad(q)]
    BY <1>1, <2>9, EventualOfExecute DEF IInv
  <2>10. CASE UNCHANGED vars
    BY <2>10 DEF vars, Eventual, Ops
  <2> QED BY <1>1, <2>2, <2>3, <2>4, <2>5, <2>6, <2>7, <2>8, <2>9, <2>10 DEF Next
<1>2. ASSUME IInv, [Next]_vars, finalized, NEW q \in Params
      PROVE  \/ Eventual'[Calls!Grad(q)] = Eventual[Calls!Grad(q)]
             \/ \E dx, dy, x \in Calls!Tensors :
                  /\ Calls!BackwardCall(q, dx, dy, x)
                  /\ Eventual'[Calls!Grad(q)]
                       = Calls!Sum(Eventual[Calls!Grad(q)],
                                   <<"dyT x", Eventual[dy], Eventual[x]>>)
  <2>1. Grows(q)
    BY <1>1, <1>2
  <2> QED BY <2>1, SameOps, SameMemory DEF Calls!Sum, Sum
<1>3. IInv /\ [Next]_vars => Calls!Accumulation
  BY <1>2 DEF Calls!Accumulation
<1> QED BY <1>3, StreamInvariant, PTL DEF Spec, GradAccumulates, Calls!GradAccumulates

(* hidden = gelu(x W_up^T), y = hidden W_down^T, of the x that the call was*)
(* made with.                                                              *)
LEMMA MlpComposes ==
  ASSUME NEW m, NEW up \in Params, NEW down \in Params, NEW y \in Tensors,
         NEW h \in Tensors, NEW x \in Tensors, h # x, h # y
  PROVE  /\ Run(m, MlpOps(up, down, y, h, x))[h] = Activation(m, up, x)
         /\ Run(m, MlpOps(up, down, y, h, x))[y] = Output(m, up, down, x)
<1> DEFINE op1 == Op("x WT", {h}, <<x, Weight(up)>>)
           op2 == Op("gelu", {h}, <<h>>)
           op3 == Op("x WT", {y}, <<h, Weight(down)>>)
           m1 == Apply(m, op1)
           m2 == Apply(m1, op2)
           m3 == Apply(m2, op3)
<1>1. /\ op1.kernel = "x WT" /\ op1.dst = {h} /\ op1.src[1] = x /\ op1.src[2] = Weight(up)
      /\ op2.kernel = "gelu" /\ op2.dst = {h} /\ op2.src[1] = h
      /\ op3.kernel = "x WT" /\ op3.dst = {y} /\ op3.src[1] = h
      /\ op3.src[2] = Weight(down)
  BY DEF Op
<1>2. Run(m, MlpOps(up, down, y, h, x)) = m3
  <2>1. MlpOps(up, down, y, h, x) = <<op1, op2, op3>>
    BY MlpOpsAre
  <2> HIDE DEF op1, op2, op3
  <2>2. Run(m, <<op1, op2, op3>>) = m3
    BY RunThree
  <2> QED BY <2>1, <2>2
<1> HIDE DEF op1, op2, op3
<1>3. ASSUME NEW w
      PROVE  /\ Value(w, op1) = <<"x WT", w[x], w[Weight(up)]>>
             /\ Value(w, op2) = <<"gelu", w[h]>>
             /\ Value(w, op3) = <<"x WT", w[h], w[Weight(down)]>>
  <2>1. /\ Value(w, op1) = <<op1.kernel, w[op1.src[1]], w[op1.src[2]]>>
        /\ Value(w, op2) = <<"gelu", w[op2.src[1]]>>
        /\ Value(w, op3) = <<op3.kernel, w[op3.src[1]], w[op3.src[2]]>>
    BY <1>1, Values
  <2> QED BY <1>1, <2>1, Zenon
<1>4. /\ h \in Location /\ y \in Location /\ Weight(down) \in Location
      /\ Weight(down) # h /\ y # h
  BY Places
<1>5. m1[h] = <<"x WT", m[x], m[Weight(up)]>> /\ m1[Weight(down)] = m[Weight(down)]
  <2>1. m1[h] = IF h \in op1.dst THEN Value(m, op1) ELSE m[h]
    BY <1>4, Applied
  <2>2. m1[Weight(down)]
          = IF Weight(down) \in op1.dst THEN Value(m, op1) ELSE m[Weight(down)]
    BY <1>4, Applied
  <2>3. h \in op1.dst /\ Weight(down) \notin op1.dst
    BY <1>1, <1>4
  <2> QED BY <1>3, <2>1, <2>2, <2>3
<1> HIDE DEF m1
<1>6. m2[h] = <<"gelu", m1[h]>> /\ m2[Weight(down)] = m1[Weight(down)]
  <2>1. m2[h] = IF h \in op2.dst THEN Value(m1, op2) ELSE m1[h]
    BY <1>4, Applied
  <2>2. m2[Weight(down)]
          = IF Weight(down) \in op2.dst THEN Value(m1, op2) ELSE m1[Weight(down)]
    BY <1>4, Applied
  <2>3. h \in op2.dst /\ Weight(down) \notin op2.dst
    BY <1>1, <1>4
  <2> QED BY <1>3, <2>1, <2>2, <2>3
<1> HIDE DEF m2
<1>7. m3[h] = m2[h] /\ m3[y] = <<"x WT", m2[h], m2[Weight(down)]>>
  <2>1. m3[y] = IF y \in op3.dst THEN Value(m2, op3) ELSE m2[y]
    BY <1>4, Applied
  <2>2. m3[h] = IF h \in op3.dst THEN Value(m2, op3) ELSE m2[h]
    BY <1>4, Applied
  <2>3. y \in op3.dst /\ h \notin op3.dst
    BY <1>1, <1>4
  <2> QED BY <1>3, <2>1, <2>2, <2>3
<1> HIDE DEF m3
<1>8. /\ m3[h] = <<"gelu", <<"x WT", m[x], m[Weight(up)]>>>>
      /\ m3[y] = <<"x WT", <<"gelu", <<"x WT", m[x], m[Weight(up)]>>>>, m[Weight(down)]>>
  BY <1>5, <1>6, <1>7, Zenon
<1> QED BY <1>2, <1>8 DEF Activation, Output

THEOREM MlpIsComposition == Spec => MlpCorrect
<1>1. ASSUME NEW up \in Params, NEW down \in Params, NEW y \in Calls!Tensors,
             NEW h \in Calls!Tensors, NEW x \in Calls!Tensors,
             Calls!MlpForward(up, down, y, h, x)
      PROVE  /\ Eventual'[h] = Calls!Hidden(up, x)
             /\ Eventual'[y] = <<"x WT", Calls!Hidden(up, x), Eventual[Calls!Weight(down)]>>
  <2>1. /\ h \notin {x, y} /\ y \in Tensors /\ h \in Tensors /\ x \in Tensors
        /\ Eventual' = Run(Eventual, MlpOps(up, down, y, h, x))
    BY <1>1, SameMemory, SameOps, SameRun DEF Calls!MlpForward, Calls!Call
  <2> DEFINE hidden == <<"gelu", <<"x WT", Eventual[x], Eventual[Weight(up)]>>>>
  <2>2. /\ Eventual'[h] = hidden
        /\ Eventual'[y] = <<"x WT", hidden, Eventual[Weight(down)]>>
    <3>1. h # x /\ h # y /\ y \in Tensors /\ h \in Tensors /\ x \in Tensors
      BY <2>1
    <3>2. /\ Run(Eventual, MlpOps(up, down, y, h, x))[h] = Activation(Eventual, up, x)
          /\ Run(Eventual, MlpOps(up, down, y, h, x))[y] = Output(Eventual, up, down, x)
      BY <3>1, MlpComposes
    <3> QED BY <2>1, <3>2 DEF Activation, Output
  <2>3. Calls!Hidden(up, x) = hidden /\ Calls!Weight(down) = Weight(down)
    BY SameOps DEF Calls!Hidden
  <2> HIDE DEF hidden
  <2> QED BY <2>2, <2>3
<1>2. Calls!Composition
  BY <1>1 DEF Calls!Composition
<1> QED BY <1>2, PTL DEF Spec, MlpCorrect, Calls!MlpCorrect
=============================================================================
