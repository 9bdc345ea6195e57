---------------------------- MODULE StoreStream ----------------------------
(***************************************************************************)
(* The host and the device: a host call puts its operations on a stream and*)
(* returns, the device executes them later.  Kernels and asynchronous      *)
(* copies go to the Device's stream, the memsets of finalize() and the     *)
(* copies back to the legacy default stream; the latter keep the host      *)
(* waiting.  cudaStreamCreate makes a stream that is ordered with the      *)
(* default stream both ways.                                               *)
(***************************************************************************)
EXTENDS DeviceMemory

CONSTANTS
  Order,    \* the parameters in registration order
  Observed, \* the locations the host downloads
  MaxCalls  \* bound: calls after the construction of the store

ASSUME StoreStreamAssumption ==
  /\ Order \in Seq(Params)
  /\ \A p \in Params : \E j \in 1 .. Len(Order) : Order[j] = p
  /\ Observed \subseteq Location \ {Host}
  /\ MaxCalls \in Nat

VARIABLES
  mem,        \* the device's memory, and the host's result
  pending,    \* operations issued and not executed, oldest first
  finalized,
  waiting,    \* the host is inside a synchronous call
  calls,
  meant       \* ghost: the memory, had each call taken effect when it was made

vars == <<mem, pending, finalized, waiting, calls, meant>>

Init ==
  /\ mem = [loc \in Location |-> Garbage]
  /\ pending = <<>>
  /\ finalized = FALSE
  /\ waiting = FALSE
  /\ calls = 0
  /\ meant = mem

Issue(stream, ops) ==
  /\ pending' = pending \o [j \in 1 .. Len(ops) |-> [stream |-> stream, op |-> ops[j]]]
  /\ meant' = Run(meant, ops)

HostRuns == ~waiting /\ calls < MaxCalls

Finalize ==
  /\ ~waiting /\ ~finalized
  /\ finalized' = TRUE
  /\ Issue("default", FinalizeOps)
  /\ UNCHANGED <<mem, waiting, calls>>

Call(ops) ==
  /\ HostRuns
  /\ Issue("device", ops)
  /\ calls' = calls + 1
  /\ UNCHANGED <<mem, finalized, waiting>>

Tensors == {Buffer(b) : b \in Buffers}

InitParams == finalized /\ Call([j \in 1 .. Len(Order) |-> Fill(Order[j])])

Forward ==
  \E p \in Params, y, x \in Tensors :
    finalized /\ y # x /\ Call(ForwardOps(p, y, x))

(* dx is a tensor of its own: it is written before x and dy are read again.*)
Backward ==
  \E p \in Params, dx, dy, x \in Tensors :
    finalized /\ dx \notin {dy, x} /\ Call(BackwardOps(p, dx, dy, x))

Mlp ==
  \E up, down \in Params, y, h, x \in Tensors :
    finalized /\ up # down /\ h \notin {x, y} /\ Call(MlpOps(up, down, y, h, x))

Upload == \E b \in Buffers : Call(UploadOps(b))

(* Mutation: cudaMemcpyAsync on the stream, whose result is read at once.  *)
DownloadAsync(loc) ==
  /\ HostRuns
  /\ Issue("device", DownloadOps(loc))
  /\ calls' = calls + 1
  /\ UNCHANGED <<mem, finalized, waiting>>

(* cudaMemcpy returns when the copy has been made.                         *)
Download(loc) ==
  /\ HostRuns
  /\ Issue("default", DownloadOps(loc))
  /\ waiting' = TRUE
  /\ calls' = calls + 1
  /\ UNCHANGED <<mem, finalized>>

(* Mutation: cudaStreamNonBlocking: only a stream's own order holds.       *)
OrderedNonBlocking(s, t) == s = t

(* Whether an operation of stream t waits for an earlier one of stream s.  *)
Ordered(s, t) == s = t \/ "default" \in {s, t}

Executable(j) ==
  \A e \in 1 .. j - 1 : ~Ordered(pending[e].stream, pending[j].stream)

(* The device executes one operation.                                      *)
Execute(j) ==
  /\ Executable(j)
  /\ mem' = Apply(mem, pending[j].op)
  /\ pending' = SubSeq(pending, 1, j - 1) \o SubSeq(pending, j + 1, Len(pending))
  /\ waiting' = (waiting /\ pending[j].op.dst # {Host})
  /\ UNCHANGED <<finalized, calls, meant>>

Next ==
  \/ Finalize \/ InitParams \/ Forward \/ Backward \/ Mlp \/ Upload
  \/ \E loc \in Observed : Download(loc)
  \/ \E j \in 1 .. Len(pending) : Execute(j)

Spec == Init /\ [][Next]_vars

-----------------------------------------------------------------------------
Ops == [j \in 1 .. Len(pending) |-> pending[j].op]

(* The memory as it will be when the device has caught up.                 *)
Eventual == Run(mem, Ops)

(* No operation that the device may execute reads memory of the store that *)
(* the memsets of finalize() have yet to zero, or writes what they will    *)
(* then wipe out: init_params and the layers are ordered behind them,      *)
(* though they are issued on another stream.                               *)
ZeroedBeforeUse ==
  \A j \in 1 .. Len(pending) :
    Executable(j) /\ pending[j].op.kernel # "memset" =>
      /\ \A n \in 1 .. Len(pending[j].op.src) :
           pending[j].op.src[n] \in Store /\ finalized => mem[pending[j].op.src[n]] # Garbage
      /\ \A e \in 1 .. Len(pending) :
           pending[e].op.kernel = "memset" =>
             pending[e].op.dst \cap pending[j].op.dst = {}

(* What the host holds once a download has returned is what the tensor held*)
(* after all the calls made before: the copy has been made, and it has not *)
(* overtaken the kernels that produce what it copies, though those are     *)
(* issued on another stream.                                               *)
DownloadCurrent == ~waiting => mem[Host] = meant[Host]

(* The store and the tensors end up as if each call had been executed when *)
(* it was made, and so does everything the host has downloaded: that the   *)
(* device lags behind cannot be told from the outside.                     *)
Calls == INSTANCE StoreCalls WITH mem <- Eventual
ImplementsCalls == Calls!Spec

(* Through the mapping, the device keeps what StoreCalls keeps.  Padding   *)
(* inside the spans stays zero for good once finalize() has returned.      *)
PaddingStaysZero == Calls!PaddingStaysZero

(* Gradients only accumulate, each backward() on the last one's sum.       *)
GradAccumulates == Calls!GradAccumulates

(* MLP::forward computes the composition of its layers, also when y is x.  *)
MlpCorrect == Calls!MlpCorrect
=============================================================================
