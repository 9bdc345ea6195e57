---------------------------- MODULE ArenaStream -----------------------------
(***************************************************************************)
(* The tensors of an Arena and the work queued on them.  alloc and reset() *)
(* act at once on the host; kernels and copies are queued on the stream of *)
(* the RunCtx (core/device.cu, core/run_ctx.h) and run later, when their   *)
(* memory may already belong to other tensors.  The clients are the kernels*)
(* and the test helpers upload, download (tests/support/transfer.h) and    *)
(* first_divergence (tests/support/determinism.h).                         *)
(***************************************************************************)
EXTENDS Arena

CONSTANTS
  Programs  \* what a program asks for, and bounds: its requests, element
            \* counts, tensors between two resets and device calls

ASSUME ProgramsAssumption ==
  Programs \subseteq [requests : SUBSET Requests, numels : SUBSET Numels,
                      live : 0 .. MaxLive, calls : Nat]

VARIABLES
  program,
  mem,      \* the bytes of the allocation, each with what wrote it last
  pending,  \* operations issued and not executed, oldest first
  pc,       \* where the host is: "idle", inside first_divergence, or "waiting"
  host,     \* what the last copies to the host have brought
  calls,    \* device calls so far
  held,     \* ghost: the contents of each live tensor if calls took effect
            \* at once and no memory was used twice; Unset before its first
  want      \* ghost: what the host should have got

deviceVars == <<mem, pending, host, calls, want>>
streamVars == <<program, mem, pending, pc, host, calls, held, want>>
allVars == <<vars, streamVars>>

Wrote(kind, n, in) == <<kind, n, in>>
Unset == {Wrote("nothing", 0, {})}
Leftover == Wrote("earlier program", 0, {})

InitStream ==
  /\ Init
  /\ program \in Programs
  /\ mem = [o \in 0 .. Capacity - 1 |-> Leftover]
  /\ pending = <<>> /\ pc = "idle"
  /\ host = <<>> /\ want = <<>>
  /\ calls = 0 /\ held = <<>>

-----------------------------------------------------------------------------
Cells(region) == region.off .. region.off + region.bytes - 1
Contents(memory, region) == {memory[o] : o \in Cells(region)}

(* Mutation: a stream for each call.                                       *)
StreamPerCall(n) == <<"stream", n>>
(* make_ctx: every RunCtx has the stream of its Device.                    *)
ctx_stream(n) == "device"

(* An operation writes the bytes of dst from those of src.  A copy to the  *)
(* host appends what it reads to host.                                     *)
Kernel(n, dst, src) == [stream |-> ctx_stream(n), kind |-> "kernel", id |-> n, dst |-> dst, src |-> src]
Write(n, dst) == [stream |-> ctx_stream(n), kind |-> "write", id |-> n, dst |-> dst, src |-> dst]
Fetch(s, src) == [stream |-> s, kind |-> "fetch", id |-> 0, dst |-> src, src |-> src]

Output(op, in) == Wrote(op.kind, op.id, IF op.kind = "kernel" THEN in ELSE {})

Apply(memory, op) ==
  IF op.kind = "fetch" THEN memory
  ELSE [o \in DOMAIN memory |->
          IF o \in Cells(op.dst) THEN Output(op, Contents(memory, op.src)) ELSE memory[o]]

(* The memory once a sequence of operations has been executed.             *)
Executed(memory, ops) ==
  LET after[n \in 0 .. Len(ops)] ==
        IF n = 0 THEN memory ELSE Apply(after[n - 1], ops[n])
  IN after[Len(ops)]

(* What a tensor holds after an operation that found `in` in its source.   *)
Result(op, in) == {Output(op, in) : o \in Cells(op.dst)}

-----------------------------------------------------------------------------
HostRuns == Running /\ pc = "idle"
Calling == HostRuns /\ calls < program.calls

(* alloc_bytes; a tensor that was granted is as yet unset.                 *)
Take(bytes, contents) ==
  /\ AllocBytes(bytes)
  /\ Len(live') <= program.live
  /\ held' = IF Len(live') > Len(live) THEN Append(held, contents) ELSE held

Request ==
  /\ HostRuns
  /\ \/ \E bytes \in program.requests : Take(bytes, Unset)
     \/ \E numel \in program.numels, d \in DType : Take(Bytes(numel, d), Unset)
  /\ UNCHANGED <<program, pc>> /\ UNCHANGED deviceVars

ResetStep ==
  /\ HostRuns
  /\ Reset
  /\ held' = <<>>
  /\ UNCHANGED <<program, pc>> /\ UNCHANGED deviceVars

(* A kernel launch returns at once; src may be dst.                        *)
Launch(dst, src) ==
  /\ Calling
  /\ held[src] # Unset
  /\ LET op == Kernel(calls, live[dst], live[src]) IN
       /\ pending' = Append(pending, op)
       /\ held' = [held EXCEPT ![dst] = Result(op, held[src])]
  /\ calls' = calls + 1
  /\ UNCHANGED <<vars, program, mem, pc, host, want>>

(* upload: alloc, then cudaMemcpyAsync of pageable memory, which has been  *)
(* read when the call returns.                                             *)
Upload(bytes) ==
  /\ Calling
  /\ LET op == Write(calls, [off |-> Aligned(used), bytes |-> bytes]) IN
       /\ Take(bytes, Result(op, {}))
       /\ pending' = IF Len(live') > Len(live) THEN Append(pending, op) ELSE pending
  /\ calls' = calls + 1
  /\ UNCHANGED <<program, mem, pc, host, want>>

(* download: cudaMemcpy on the default stream, which returns when the copy *)
(* has been made.                                                          *)
Download(i) ==
  /\ Calling
  /\ held[i] # Unset
  /\ pending' = Append(pending, Fetch("default", live[i]))
  /\ host' = <<>> /\ want' = <<held[i]>>
  /\ pc' = "waiting"
  /\ calls' = calls + 1
  /\ UNCHANGED <<vars, program, mem, held>>

(* first_divergence: two buffers, the same work into each, and copies of   *)
(* both behind it on the same stream.                                      *)
TakeFirst(bytes) ==
  /\ Calling
  /\ Len(live) + 1 < program.live
  /\ Take(bytes, Unset)
  /\ pc' = IF Running' THEN "divergence" ELSE pc
  /\ UNCHANGED program /\ UNCHANGED deviceVars

TakeSecond(bytes) ==
  /\ pc = "divergence"
  /\ bytes = live[Len(live)].bytes
  /\ Take(bytes, Unset)
  /\ pc' = IF Running' THEN "fill" ELSE pc
  /\ UNCHANGED program /\ UNCHANGED deviceVars

(* Mutation: the host does not synchronize before it compares.             *)
NoSynchronize == "idle"
synchronize == "waiting"

FillAndFetch ==
  /\ pc = "fill"
  /\ LET b1 == live[Len(live) - 1]
         b2 == live[Len(live)]
         fill == Result(Write(calls, b1), {})
     IN /\ pending' = pending \o
             <<Write(calls, b1), Write(calls, b2),
               Fetch(ctx_stream(calls), b1), Fetch(ctx_stream(calls), b2)>>
        /\ held' = [held EXCEPT ![Len(live) - 1] = fill, ![Len(live)] = fill]
        /\ host' = <<>> /\ want' = <<fill, fill>>
  /\ pc' = synchronize
  /\ calls' = calls + 1
  /\ UNCHANGED <<vars, program, mem>>

-----------------------------------------------------------------------------
(* Mutation: cudaStreamNonBlocking.                                        *)
OrderedNonBlocking(s, t) == s = t
(* cudaStreamCreate: a stream ordered with the default stream both ways.   *)
Ordered(s, t) == s = t \/ "default" \in {s, t}

Execute(j) ==
  /\ \A e \in 1 .. j - 1 : ~Ordered(pending[e].stream, pending[j].stream)
  /\ mem' = Apply(mem, pending[j])
  /\ host' = IF pending[j].kind = "fetch"
               THEN Append(host, Contents(mem, pending[j].src)) ELSE host
  /\ pending' = SubSeq(pending, 1, j - 1) \o SubSeq(pending, j + 1, Len(pending))
  /\ UNCHANGED <<vars, program, pc, calls, held, want>>

(* The host returns from cudaMemcpy or synchronize().                      *)
Return ==
  /\ pc = "waiting"
  /\ \A j \in 1 .. Len(pending) : pending[j].kind # "fetch"
  /\ pc' = "idle"
  /\ UNCHANGED <<vars, program, held>> /\ UNCHANGED deviceVars

Tensors == 1 .. Len(live)
StreamNext ==
  \/ Request \/ ResetStep
  \/ \E dst, src \in Tensors : Launch(dst, src)
  \/ \E bytes \in program.requests : Upload(bytes) \/ TakeFirst(bytes) \/ TakeSecond(bytes)
  \/ \E i \in Tensors : Download(i)
  \/ FillAndFetch \/ Return
  \/ \E j \in 1 .. Len(pending) : Execute(j)

StreamSpec == InitStream /\ [][StreamNext]_allVars

-----------------------------------------------------------------------------
(* Once the device has caught up, every tensor that is live holds what it  *)
(* would hold if calls took effect at once and memory was never used twice:*)
(* a kernel queued before a reset() neither clobbers a tensor that has     *)
(* taken over its memory nor reads what that tensor was given.             *)
Eventual == Executed(mem, pending)
TensorsHold ==
  \A i \in Tensors : held[i] # Unset => Contents(Eventual, live[i]) = held[i]

(* What download returns, and what first_divergence compares, is what the  *)
(* tensors held when it was called, although memory and host go on.        *)
HostCurrent == pc = "idle" => host = want
=============================================================================
