---------------------------- MODULE ArenaProofs ----------------------------
(***************************************************************************)
(* Proofs about Arena for every alignment, word size and capacity.         *)
(***************************************************************************)
EXTENDS ArenaStream, DataFacts, TLAPS

(* Under NoWrap the code's end of a request is its mathematical end.       *)
LEMMA EndExact ==
  ASSUME NoWrap, used \in 0 .. Capacity, NEW bytes \in RequestBytes
  PROVE  /\ bytes \in Size
         /\ Aligned(used) \in Nat
         /\ used <= Aligned(used)
         /\ Aligned(used) < used + Align
         /\ Aligned(used) % Align = 0
         /\ End(used, bytes) = Aligned(used) + bytes
<1>1. Align \in Nat \ {0} /\ Word \in Nat \ {0} /\ Capacity \in Nat
  BY LayoutAssumption, ArenaAssumption DEF Size
<1>2. bytes \in Size
  <2>1. ASSUME bytes \in Requests PROVE bytes \in Size
    BY <2>1, ArenaAssumption
  <2>2. ASSUME NEW numel \in Numels, NEW d \in DType, bytes = Bytes(numel, d)
        PROVE  bytes \in Size
    <3>1. numel \in Int /\ DtypeSize(d) \in Int
      BY ArenaAssumption DEF DType, DtypeSize
    <3>2. numel * DtypeSize(d) \in Int
      BY <3>1, SMT
    <3> QED BY <1>1, <2>2, <3>2 DEF Bytes, Size
  <2> QED BY <2>1, <2>2 DEF RequestBytes
<1>3. used \in Nat /\ used + Align <= Word
  BY <1>1 DEF NoWrap
<1>4. /\ Aligned(used) \in Nat
      /\ used <= Aligned(used)
      /\ Aligned(used) < used + Align
      /\ Aligned(used) % Align = 0
  BY <1>3, LayoutAssumption, RoundUp DEF Aligned, AlignUp
<1>5. bytes \in Nat /\ Aligned(used) + bytes < Word
  BY <1>1, <1>2, <1>4 DEF NoWrap, Size
<1>6. (Aligned(used) + bytes) % Word = Aligned(used) + bytes
  <2>1. Aligned(used) + bytes \in Nat
    BY <1>4, <1>5
  <2> QED BY <1>1, <1>5, <2>1, SmallModulo
<1> QED BY <1>2, <1>4, <1>6 DEF End

-----------------------------------------------------------------------------
IInv == TypeOK /\ LiveSound /\ Packed /\ RefusedMeansFull

LEMMA InitIInv == Init => IInv
<1> SUFFICES ASSUME Init PROVE IInv
  OBVIOUS
<1>1. Capacity \in Nat
  BY ArenaAssumption DEF Size
<1> QED BY <1>1 DEF Init, IInv, TypeOK, LiveSound, Packed, RefusedMeansFull, NoRequest

(* A grant appends one region, aligned, after everything handed out.       *)
LEMMA GrantIInv ==
  ASSUME NoWrap, IInv, Running, NEW bytes \in RequestBytes, Grant(bytes)
  PROVE  IInv'
<1> DEFINE new == [off |-> Aligned(used), bytes |-> bytes]
           n == Len(live)
<1>1. Align \in Nat \ {0} /\ Word \in Nat \ {0} /\ Capacity \in Nat
  BY LayoutAssumption, ArenaAssumption DEF Size
<1>2. used \in 0 .. Capacity /\ live \in Seq([off : Nat, bytes : Size]) /\ n \in Nat
  BY DEF IInv, TypeOK
<1>3. /\ bytes \in Size
      /\ Aligned(used) \in Nat
      /\ used <= Aligned(used)
      /\ Aligned(used) < used + Align
      /\ Aligned(used) % Align = 0
      /\ End(used, bytes) = Aligned(used) + bytes
  BY <1>2, EndExact
<1>4. bytes \in Nat
  BY <1>1, <1>3 DEF Size
<1>5. /\ Aligned(used) + bytes <= Capacity
      /\ used' = Aligned(used) + bytes
      /\ live' = Append(live, new)
      /\ refused' = refused
      /\ highWater' = IF used' > highWater THEN used' ELSE highWater
  BY <1>1, <1>3, <1>4 DEF Grant, Exhausted
<1>6. /\ new \in [off : Nat, bytes : Size]
      /\ Len(live') = n + 1
      /\ live'[n + 1] = new
      /\ \A i \in 1 .. n : live'[i] = live[i]
      /\ live' \in Seq([off : Nat, bytes : Size])
      /\ live' # <<>>
  BY <1>2, <1>3, <1>5, SMTT(20)
<1>7. \A i \in 1 .. n : live[i] \in [off : Nat, bytes : Size] /\ live[i].off + live[i].bytes \in Nat
  <2> SUFFICES ASSUME NEW i \in 1 .. n
               PROVE  live[i] \in [off : Nat, bytes : Size] /\ live[i].off + live[i].bytes \in Nat
    OBVIOUS
  <2>1. live[i] \in [off : Nat, bytes : Size]
    BY <1>2, ElementInSet
  <2>2. live[i].off \in Nat /\ live[i].bytes \in Size
    BY <2>1
  <2>3. live[i].bytes \in Nat
    BY <1>1, <2>2 DEF Size
  <2> QED BY <2>1, <2>2, <2>3
<1> HIDE DEF n
<1>8. TypeOK'
  BY <1>1, <1>2, <1>3, <1>4, <1>5, <1>6 DEF IInv, TypeOK
<1>9. \A i \in 1 .. n : live[i].off + live[i].bytes <= used
  BY DEF IInv, Packed, n
<1>10. LiveSound'
  <2> SUFFICES ASSUME NEW i \in 1 .. n + 1
               PROVE  /\ live'[i].off % Align = 0
                      /\ live'[i].off + live'[i].bytes <= Capacity
                      /\ \A j \in 1 .. i - 1 : RegionsDisjoint(live'[j], live'[i])
    BY <1>6 DEF LiveSound
  <2>1. CASE i \in 1 .. n
    <3>1. i \in 1 .. Len(live) /\ live'[i] = live[i]
      BY <1>6, <2>1 DEF n
    <3>2. \A j \in 1 .. i - 1 : live'[j] = live[j]
      BY <1>2, <1>6, <2>1
    <3>3. /\ live[i].off % Align = 0
          /\ live[i].off + live[i].bytes <= Capacity
          /\ \A j \in 1 .. i - 1 : RegionsDisjoint(live[j], live[i])
      BY <3>1 DEF IInv, LiveSound
    <3> QED BY <3>1, <3>2, <3>3
  <2>2. CASE i = n + 1
    <3>1. live'[i] = new /\ live'[i].off = Aligned(used) /\ live'[i].bytes = bytes
      BY <1>6, <2>2
    <3>2. ASSUME NEW j \in 1 .. n
          PROVE  live'[j].off + live'[j].bytes <= Aligned(used)
      <4>1. live'[j] = live[j] /\ live[j].off + live[j].bytes <= used
        BY <1>6, <1>9
      <4>2. live[j].off + live[j].bytes \in Nat
        BY <1>7
      <4> QED BY <1>2, <1>3, <4>1, <4>2
    <3>3. ASSUME NEW j \in 1 .. i - 1  PROVE RegionsDisjoint(live'[j], live'[i])
      <4>1. j \in 1 .. n
        BY <1>2, <2>2
      <4> QED BY <3>1, <3>2, <4>1 DEF RegionsDisjoint
    <3> QED BY <1>3, <1>5, <3>1, <3>3
  <2> QED BY <1>2, <2>1, <2>2
<1>11. Packed'
  <2>1. used' = live'[n + 1].off + live'[n + 1].bytes
    BY <1>5, <1>6
  <2>2. live'[1].off = 0
    <3>1. CASE n = 0
      <4>1. used = 0
        BY <1>2, <3>1 DEF IInv, Packed, n
      <4>2. Aligned(used) <= 0
        BY <1>1, <1>3, <4>1, MultiplesApart
      <4> QED BY <1>3, <1>6, <3>1, <4>2
    <3>2. CASE n # 0
      <4>1. live # <<>> /\ live[1].off = 0
        BY <1>2, <3>2 DEF IInv, Packed, n
      <4>2. 1 \in 1 .. n
        BY <1>2, <3>2
      <4> QED BY <1>6, <4>1, <4>2
    <3> QED BY <3>1, <3>2
  <2>3. \A i \in 1 .. n + 1 : live'[i].off + live'[i].bytes <= used'
    <3> SUFFICES ASSUME NEW i \in 1 .. n + 1
                 PROVE  live'[i].off + live'[i].bytes <= used'
      OBVIOUS
    <3>1. CASE i \in 1 .. n
      <4>1. live'[i] = live[i] /\ live[i].off + live[i].bytes <= used
        BY <1>6, <1>9, <3>1
      <4>2. used <= used' /\ used \in Nat /\ used' \in Nat
        BY <1>1, <1>2, <1>3, <1>4, <1>5
      <4>3. live[i].off + live[i].bytes \in Nat
        BY <1>7, <3>1
      <4> QED BY <4>1, <4>2, <4>3
    <3>2. CASE i = n + 1
      <4>1. used' \in Nat
        BY <1>3, <1>4, <1>5
      <4> QED BY <2>1, <3>2, <4>1
    <3> QED BY <1>2, <3>1, <3>2
  <2>4. ASSUME NEW i \in 1 .. n
        PROVE  /\ live'[i + 1].off % Align = 0
               /\ live'[i].off + live'[i].bytes <= live'[i + 1].off
               /\ live'[i + 1].off < live'[i].off + live'[i].bytes + Align
    <3>1. CASE i + 1 \in 1 .. n
      <4>1. live'[i] = live[i] /\ live'[i + 1] = live[i + 1]
        BY <1>6, <3>1
      <4>2. i \in 1 .. Len(live) - 1
        BY <1>2, <3>1 DEF n
      <4>3. /\ live[i + 1].off % Align = 0
            /\ live[i].off + live[i].bytes <= live[i + 1].off
            /\ live[i + 1].off < live[i].off + live[i].bytes + Align
        BY <4>2 DEF IInv, Packed
      <4> QED BY <4>1, <4>3
    <3>2. CASE i = n
      <4>1. used = live[n].off + live[n].bytes
        BY <1>2, <3>2 DEF IInv, Packed, n
      <4> QED BY <1>3, <1>6, <3>2, <4>1
    <3> QED BY <1>2, <3>1, <3>2
  <2>5. Len(live') = n + 1 /\ Len(live') - 1 = n
    BY <1>2, <1>6
  <2>6. live' # <<>>
    BY <1>6
  <2> QED BY ONLY <2>1, <2>2, <2>3, <2>4, <2>5, <2>6 DEF Packed
<1>12. RefusedMeansFull'
  BY <1>5 DEF Running, RefusedMeansFull
<1> QED BY <1>8, <1>10, <1>11, <1>12 DEF IInv

(* A refusal changes nothing but `refused`, and the request it refuses     *)
(* fits at no aligned offset: any such offset is at least Aligned(used).   *)
LEMMA RefuseIInv ==
  ASSUME NoWrap, IInv, NEW bytes \in RequestBytes, Refuse(bytes)
  PROVE  IInv'
<1>1. Align \in Nat \ {0} /\ Capacity \in Nat /\ used \in 0 .. Capacity
  BY LayoutAssumption, ArenaAssumption DEF Size, IInv, TypeOK
<1>2. /\ bytes \in Size
      /\ Aligned(used) \in Nat
      /\ Aligned(used) < used + Align
      /\ Aligned(used) % Align = 0
      /\ End(used, bytes) = Aligned(used) + bytes
  BY <1>1, EndExact
<1>3. bytes \in Nat
  BY <1>2, LayoutAssumption DEF Size
<1>4. Aligned(used) + bytes > Capacity
  BY <1>2 DEF Refuse, Exhausted
<1>5. UNCHANGED <<used, highWater, live>> /\ refused' = bytes
  BY DEF Refuse
<1>6. TypeOK'
  BY <1>2, <1>5 DEF IInv, TypeOK
<1>7. LiveSound' /\ Packed'
  BY <1>5 DEF IInv, LiveSound, Packed
<1>8. RefusedMeansFull'
  <2> SUFFICES ASSUME NEW off \in used .. Capacity, off % Align = 0
               PROVE  off + bytes > Capacity
    BY <1>5 DEF RefusedMeansFull
  <2>1. off \in Nat /\ Aligned(used) < off + Align
    BY <1>1, <1>2
  <2>2. Aligned(used) <= off
    BY <1>1, <1>2, <2>1, MultiplesApart
  <2> QED BY <1>1, <1>2, <1>3, <1>4, <2>1, <2>2
<1> QED BY <1>6, <1>7, <1>8 DEF IInv

LEMMA AllocBytesIInv ==
  ASSUME NoWrap, IInv, NEW bytes \in RequestBytes, AllocBytes(bytes)
  PROVE  IInv'
  BY GrantIInv, RefuseIInv DEF AllocBytes

LEMMA ResetIInv ==
  ASSUME IInv, Reset
  PROVE  IInv'
<1>1. Capacity \in Nat /\ used \in 0 .. Capacity /\ highWater \in 0 .. Capacity
  BY ArenaAssumption DEF Size, IInv, TypeOK
<1>2. used' = 0 /\ live' = <<>> /\ highWater' = highWater /\ refused' = refused
  BY DEF Reset
<1> QED BY <1>1, <1>2 DEF IInv, Reset, Running, TypeOK, LiveSound, Packed, RefusedMeansFull

LEMMA NextIInv == NoWrap /\ IInv /\ [Next]_vars => IInv'
<1> SUFFICES ASSUME NoWrap, IInv, [Next]_vars PROVE IInv'
  OBVIOUS
<1>1. CASE \E bytes \in Requests : AllocBytes(bytes)
  BY <1>1, AllocBytesIInv DEF RequestBytes
<1>2. CASE \E numel \in Numels, d \in DType : Alloc(numel, d)
  BY <1>2, AllocBytesIInv DEF RequestBytes, Alloc
<1>3. CASE Reset
  BY <1>3, ResetIInv
<1>4. CASE UNCHANGED vars
  BY <1>4 DEF vars, IInv, TypeOK, LiveSound, Packed, RefusedMeansFull
<1> QED BY <1>1, <1>2, <1>3, <1>4 DEF Next

LEMMA Invariance ==
  ASSUME NoWrap
  PROVE  Spec => []IInv
<1>1. Init => IInv
  BY InitIInv
<1>2. IInv /\ [Next]_vars => IInv'
  BY NextIInv
<1> QED BY <1>1, <1>2, PTL DEF Spec

(* The cursor and the peak of src/core/arena.cu never leave the allocation,*)
(* for every alignment, capacity and word in which no size_t sum wraps.    *)
THEOREM ArenaTypeOK ==
  ASSUME NoWrap
  PROVE  Spec => []TypeOK
<1>1. IInv => TypeOK
  BY DEF IInv
<1> QED BY <1>1, Invariance, PTL

(* No byte is handed out twice between two resets: the regions returned by *)
(* alloc_bytes are aligned, inside the allocation and pairwise disjoint.   *)
THEOREM ArenaLiveSound ==
  ASSUME NoWrap
  PROVE  Spec => []LiveSound
<1>1. IInv => LiveSound
  BY DEF IInv
<1> QED BY <1>1, Invariance, PTL

(* The offsets alloc_bytes returns are the packed layout of the requests   *)
(* since the last reset, whatever happened before it.                      *)
THEOREM ArenaPacked ==
  ASSUME NoWrap
  PROVE  Spec => []Packed
<1>1. IInv => Packed
  BY DEF IInv
<1> QED BY <1>1, Invariance, PTL

(* alloc_bytes aborts the program only on a request that no aligned offset *)
(* above the cursor has room for.                                          *)
THEOREM ArenaRefusesOnlyWhenFull ==
  ASSUME NoWrap
  PROVE  Spec => []RefusedMeansFull
<1>1. IInv => RefusedMeansFull
  BY DEF IInv
<1> QED BY <1>1, Invariance, PTL

-----------------------------------------------------------------------------
(* high_water() never falls, bounds every region, and rises only to the    *)
(* end of the region just granted.                                         *)
THEOREM ArenaHighWater ==
  ASSUME NoWrap
  PROVE  Spec => HighWaterExact
<1> DEFINE Exact ==
      /\ highWater' >= highWater
      /\ \A i \in 1 .. Len(live') : live'[i].off + live'[i].bytes <= highWater'
      /\ highWater' # highWater =>
           highWater' = live'[Len(live')].off + live'[Len(live')].bytes
<1>1. ASSUME IInv, IInv', [Next]_vars  PROVE [Exact]_vars
  <2>1. used' \in Nat /\ highWater \in Nat /\ highWater' \in Nat /\ used' <= highWater'
    BY <1>1, ArenaAssumption DEF IInv, TypeOK, Size
  <2>2. \A i \in 1 .. Len(live') : live'[i].off + live'[i].bytes <= highWater'
    <3> SUFFICES ASSUME NEW i \in 1 .. Len(live')
                 PROVE  live'[i].off + live'[i].bytes <= highWater'
      OBVIOUS
    <3>1. live'[i] \in [off : Nat, bytes : Size]
      BY <1>1, ElementInSet DEF IInv, TypeOK
    <3>2. live'[i].off \in Nat /\ live'[i].bytes \in Nat
      BY <3>1 DEF Size
    <3>3. live'[i].off + live'[i].bytes <= used'
      BY <1>1 DEF IInv, Packed
    <3> QED BY <2>1, <3>2, <3>3
  <2>3. ASSUME NEW bytes \in RequestBytes, AllocBytes(bytes)  PROVE Exact
    <3>1. CASE Grant(bytes)
      <4>1. highWater' = IF used' > highWater THEN used' ELSE highWater
        BY <3>1 DEF Grant
      <4>2. highWater' >= highWater /\ (highWater' # highWater => highWater' = used')
        BY <2>1, <4>1
      <4>3. live' # <<>>
        BY <1>1, <3>1 DEF Grant, IInv, TypeOK
      <4>4. used' = live'[Len(live')].off + live'[Len(live')].bytes
        BY <1>1, <4>3 DEF IInv, Packed
      <4> QED BY <2>2, <4>2, <4>4
    <3>2. CASE Refuse(bytes)
      BY <2>1, <2>2, <3>2 DEF Refuse
    <3> QED BY <2>3, <3>1, <3>2 DEF AllocBytes
  <2>4. ASSUME Reset  PROVE Exact
    BY <2>1, <2>2, <2>4 DEF Reset
  <2> QED BY <1>1, <2>3, <2>4 DEF Next, Alloc, RequestBytes
<1>2. IInv /\ IInv' /\ [Next]_vars => [Exact]_vars
  BY <1>1
<1>3. Spec => [][Exact]_vars
  BY <1>2, Invariance, PTL DEF Spec
<1> QED BY <1>3 DEF HighWaterExact

-----------------------------------------------------------------------------
(* The arena is an implementation of RegionAllocator: any code written     *)
(* against that contract is right with the bump allocator.                 *)
LEMMA GrantRefines ==
  ASSUME NoWrap, IInv, Running, NEW bytes \in RequestBytes, Grant(bytes)
  PROVE  Regions!Grant(bytes)
<1> DEFINE new == [off |-> Aligned(used), bytes |-> bytes]
<1>1. Align \in Nat \ {0} /\ Capacity \in Nat /\ used \in 0 .. Capacity
  BY LayoutAssumption, ArenaAssumption DEF Size, IInv, TypeOK
<1>2. /\ bytes \in Size
      /\ Aligned(used) \in Nat
      /\ used <= Aligned(used)
      /\ Aligned(used) % Align = 0
      /\ End(used, bytes) = Aligned(used) + bytes
  BY <1>1, EndExact
<1>3. bytes \in Nat
  BY <1>2, LayoutAssumption DEF Size
<1>4. Aligned(used) + bytes <= Capacity /\ live' = Append(live, new)
  BY <1>1, <1>2, <1>3 DEF Grant, Exhausted
<1>5. Aligned(used) \in 0 .. Capacity
  BY <1>1, <1>2, <1>3, <1>4
<1>6. Regions!Free(new)
  <2> SUFFICES ASSUME NEW i \in 1 .. Len(live)
               PROVE  ~Regions!Overlap(new, live[i])
    BY DEF Regions!Free
  <2>1. live[i] \in [off : Nat, bytes : Size]
    BY ElementInSet DEF IInv, TypeOK
  <2>2. live[i].off \in Nat /\ live[i].bytes \in Nat
    BY <2>1, LayoutAssumption DEF Size
  <2>3. live[i].off + live[i].bytes <= used
    BY DEF IInv, Packed
  <2>4. ~(new.off < live[i].off + live[i].bytes)
    BY <1>1, <1>2, <2>2, <2>3
  <2> QED BY <2>4 DEF Regions!Overlap
<1>7. Running' = Running
  BY DEF Grant, Running
<1> QED BY <1>2, <1>4, <1>5, <1>6, <1>7 DEF Regions!Grant

LEMMA RefuseRefines ==
  ASSUME NoWrap, IInv, Running, NEW bytes \in RequestBytes, Refuse(bytes)
  PROVE  Regions!Refuse(bytes)
<1>1. Capacity \in Nat /\ used \in 0 .. Capacity
  BY ArenaAssumption DEF Size, IInv, TypeOK
<1>2. bytes \in Size /\ refused' = bytes /\ live' = live /\ used' = used
  BY <1>1, EndExact DEF Refuse
<1>3. ~Running'
  BY <1>2 DEF Running, NoRequest, Size
<1>4. RefusedMeansFull'
  BY RefuseIInv DEF IInv
<1>5. \A off \in used .. Capacity : off % Align = 0 => off + bytes > Capacity
  BY <1>2, <1>3, <1>4 DEF RefusedMeansFull, Running
<1>6. ASSUME NEW off \in 0 .. Capacity, Regions!Above(off)
      PROVE  used <= off
  <2>1. CASE live = <<>>
    BY <1>1, <2>1 DEF IInv, Packed
  <2>2. CASE live # <<>>
    <3>1. Len(live) \in 1 .. Len(live)
      BY <2>2 DEF IInv, TypeOK
    <3>2. used = live[Len(live)].off + live[Len(live)].bytes
      BY <2>2 DEF IInv, Packed
    <3> QED BY <1>6, <3>1, <3>2 DEF Regions!Above
  <2> QED BY <2>1, <2>2
<1>7. ASSUME NEW off \in 0 .. Capacity, off % Align = 0, Regions!Above(off)
      PROVE  off + bytes > Capacity
  <2>1. off \in used .. Capacity
    BY <1>1, <1>6, <1>7
  <2> QED BY <1>5, <1>7, <2>1
<1> QED BY <1>2, <1>3, <1>7 DEF Regions!Refuse

THEOREM ArenaImplementsRegions ==
  ASSUME NoWrap
  PROVE  Spec => ImplementsRegions
<1>1. Init => Regions!Init
  BY DEF Init, Regions!Init, Running
<1>2. ASSUME IInv, [Next]_vars  PROVE [Regions!Next]_(Regions!vars)
  <2>1. ASSUME NEW bytes \in RequestBytes, AllocBytes(bytes)  PROVE Regions!Next
    BY <1>2, <2>1, GrantRefines, RefuseRefines DEF AllocBytes, Regions!Next
  <2>2. ASSUME Reset  PROVE Regions!Next
    BY <2>2 DEF Reset, Running, Regions!Next, Regions!ReleaseAll
  <2>3. ASSUME UNCHANGED vars  PROVE UNCHANGED Regions!vars
    BY <2>3 DEF vars, Regions!vars, Running
  <2> QED BY <1>2, <2>1, <2>2, <2>3 DEF Next, Alloc, RequestBytes
<1>3. IInv /\ [Next]_vars => [Regions!Next]_(Regions!vars)
  BY <1>2
<1> QED BY <1>1, <1>3, Invariance, PTL DEF Spec, Regions!Spec, ImplementsRegions

-----------------------------------------------------------------------------
(* ArenaStream: whatever is queued on the tensors, and however a program   *)
(* requests them, the arena takes its own steps only.  So all of the above *)
(* holds of it.                                                            *)
LEMMA TakeIsNext ==
  ASSUME NEW bytes \in RequestBytes, NEW contents, Take(bytes, contents)
  PROVE  Next
<1>1. AllocBytes(bytes)
  BY DEF Take
<1>2. \/ bytes \in Requests
      \/ \E numel \in Numels, d \in DType : bytes = Bytes(numel, d)
  BY DEF RequestBytes
<1> QED BY <1>1, <1>2 DEF Next, Alloc

LEMMA StreamStepIsNext ==
  ASSUME program \in Programs, [StreamNext]_allVars
  PROVE  program' \in Programs /\ [Next]_vars
<1>1. /\ program.requests \subseteq RequestBytes
      /\ \A numel \in program.numels, d \in DType : Bytes(numel, d) \in RequestBytes
  BY ProgramsAssumption DEF RequestBytes
<1>2. CASE Request
  <2>1. Next
    BY <1>1, <1>2, TakeIsNext DEF Request
  <2> QED BY <1>2, <2>1 DEF Request
<1>3. CASE ResetStep
  BY <1>3 DEF ResetStep, Next
<1>4. ASSUME NEW dst \in Tensors, NEW src \in Tensors, Launch(dst, src)
      PROVE  program' \in Programs /\ [Next]_vars
  BY <1>4 DEF Launch
<1>5. ASSUME NEW bytes \in program.requests,
             Upload(bytes) \/ TakeFirst(bytes) \/ TakeSecond(bytes)
      PROVE  program' \in Programs /\ [Next]_vars
  <2>1. Next /\ UNCHANGED program
    BY <1>1, <1>5, TakeIsNext DEF Upload, TakeFirst, TakeSecond
  <2> QED BY <2>1
<1>6. ASSUME NEW i \in Tensors, Download(i)
      PROVE  program' \in Programs /\ [Next]_vars
  BY <1>6 DEF Download
<1>7. CASE FillAndFetch \/ Return
  BY <1>7 DEF FillAndFetch, Return
<1>8. ASSUME NEW j \in 1 .. Len(pending), Execute(j)
      PROVE  program' \in Programs /\ [Next]_vars
  BY <1>8 DEF Execute
<1>9. CASE UNCHANGED allVars
  BY <1>9 DEF allVars, streamVars
<1> QED
  BY <1>2, <1>3, <1>4, <1>5, <1>6, <1>7, <1>8, <1>9 DEF StreamNext

(* A program with a device is a program of the arena.                      *)
THEOREM StreamImplementsArena == StreamSpec => Spec
<1>1. InitStream => Init /\ program \in Programs
  BY DEF InitStream
<1>2. program \in Programs /\ [StreamNext]_allVars => (program \in Programs)' /\ [Next]_vars
  BY StreamStepIsNext
<1> QED BY <1>1, <1>2, PTL DEF StreamSpec, Spec

(* So no byte of the allocation belongs to two live tensors, even while    *)
(* work on the tensors of an earlier plan is still queued.                 *)
THEOREM StreamLiveSound ==
  ASSUME NoWrap
  PROVE  StreamSpec => []LiveSound
BY StreamImplementsArena, ArenaLiveSound, PTL

-----------------------------------------------------------------------------
(* The work queued on the tensors.  The memory after each prefix of a      *)
(* sequence of operations exists, by induction, and is the only one.       *)
Follows(g, m, ops, n) ==
  g = [k \in 0 .. n |-> IF k = 0 THEN m ELSE Apply(g[k - 1], ops[k])]

LEMMA PrefixFollowed ==
  ASSUME NEW m, NEW ops, Len(ops) \in Nat
  PROVE  \A n \in Nat : n <= Len(ops) => \E g : Follows(g, m, ops, n)
<1> DEFINE S == {n \in Nat : n <= Len(ops) => \E g : Follows(g, m, ops, n)}
<1>1. 0 \in S
  <2>1. Follows([k \in 0 .. 0 |-> m], m, ops, 0)
    BY DEF Follows
  <2> QED BY <2>1
<1>2. ASSUME NEW n \in Nat, n \in S  PROVE n + 1 \in S
  <2> SUFFICES ASSUME n + 1 <= Len(ops)  PROVE \E h : Follows(h, m, ops, n + 1)
    OBVIOUS
  <2>1. PICK g : Follows(g, m, ops, n)
    BY <1>2
  <2> DEFINE h == [k \in 0 .. n + 1 |->
                     IF k = n + 1 THEN Apply(g[n], ops[n + 1]) ELSE g[k]]
  <2>2. ASSUME NEW k \in 0 .. n + 1
        PROVE  h[k] = IF k = 0 THEN m ELSE Apply(h[k - 1], ops[k])
    <3>1. CASE k = n + 1
      BY <3>1
    <3>2. CASE k # n + 1
      <4>1. k \in 0 .. n /\ (k # 0 => k - 1 \in 0 .. n /\ k - 1 # n + 1)
        BY <3>2
      <4>2. g[k] = IF k = 0 THEN m ELSE Apply(g[k - 1], ops[k])
        BY <2>1, <4>1 DEF Follows
      <4>3. h[k] = g[k] /\ (k # 0 => h[k - 1] = g[k - 1])
        BY <3>2, <4>1
      <4> QED BY <4>2, <4>3
    <3> QED BY <3>1, <3>2
  <2>3. h = [k \in 0 .. n + 1 |-> h[k]]
    OBVIOUS
  <2> HIDE DEF h
  <2>4. Follows(h, m, ops, n + 1)
    BY <2>2, <2>3 DEF Follows
  <2> QED BY <2>4
<1> HIDE DEF S
<1>3. Nat \subseteq S
  BY <1>1, <1>2, SetInduction
<1> QED BY <1>3 DEF S

LEMMA ExecutedSteps ==
  ASSUME NEW m, NEW ops, Len(ops) \in Nat
  PROVE  \E g : /\ Executed(m, ops) = g[Len(ops)] /\ g[0] = m
                /\ \A n \in 0 .. Len(ops) - 1 : g[n + 1] = Apply(g[n], ops[n + 1])
<1> DEFINE after[n \in 0 .. Len(ops)] ==
             IF n = 0 THEN m ELSE Apply(after[n - 1], ops[n])
<1>1. \E g : Follows(g, m, ops, Len(ops))
  <2> HIDE DEF after
  <2>1. Len(ops) <= Len(ops)
    OBVIOUS
  <2> QED BY <2>1, PrefixFollowed
<1>2. Follows(after, m, ops, Len(ops))
  BY <1>1 DEF Follows
<1>3. Executed(m, ops) = after[Len(ops)]
  BY DEF Executed
<1> HIDE DEF after
<1>4. after[0] = m
  BY <1>2 DEF Follows
<1>5. ASSUME NEW n \in 0 .. Len(ops) - 1  PROVE after[n + 1] = Apply(after[n], ops[n + 1])
  <2>1. n + 1 \in 0 .. Len(ops) /\ n + 1 # 0 /\ n + 1 - 1 = n
    OBVIOUS
  <2> QED BY <1>2, <2>1 DEF Follows
<1> QED BY <1>3, <1>4, <1>5

LEMMA StepsReachExecuted ==
  ASSUME NEW m, NEW ops, Len(ops) \in Nat, NEW h, h[0] = m,
         \A n \in 0 .. Len(ops) - 1 : h[n + 1] = Apply(h[n], ops[n + 1])
  PROVE  h[Len(ops)] = Executed(m, ops)
<1>1. PICK g : /\ Executed(m, ops) = g[Len(ops)] /\ g[0] = m
               /\ \A n \in 0 .. Len(ops) - 1 : g[n + 1] = Apply(g[n], ops[n + 1])
  BY ExecutedSteps
<1> DEFINE S == {n \in Nat : n <= Len(ops) => h[n] = g[n]}
<1>2. 0 \in S
  BY <1>1
<1>3. ASSUME NEW n \in Nat, n \in S  PROVE n + 1 \in S
  <2>1. CASE n + 1 <= Len(ops)
    <3>1. n \in 0 .. Len(ops) - 1 /\ h[n] = g[n]
      BY <1>3, <2>1
    <3>2. h[n + 1] = g[n + 1]
      BY <1>1, <3>1
    <3> QED BY <3>2
  <2> QED BY <2>1
<1> HIDE DEF S
<1>4. Nat \subseteq S
  BY <1>2, <1>3, SetInduction
<1> QED BY <1>1, <1>4 DEF S

LEMMA ExecutedNone ==
  ASSUME NEW m, NEW ops, Len(ops) = 0
  PROVE  Executed(m, ops) = m
BY ExecutedSteps

(* The last operation is executed last, and the first one first.           *)
LEMMA ExecutedLast ==
  ASSUME NEW m, NEW ops, NEW op, NEW longer,
         Len(ops) \in Nat, Len(longer) = Len(ops) + 1, longer[Len(ops) + 1] = op,
         \A j \in 1 .. Len(ops) : longer[j] = ops[j]
  PROVE  Executed(m, longer) = Apply(Executed(m, ops), op)
<1>1. PICK g : /\ Executed(m, ops) = g[Len(ops)] /\ g[0] = m
               /\ \A n \in 0 .. Len(ops) - 1 : g[n + 1] = Apply(g[n], ops[n + 1])
  BY ExecutedSteps
<1> DEFINE last == Apply(g[Len(ops)], op)
           h == [n \in 0 .. Len(ops) + 1 |-> IF n = Len(ops) + 1 THEN last ELSE g[n]]
<1>2. h[0] = m /\ h[Len(longer)] = last
  BY <1>1
<1>3. ASSUME NEW n \in 0 .. Len(longer) - 1  PROVE h[n + 1] = Apply(h[n], longer[n + 1])
  <2>1. CASE n = Len(ops)
    <3>1. h[n + 1] = last /\ h[n] = g[Len(ops)]
      BY <2>1
    <3> QED BY <2>1, <3>1
  <2>2. CASE n # Len(ops)
    <3>1. n \in 0 .. Len(ops) - 1 /\ n + 1 \in 1 .. Len(ops)
      BY <2>2
    <3>2. h[n + 1] = g[n + 1] /\ h[n] = g[n]
      BY <3>1
    <3>3. g[n + 1] = Apply(g[n], ops[n + 1]) /\ longer[n + 1] = ops[n + 1]
      BY <1>1, <3>1
    <3> QED BY <3>2, <3>3
  <2> QED BY <2>1, <2>2
<1>4. Len(longer) \in Nat
  OBVIOUS
<1> HIDE DEF h
<1>5. h[Len(longer)] = Executed(m, longer)
  BY <1>2, <1>3, <1>4, StepsReachExecuted
<1> QED BY <1>1, <1>2, <1>5

LEMMA ExecutedFirst ==
  ASSUME NEW m, NEW ops, NEW rest, Len(rest) \in Nat, Len(ops) = Len(rest) + 1,
         \A j \in 1 .. Len(rest) : rest[j] = ops[j + 1]
  PROVE  Executed(m, ops) = Executed(Apply(m, ops[1]), rest)
<1> DEFINE start == Apply(m, ops[1])
<1> HIDE DEF start
<1>1. PICK g : /\ Executed(start, rest) = g[Len(rest)] /\ g[0] = start
               /\ \A n \in 0 .. Len(rest) - 1 : g[n + 1] = Apply(g[n], rest[n + 1])
  BY ExecutedSteps, SMTT(20)
<1> DEFINE h == [n \in 0 .. Len(ops) |-> IF n = 0 THEN m ELSE g[n - 1]]
<1>2. h[0] = m /\ h[Len(ops)] = g[Len(rest)]
  OBVIOUS
<1>3. ASSUME NEW n \in 0 .. Len(ops) - 1  PROVE h[n + 1] = Apply(h[n], ops[n + 1])
  <2>1. h[n + 1] = g[n]
    OBVIOUS
  <2>2. CASE n = 0
    BY <1>1, <2>1, <2>2 DEF start
  <2>3. CASE n # 0
    <3> DEFINE k == n - 1
    <3>1. k \in 0 .. Len(rest) - 1 /\ k + 1 = n /\ n \in 1 .. Len(rest) /\ h[n] = g[k]
      BY <2>3
    <3> HIDE DEF k, h
    <3>2. g[k + 1] = Apply(g[k], rest[k + 1])
      BY <1>1, <3>1
    <3>3. rest[n] = ops[n + 1]
      BY <3>1
    <3> QED BY <2>1, <3>1, <3>2, <3>3
  <2> QED BY <2>2, <2>3
<1>4. Len(ops) \in Nat
  OBVIOUS
<1> HIDE DEF h
<1>5. h[Len(ops)] = Executed(m, ops)
  BY <1>2, <1>3, <1>4, StepsReachExecuted
<1> QED BY <1>1, <1>2, <1>5 DEF start

(* Operations change what the bytes hold, not which there are; copies to   *)
(* the host change nothing.                                                *)
LEMMA ExecutedDomain ==
  ASSUME NEW m, NEW ops, Len(ops) \in Nat
  PROVE  DOMAIN Executed(m, ops) = DOMAIN m
<1>1. PICK g : /\ Executed(m, ops) = g[Len(ops)] /\ g[0] = m
               /\ \A n \in 0 .. Len(ops) - 1 : g[n + 1] = Apply(g[n], ops[n + 1])
  BY ExecutedSteps
<1>2. ASSUME NEW w, NEW op  PROVE DOMAIN Apply(w, op) = DOMAIN w
  BY DEF Apply
<1> DEFINE S == {n \in Nat : n <= Len(ops) => DOMAIN g[n] = DOMAIN m}
<1>3. 0 \in S
  BY <1>1
<1>4. ASSUME NEW n \in Nat, n \in S  PROVE n + 1 \in S
  <2>1. CASE n + 1 <= Len(ops)
    <3>1. n \in 0 .. Len(ops) - 1 /\ DOMAIN g[n] = DOMAIN m
      BY <1>4, <2>1
    <3>2. g[n + 1] = Apply(g[n], ops[n + 1])
      BY <1>1, <3>1
    <3>3. DOMAIN g[n + 1] = DOMAIN m
      BY <1>2, <3>1, <3>2
    <3> QED BY <3>3
  <2> QED BY <2>1
<1> HIDE DEF S
<1>5. Nat \subseteq S
  BY <1>3, <1>4, SetInduction
<1> QED BY <1>1, <1>5 DEF S

LEMMA ExecutedFetches ==
  ASSUME NEW m, NEW ops, Len(ops) \in Nat,
         \A j \in 1 .. Len(ops) : ops[j].kind = "fetch"
  PROVE  Executed(m, ops) = m
<1> DEFINE h == [n \in 0 .. Len(ops) |-> m]
<1>1. h[0] = m /\ h[Len(ops)] = m
  OBVIOUS
<1>2. ASSUME NEW n \in 0 .. Len(ops) - 1  PROVE h[n + 1] = Apply(h[n], ops[n + 1])
  <2>1. h[n] = m /\ h[n + 1] = m /\ n + 1 \in 1 .. Len(ops)
    OBVIOUS
  <2> HIDE DEF h
  <2> QED BY <2>1 DEF Apply
<1> HIDE DEF h
<1> QED BY <1>1, <1>2, StepsReachExecuted

-----------------------------------------------------------------------------
(* What an operation does to the contents of a region.                     *)
Place == [off : Nat, bytes : Size]
Offsets == 0 .. Capacity - 1
Apart(r, q) == Cells(r) \cap Cells(q) = {}

StreamOp ==
  [stream : {"default", "device"}, kind : {"kernel", "write", "fetch"}, id : Nat,
   dst : Place, src : Place]

LEMMA ContentsKept ==
  ASSUME NEW m, NEW op, NEW r, Cells(r) \subseteq DOMAIN m,
         op.kind = "fetch" \/ Apart(r, op.dst)
  PROVE  Contents(Apply(m, op), r) = Contents(m, r)
<1>1. ASSUME NEW o \in Cells(r)  PROVE Apply(m, op)[o] = m[o]
  <2>1. CASE op.kind = "fetch"
    BY <2>1 DEF Apply
  <2>2. CASE op.kind # "fetch"
    BY <2>2 DEF Apply, Apart
  <2> QED BY <2>1, <2>2
<1> QED BY <1>1 DEF Contents

LEMMA ContentsWritten ==
  ASSUME NEW m, NEW op, Cells(op.dst) \subseteq DOMAIN m, op.kind # "fetch"
  PROVE  Contents(Apply(m, op), op.dst) = Result(op, Contents(m, op.src))
<1>1. ASSUME NEW o \in Cells(op.dst)
      PROVE  Apply(m, op)[o] = Output(op, Contents(m, op.src))
  BY <1>1 DEF Apply
<1> QED BY <1>1 DEF Contents, Result

(* A list of regions inside the allocation, no two of which overlap.       *)
Sound(l) ==
  \A i \in 1 .. Len(l) :
    /\ l[i].off + l[i].bytes <= Capacity
    /\ \A j \in 1 .. i - 1 : RegionsDisjoint(l[j], l[i])

LEMMA InCells ==
  ASSUME NEW g, g.off \in Nat, g.bytes \in Nat, NEW o \in Cells(g)
  PROVE  o \in Int /\ g.off <= o /\ o < g.off + g.bytes
  BY DEF Cells

LEMMA SoundCells ==
  ASSUME NEW l \in Seq(Place), Sound(l), NEW i \in 1 .. Len(l)
  PROVE  /\ l[i] \in Place
         /\ Cells(l[i]) \subseteq Offsets
         /\ \A j \in 1 .. Len(l) : j # i => Apart(l[i], l[j])
<1>1. Word \in Nat /\ Capacity \in Nat
  BY LayoutAssumption, ArenaAssumption DEF Size
<1>2. ASSUME NEW j \in 1 .. Len(l)
      PROVE  l[j] \in Place /\ l[j].off \in Nat /\ l[j].bytes \in Nat
  <2>1. l[j] \in Place
    BY ElementInSet
  <2> QED BY <1>1, <2>1 DEF Place, Size
<1>3. ASSUME NEW o \in Cells(l[i])  PROVE o \in Offsets
  <2>1. l[i].off + l[i].bytes <= Capacity
    BY DEF Sound
  <2> QED BY <1>1, <1>2, <2>1 DEF Cells, Offsets
<1>4. ASSUME NEW j \in 1 .. Len(l), NEW k \in 1 .. j - 1  PROVE Apart(l[j], l[k])
  <2>1. k \in 1 .. Len(l)
    OBVIOUS
  <2>2. RegionsDisjoint(l[k], l[j])
    BY DEF Sound
  <2>3. /\ l[j].off \in Nat /\ l[j].bytes \in Nat
        /\ l[k].off \in Nat /\ l[k].bytes \in Nat
    BY <1>2, <2>1
  <2>4. ASSUME NEW o \in Cells(l[j]), o \in Cells(l[k])  PROVE FALSE
    <3>1. o \in Int /\ l[j].off <= o /\ o < l[j].off + l[j].bytes
      BY <2>3, InCells
    <3>2. l[k].off <= o /\ o < l[k].off + l[k].bytes
      BY <2>3, <2>4, InCells
    <3>3. l[k].off + l[k].bytes <= l[j].off \/ l[j].off + l[j].bytes <= l[k].off
      BY <2>2 DEF RegionsDisjoint
    <3> DEFINE a == l[j].off
               b == l[j].off + l[j].bytes
               c == l[k].off
               d == l[k].off + l[k].bytes
    <3>4. /\ a \in Nat /\ b \in Nat /\ c \in Nat /\ d \in Nat /\ o \in Int
          /\ a <= o /\ o < b /\ c <= o /\ o < d /\ (d <= a \/ b <= c)
      BY <2>3, <3>1, <3>2, <3>3, SMTT(20)
    <3> HIDE DEF a, b, c, d
    <3> QED BY ONLY <3>4
  <2> QED BY <2>4 DEF Apart
<1>5. ASSUME NEW j \in 1 .. Len(l), j # i  PROVE Apart(l[i], l[j])
  <2>1. CASE j < i
    BY <1>4, <2>1
  <2>2. CASE i < j
    <3>1. Apart(l[j], l[i])
      BY <1>4, <2>2
    <3> QED BY <3>1 DEF Apart
  <2> QED BY <1>5, <2>1, <2>2
<1> QED BY <1>2, <1>3, <1>5

(* The tensors of a list hold what they should; appending one, and writing *)
(* one, keeps that.                                                        *)
Hold(m, l, h) == \A i \in 1 .. Len(l) : h[i] # Unset => Contents(m, l[i]) = h[i]

LEMMA HoldAppend ==
  ASSUME NEW m, NEW l, NEW h, Hold(m, l, h), Len(l) \in Nat,
         NEW l2, Len(l2) = Len(l) + 1, NEW h2,
         \A i \in 1 .. Len(l) : l2[i] = l[i] /\ h2[i] = h[i],
         h2[Len(l) + 1] = Unset
  PROVE  Hold(m, l2, h2)
<1> SUFFICES ASSUME NEW i \in 1 .. Len(l2), h2[i] # Unset
             PROVE  Contents(m, l2[i]) = h2[i]
  BY DEF Hold
<1>1. i \in 1 .. Len(l)
  OBVIOUS
<1> QED BY <1>1 DEF Hold

LEMMA HoldWrite ==
  ASSUME NEW m, NEW l \in Seq(Place), NEW h, NEW h2, Sound(l), Hold(m, l, h),
         DOMAIN m = Offsets, NEW op, NEW d \in 1 .. Len(l),
         op.kind # "fetch", op.dst = l[d],
         h2[d] = Result(op, Contents(m, op.src)),
         \A i \in 1 .. Len(l) : i # d => h2[i] = h[i]
  PROVE  Hold(Apply(m, op), l, h2)
<1> SUFFICES ASSUME NEW i \in 1 .. Len(l), h2[i] # Unset
             PROVE  Contents(Apply(m, op), l[i]) = h2[i]
  BY DEF Hold
<1>1. Cells(l[i]) \subseteq DOMAIN m
  BY SoundCells
<1>2. CASE i = d
  <2>1. Contents(Apply(m, op), op.dst) = Result(op, Contents(m, op.src))
    BY <1>1, <1>2, ContentsWritten
  <2> QED BY <1>2, <2>1
<1>3. CASE i # d
  <2>1. Apart(l[i], op.dst)
    BY <1>3, SoundCells
  <2>2. Contents(Apply(m, op), l[i]) = Contents(m, l[i])
    BY <1>1, <2>1, ContentsKept
  <2> QED BY <1>3, <2>2 DEF Hold
<1> QED BY <1>2, <1>3

LEMMA SoundLive ==
  /\ IInv => Sound(live) /\ live \in Seq(Place)
  /\ IInv' => Sound(live') /\ live' \in Seq(Place)
BY DEF IInv, TypeOK, LiveSound, Sound, Place

-----------------------------------------------------------------------------
(* The inductive invariant: between its steps a program has its two        *)
(* buffers of equal size, what the host still waits for is at the end of   *)
(* the queue, and TensorsHold itself.                                      *)
IsSequence(q) == q \in Seq({q[i] : i \in 1 .. Len(q)})

QueueType ==
  /\ pending \in Seq(StreamOp)
  /\ DOMAIN mem = Offsets
  /\ calls \in Nat
  /\ IsSequence(held) /\ Len(held) = Len(live)
  /\ IsSequence(host) /\ IsSequence(want)

TwoBuffers ==
  /\ pc = "divergence" => live # <<>>
  /\ pc = "fill" =>
       Len(live) > 1 /\ live[Len(live) - 1].bytes = live[Len(live)].bytes

Due == Len(want) - Len(host)

HostDue ==
  /\ Due \in 0 .. Len(pending)
  /\ pc # "waiting" => Due = 0
  /\ \A j \in 1 .. Len(pending) : pending[j].kind = "fetch" <=> j > Len(pending) - Due
  /\ \A i \in 1 .. Len(host) : host[i] = want[i]
  /\ \A i \in 1 .. Due :
       want[Len(host) + i] = Contents(Eventual, pending[Len(pending) - Due + i].src)

StreamInv == QueueType /\ TwoBuffers /\ HostDue /\ TensorsHold

LEMMA InitStreamInv == InitStream => StreamInv
<1> SUFFICES ASSUME InitStream PROVE StreamInv
  OBVIOUS
<1>1. IsSequence(<<>>) /\ Len(<<>>) = 0
  BY DEF IsSequence
<1>2. pending = <<>> /\ held = <<>> /\ live = <<>> /\ host = <<>> /\ want = <<>>
  BY DEF InitStream, Init
<1>3. QueueType
  BY <1>1, <1>2 DEF InitStream, QueueType, Offsets
<1>4. TwoBuffers
  BY DEF InitStream, TwoBuffers
<1>5. HostDue
  BY <1>1, <1>2 DEF HostDue, Due
<1>6. TensorsHold
  BY <1>1, <1>2 DEF TensorsHold, Tensors
<1> QED BY <1>3, <1>4, <1>5, <1>6 DEF StreamInv

LEMMA AppendSequence ==
  ASSUME NEW q, IsSequence(q), NEW x
  PROVE  /\ IsSequence(Append(q, x)) /\ Len(q) \in Nat
         /\ Len(Append(q, x)) = Len(q) + 1
         /\ Append(q, x)[Len(q) + 1] = x
         /\ \A i \in 1 .. Len(q) : Append(q, x)[i] = q[i]
<1> DEFINE S == {q[i] : i \in 1 .. Len(q)}
           T == S \cup {x}
           r == Append(q, x)
<1>1. q \in Seq(T) /\ x \in T
  <2>1. q \in Seq(S)
    BY DEF IsSequence
  <2> HIDE DEF S
  <2> QED BY <2>1
<1> HIDE DEF T
<1>2. /\ r \in Seq(T) /\ Len(q) \in Nat /\ Len(r) = Len(q) + 1 /\ r[Len(q) + 1] = x
      /\ \A i \in 1 .. Len(q) : r[i] = q[i]
  BY <1>1, AppendFacts
<1> HIDE DEF r
<1>3. r \in Seq({r[i] : i \in 1 .. Len(r)})
  <2> DEFINE U == {r[i] : i \in 1 .. Len(r)}
  <2>1. \A i \in 1 .. Len(r) : r[i] \in U
    OBVIOUS
  <2>2. Len(r) \in Nat /\ r = [i \in 1 .. Len(r) |-> r[i]]
    BY <1>2
  <2> HIDE DEF U
  <2>3. r \in [1 .. Len(r) -> U]
    BY <2>1, <2>2
  <2>4. r \in Seq(U)
    BY <2>2, <2>3
  <2> QED BY <2>4 DEF U
<1> QED BY <1>2, <1>3 DEF IsSequence, r

LEMMA SequenceShape ==
  ASSUME NEW q, IsSequence(q)
  PROVE  Len(q) \in Nat /\ DOMAIN q = 1 .. Len(q) /\ q = [i \in 1 .. Len(q) |-> q[i]]
BY DEF IsSequence

LEMMA ShapeSequence ==
  ASSUME NEW r, NEW n \in Nat, r = [i \in 1 .. n |-> r[i]]
  PROVE  IsSequence(r) /\ Len(r) = n
<1> DEFINE V == {r[i] : i \in 1 .. n}
<1>1. \A i \in 1 .. n : r[i] \in V
  OBVIOUS
<1> HIDE DEF V
<1>2. r \in [1 .. n -> V]
  BY <1>1
<1>3. r \in Seq(V) /\ Len(r) = n
  BY <1>2
<1>4. V = {r[i] : i \in 1 .. Len(r)}
  BY <1>3 DEF V
<1> QED BY <1>3, <1>4 DEF IsSequence

(* An allocation adds a tensor or aborts.                                  *)
LEMMA TakeAdds ==
  ASSUME IInv, NEW bytes \in Size, NEW contents, Take(bytes, contents),
         IsSequence(held), Len(held) = Len(live)
  PROVE  \/ /\ Running' /\ Len(live) \in Nat /\ Len(live') = Len(live) + 1
            /\ \A i \in 1 .. Len(live) : live'[i] = live[i] /\ held'[i] = held[i]
            /\ live'[Len(live) + 1] = [off |-> Aligned(used), bytes |-> bytes]
            /\ held'[Len(live) + 1] = contents
            /\ IsSequence(held') /\ Len(held') = Len(live')
         \/ ~Running' /\ live' = live /\ held' = held
<1> DEFINE new == [off |-> Aligned(used), bytes |-> bytes]
<1>1. Running /\ (Grant(bytes) \/ Refuse(bytes))
  BY DEF Take, AllocBytes
<1>2. CASE Grant(bytes)
  <2>1. live' = Append(live, new) /\ refused' = refused
    BY <1>2 DEF Grant
  <2>2. live \in Seq([off : Nat, bytes : Size])
    BY DEF IInv, TypeOK
  <2> DEFINE R == [off : Nat, bytes : Size]
             S == R \cup {new}
  <2>3. live \in Seq(S) /\ new \in S
    <3>1. live \in Seq(R)
      BY <2>2
    <3> HIDE DEF new, R
    <3> QED BY <3>1
  <2> HIDE DEF S, new
  <2>4. /\ Len(live) \in Nat /\ Len(live') = Len(live) + 1
        /\ live'[Len(live) + 1] = new
        /\ \A i \in 1 .. Len(live) : live'[i] = live[i]
    BY <2>1, <2>3, AppendFacts
  <2>5. held' = Append(held, contents)
    BY <2>4 DEF Take
  <2>6. /\ IsSequence(held') /\ Len(held') = Len(held) + 1
        /\ held'[Len(held) + 1] = contents
        /\ \A i \in 1 .. Len(held) : held'[i] = held[i]
    BY <2>5, AppendSequence
  <2>7. Running'
    BY <1>1, <2>1 DEF Running
  <2> QED BY <2>4, <2>6, <2>7 DEF new
<1>3. CASE Refuse(bytes)
  <2>1. live' = live /\ refused' = bytes
    BY <1>3 DEF Refuse
  <2>2. bytes # NoRequest
    BY LayoutAssumption DEF Size, NoRequest
  <2>3. Len(live) \in Nat
    BY DEF IInv, TypeOK
  <2> QED BY <2>1, <2>2, <2>3 DEF Take, Running
<1> QED BY <1>1, <1>2, <1>3

(* A tensor that has been allocated and not written holds nothing.         *)
LEMMA TakeHolds ==
  ASSUME IInv, NEW bytes \in Size, Take(bytes, Unset), StreamInv,
         UNCHANGED <<mem, pending>>
  PROVE  TensorsHold' /\ IsSequence(held') /\ Len(held') = Len(live')
<1>1. IsSequence(held) /\ Len(held) = Len(live)
  BY DEF StreamInv, QueueType
<1>2. Eventual' = Eventual
  BY DEF Eventual
<1>3. Hold(Eventual, live, held)
  BY DEF StreamInv, TensorsHold, Hold, Tensors
<1>4. CASE ~Running' /\ live' = live /\ held' = held
  BY <1>1, <1>2, <1>3, <1>4 DEF TensorsHold, Hold, Tensors
<1>5. CASE /\ Running' /\ Len(live) \in Nat /\ Len(live') = Len(live) + 1
           /\ \A i \in 1 .. Len(live) : live'[i] = live[i] /\ held'[i] = held[i]
           /\ held'[Len(live) + 1] = Unset
           /\ IsSequence(held') /\ Len(held') = Len(live')
  <2>1. Hold(Eventual, live', held')
    BY <1>3, <1>5, HoldAppend
  <2> QED BY <1>2, <1>5, <2>1 DEF TensorsHold, Hold, Tensors
<1> QED BY <1>1, <1>4, <1>5, TakeAdds

(* Nothing is due while the host is not waiting, and what is due stays due.*)
LEMMA HostUntouched ==
  ASSUME HostDue, UNCHANGED <<mem, pending, host, want>>,
         pc' = pc \/ (pc # "waiting" /\ pc' # "waiting")
  PROVE  HostDue'
<1>1. Eventual' = Eventual /\ Due' = Due
  BY DEF Eventual, Due
<1> QED BY <1>1 DEF HostDue

-----------------------------------------------------------------------------
(* The steps of a program with a device.                                   *)
LEMMA EventualDomain ==
  ASSUME QueueType
  PROVE  DOMAIN Eventual = Offsets /\ Len(pending) \in Nat
<1>1. Len(pending) \in Nat
  BY DEF QueueType
<1> QED BY <1>1, ExecutedDomain DEF Eventual, QueueType

LEMMA IssueOne ==
  ASSUME QueueType, NEW op \in StreamOp, pending' = Append(pending, op), mem' = mem
  PROVE  /\ Eventual' = Apply(Eventual, op)
         /\ pending' \in Seq(StreamOp) /\ Len(pending') = Len(pending) + 1
         /\ pending'[Len(pending) + 1] = op
         /\ \A j \in 1 .. Len(pending) : pending'[j] = pending[j]
<1>1. pending \in Seq(StreamOp)
  BY DEF QueueType
<1>2. /\ pending' \in Seq(StreamOp) /\ Len(pending) \in Nat
      /\ Len(pending') = Len(pending) + 1 /\ pending'[Len(pending) + 1] = op
      /\ \A j \in 1 .. Len(pending) : pending'[j] = pending[j]
  BY <1>1, AppendFacts
<1>3. Executed(mem, pending') = Apply(Executed(mem, pending), op)
  <2>1. /\ Len(pending) \in Nat /\ Len(pending') = Len(pending) + 1
        /\ pending'[Len(pending) + 1] = op
        /\ \A j \in 1 .. Len(pending) : pending'[j] = pending[j]
    BY <1>2
  <2> QED BY ONLY <2>1, ExecutedLast
<1> QED BY <1>2, <1>3 DEF Eventual

(* Work queued while the host runs is not for the host.                    *)
LEMMA WorkIssued ==
  ASSUME StreamInv, pc # "waiting", pc' = pc, UNCHANGED <<mem, host, want>>,
         NEW op \in StreamOp, op.kind # "fetch", pending' = Append(pending, op)
  PROVE  HostDue'
<1>1. /\ Len(pending) \in Nat /\ Len(pending') = Len(pending) + 1
      /\ pending'[Len(pending) + 1] = op
      /\ \A j \in 1 .. Len(pending) : pending'[j] = pending[j]
  BY EventualDomain, IssueOne DEF StreamInv
<1>2. Due = 0 /\ Due' = 0
  BY DEF StreamInv, HostDue, Due
<1>3. ASSUME NEW j \in 1 .. Len(pending')  PROVE pending'[j].kind # "fetch"
  <2>1. CASE j = Len(pending) + 1
    BY <1>1, <2>1
  <2>2. CASE j # Len(pending) + 1
    <3>1. j \in 1 .. Len(pending) /\ ~(j > Len(pending) - Due)
      BY <1>1, <1>2, <2>2
    <3> QED BY <1>1, <3>1 DEF StreamInv, HostDue
  <2> QED BY <2>1, <2>2
<1>4. \A j \in 1 .. Len(pending') : ~(j > Len(pending') - Due')
  BY <1>1, <1>2
<1>5. \A i \in 1 .. Len(host) : host'[i] = want'[i]
  BY DEF StreamInv, HostDue
<1> QED BY <1>1, <1>2, <1>3, <1>4, <1>5 DEF HostDue

LEMMA LaunchStep ==
  ASSUME IInv, StreamInv, NEW dst \in Tensors, NEW src \in Tensors, Launch(dst, src)
  PROVE  StreamInv'
<1> DEFINE op == Kernel(calls, live[dst], live[src])
<1>1. live \in Seq(Place) /\ Sound(live) /\ QueueType /\ live' = live
  BY SoundLive DEF StreamInv, Launch, vars
<1>2. live[dst] \in Place /\ live[src] \in Place
  BY <1>1, SoundCells DEF Tensors
<1>3. op \in StreamOp /\ op.kind = "kernel" /\ op.dst = live[dst] /\ op.src = live[src]
  BY <1>1, <1>2 DEF Kernel, StreamOp, ctx_stream, QueueType
<1>4. /\ pending' = Append(pending, op) /\ mem' = mem
      /\ held' = [held EXCEPT ![dst] = Result(op, held[src])]
      /\ held[src] # Unset /\ calls' = calls + 1
      /\ pc = "idle" /\ pc' = pc /\ UNCHANGED <<host, want>>
  BY DEF Launch, Calling, HostRuns
<1> HIDE DEF op
<1>5. Eventual' = Apply(Eventual, op) /\ pending' \in Seq(StreamOp)
  BY <1>1, <1>3, <1>4, IssueOne
<1>6. HostDue'
  BY <1>3, <1>4, WorkIssued
<1>7. /\ IsSequence(held') /\ Len(held') = Len(live)
      /\ held'[dst] = Result(op, held[src])
      /\ \A i \in 1 .. Len(live) : i # dst => held'[i] = held[i]
  <2> DEFINE new == Result(op, held[src])
  <2>1. dst \in 1 .. Len(held) /\ IsSequence(held) /\ Len(held) = Len(live)
    BY <1>1 DEF QueueType, Tensors
  <2>2. held' = [held EXCEPT ![dst] = new]
    BY <1>4
  <2> HIDE DEF new
  <2>3. /\ IsSequence(held') /\ Len(held') = Len(held) /\ held'[dst] = new
        /\ \A i \in 1 .. Len(held) : i # dst => held'[i] = held[i]
    <3>1. Len(held) \in Nat /\ DOMAIN held = 1 .. Len(held)
      BY <2>1, SequenceShape
    <3>2. held' = [i \in 1 .. Len(held) |-> held'[i]]
      BY <2>2, <3>1
    <3>3. IsSequence(held') /\ Len(held') = Len(held)
      BY ONLY <3>1, <3>2, ShapeSequence
    <3> QED BY <2>1, <2>2, <3>1, <3>3
  <2> QED BY <2>1, <2>3 DEF new
<1>8. Contents(Eventual, live[src]) = held[src]
  BY <1>4 DEF StreamInv, TensorsHold
<1>9. DOMAIN Eventual = Offsets /\ Hold(Eventual, live, held)
  BY <1>1, EventualDomain DEF StreamInv, TensorsHold, Hold, Tensors
<1>10. Hold(Apply(Eventual, op), live, held')
  <2>1. dst \in 1 .. Len(live) /\ op.kind # "fetch" /\ op.dst = live[dst]
    BY <1>3 DEF Tensors
  <2>2. held'[dst] = Result(op, Contents(Eventual, op.src))
    BY <1>3, <1>7, <1>8
  <2> QED BY <1>1, <1>7, <1>9, <2>1, <2>2, HoldWrite
<1>11. QueueType'
  BY <1>1, <1>4, <1>5, <1>7 DEF QueueType
<1>12. TwoBuffers'
  BY <1>1, <1>4 DEF TwoBuffers
<1>13. TensorsHold'
  BY <1>1, <1>5, <1>10 DEF TensorsHold, Hold, Tensors
<1> QED BY <1>6, <1>11, <1>12, <1>13 DEF StreamInv

LEMMA WriteResult ==
  ASSUME NEW op, op.kind = "write", NEW a, NEW b
  PROVE  Result(op, a) = Result(op, b)
BY DEF Result, Output

LEMMA UploadStep ==
  ASSUME IInv, IInv', StreamInv, NEW bytes \in Size, Upload(bytes)
  PROVE  StreamInv'
<1> DEFINE op == Write(calls, [off |-> Aligned(used), bytes |-> bytes])
           c == Result(op, {})
           n == Len(live) + 1
<1>1. /\ QueueType /\ IsSequence(held) /\ Len(held) = Len(live)
      /\ pc = "idle" /\ pc' = pc /\ UNCHANGED <<mem, host, want>>
      /\ calls' = calls + 1 /\ Take(bytes, c)
      /\ pending' = IF Len(live') > Len(live) THEN Append(pending, op) ELSE pending
  BY DEF StreamInv, QueueType, Upload, Calling, HostRuns
<1>2. TwoBuffers'
  BY <1>1 DEF TwoBuffers
<1>3. CASE ~Running' /\ live' = live /\ held' = held
  <2>1. Len(live) \in Nat
    BY DEF IInv, TypeOK
  <2>2. pending' = pending
    BY <1>1, <1>3, <2>1
  <2>3. Eventual' = Eventual
    BY <1>1, <2>2 DEF Eventual
  <2>4. HostDue'
    BY <1>1, <2>2, HostUntouched DEF StreamInv
  <2>5. QueueType' /\ TensorsHold'
    BY <1>1, <1>3, <2>2, <2>3 DEF StreamInv, QueueType, TensorsHold, Tensors
  <2> QED BY <1>2, <2>4, <2>5 DEF StreamInv
<1>4. CASE /\ Running' /\ Len(live) \in Nat /\ Len(live') = n
           /\ \A i \in 1 .. Len(live) : live'[i] = live[i] /\ held'[i] = held[i]
           /\ live'[n] = [off |-> Aligned(used), bytes |-> bytes]
           /\ held'[n] = c
           /\ IsSequence(held') /\ Len(held') = Len(live')
  <2>1. n \in 1 .. Len(live') /\ pending' = Append(pending, op)
    BY <1>1, <1>4
  <2>2. Sound(live') /\ live' \in Seq(Place)
    BY SoundLive
  <2>3. live'[n] \in Place
    BY <2>1, <2>2, ElementInSet
  <2>4. op \in StreamOp /\ op.kind = "write" /\ op.dst = live'[n]
    BY <1>1, <1>4, <2>3 DEF Write, StreamOp, ctx_stream, QueueType
  <2>5. c = Result(op, Contents(Eventual, op.src))
    BY <2>4, WriteResult
  <2> HIDE DEF op, c
  <2>6. Eventual' = Apply(Eventual, op) /\ pending' \in Seq(StreamOp)
    BY <1>1, <2>1, <2>4, IssueOne
  <2>7. HostDue'
    BY <1>1, <2>1, <2>4, WorkIssued
  <2> DEFINE h == [i \in 1 .. n |-> IF i = n THEN Unset ELSE held[i]]
  <2>8. h[n] = Unset /\ \A i \in 1 .. Len(live) : h[i] = held[i]
    BY <1>4
  <2> HIDE DEF h
  <2>9. Hold(Eventual, live, held) /\ DOMAIN Eventual = Offsets
    BY <1>1, EventualDomain DEF StreamInv, TensorsHold, Hold, Tensors
  <2>10. Hold(Eventual, live, h)
    BY <2>8, <2>9 DEF Hold
  <2>11. Hold(Eventual, live', h)
    <3>1. Len(live) \in Nat /\ Len(live') = Len(live) + 1 /\ h[Len(live) + 1] = Unset
      BY <1>4, <2>8
    <3>2. \A i \in 1 .. Len(live) : live'[i] = live[i] /\ h[i] = h[i]
      BY <1>4
    <3> QED BY <2>10, <3>1, <3>2, HoldAppend
  <2>12. \A i \in 1 .. Len(live') : i # n => held'[i] = h[i]
    BY <1>4, <2>8
  <2>13. Hold(Apply(Eventual, op), live', held')
    <3>1. op.kind # "fetch" /\ held'[n] = Result(op, Contents(Eventual, op.src))
      BY <1>4, <2>4, <2>5
    <3> HIDE DEF n
    <3> QED BY <2>1, <2>2, <2>4, <2>9, <2>11, <2>12, <3>1, HoldWrite
  <2>14. TensorsHold'
    BY <2>6, <2>13 DEF TensorsHold, Hold, Tensors
  <2>15. QueueType'
    BY <1>1, <1>4, <2>6 DEF QueueType
  <2> QED BY <1>2, <2>7, <2>14, <2>15 DEF StreamInv
<1> HIDE DEF c
<1> QED BY <1>1, <1>3, <1>4, TakeAdds

(* Steps of the host that only allocate.                                   *)
LEMMA TakeStep ==
  ASSUME IInv, StreamInv, NEW bytes \in Size, Take(bytes, Unset),
         UNCHANGED deviceVars, pc' = pc \/ (pc # "waiting" /\ pc' # "waiting"),
         TwoBuffers'
  PROVE  StreamInv'
<1>1. UNCHANGED <<mem, pending, host, want>> /\ calls' = calls
  BY DEF deviceVars
<1>2. TensorsHold' /\ IsSequence(held') /\ Len(held') = Len(live')
  BY <1>1, TakeHolds
<1>3. HostDue'
  BY <1>1, HostUntouched DEF StreamInv
<1>4. QueueType'
  BY <1>1, <1>2 DEF StreamInv, QueueType
<1> QED BY <1>2, <1>3, <1>4 DEF StreamInv

LEMMA TakeGrows ==
  ASSUME IInv, StreamInv, NEW bytes \in Size, Take(bytes, Unset), Running'
  PROVE  /\ Len(live) \in Nat /\ Len(live') = Len(live) + 1
         /\ \A i \in 1 .. Len(live) : live'[i] = live[i]
         /\ live'[Len(live) + 1].bytes = bytes
<1>1. IsSequence(held) /\ Len(held) = Len(live)
  BY DEF StreamInv, QueueType
<1>2. /\ Len(live) \in Nat /\ Len(live') = Len(live) + 1
      /\ \A i \in 1 .. Len(live) : live'[i] = live[i]
      /\ live'[Len(live) + 1] = [off |-> Aligned(used), bytes |-> bytes]
  BY <1>1, TakeAdds
<1> QED BY <1>2

LEMMA RequestStep ==
  ASSUME NoWrap, IInv, StreamInv, program \in Programs, Request
  PROVE  StreamInv'
<1>1. PICK bytes \in RequestBytes : Take(bytes, Unset)
  BY ProgramsAssumption DEF Request, RequestBytes
<1>2. bytes \in Size
  BY EndExact DEF IInv, TypeOK
<1>3. pc = "idle" /\ pc' = pc /\ UNCHANGED deviceVars
  BY DEF Request, HostRuns
<1>4. TwoBuffers'
  BY <1>3 DEF TwoBuffers
<1> QED BY <1>1, <1>2, <1>3, <1>4, TakeStep

LEMMA TakeFirstStep ==
  ASSUME IInv, StreamInv, NEW bytes \in Size, TakeFirst(bytes)
  PROVE  StreamInv'
<1>1. /\ Take(bytes, Unset) /\ pc = "idle" /\ UNCHANGED deviceVars
      /\ pc' = IF Running' THEN "divergence" ELSE pc
  BY DEF TakeFirst, Calling, HostRuns
<1>2. pc = "idle" /\ pc' \in {"idle", "divergence"}
  BY <1>1
<1>3. TwoBuffers'
  <2>1. CASE pc' = "divergence"
    <3>1. Running'
      BY <1>1, <2>1
    <3>2. Len(live) \in Nat /\ Len(live') = Len(live) + 1
      BY <1>1, <3>1, TakeGrows
    <3>3. live' # <<>>
      BY <3>2
    <3> QED BY <2>1, <3>3 DEF TwoBuffers
  <2>2. CASE pc' = "idle"
    BY <2>2 DEF TwoBuffers
  <2> QED BY <1>2, <2>1, <2>2
<1> QED BY <1>1, <1>2, <1>3, TakeStep

LEMMA TakeSecondStep ==
  ASSUME IInv, StreamInv, NEW bytes \in Size, TakeSecond(bytes)
  PROVE  StreamInv'
<1>1. /\ Take(bytes, Unset) /\ pc = "divergence" /\ UNCHANGED deviceVars
      /\ bytes = live[Len(live)].bytes
      /\ pc' = IF Running' THEN "fill" ELSE pc
  BY DEF TakeSecond
<1>2. pc = "divergence" /\ pc' \in {"fill", "divergence"}
  BY <1>1
<1>3. live # <<>> /\ live \in Seq(Place)
  BY <1>1, SoundLive DEF StreamInv, TwoBuffers
<1>4. TwoBuffers'
  <2>1. CASE Running'
    <3>1. /\ Len(live) \in Nat /\ Len(live') = Len(live) + 1
          /\ \A i \in 1 .. Len(live) : live'[i] = live[i]
          /\ live'[Len(live) + 1].bytes = bytes
      BY <1>1, <2>1, TakeGrows
    <3>2. Len(live) \in 1 .. Len(live)
      BY <1>3
    <3>3. /\ Len(live') > 1
          /\ live'[Len(live') - 1].bytes = live'[Len(live')].bytes
      BY <1>1, <3>1, <3>2
    <3>4. pc' = "fill"
      BY <1>1, <2>1
    <3> QED BY <3>3, <3>4 DEF TwoBuffers
  <2>2. CASE ~Running'
    <3>1. live' = live /\ pc' = "divergence"
      <4>1. IsSequence(held) /\ Len(held) = Len(live)
        BY DEF StreamInv, QueueType
      <4> QED BY <1>1, <2>2, <4>1, TakeAdds
    <3> QED BY <1>3, <3>1 DEF TwoBuffers
  <2> QED BY <2>1, <2>2
<1> QED BY <1>1, <1>2, <1>4, TakeStep

LEMMA ShortSequences ==
  /\ IsSequence(<<>>) /\ Len(<<>>) = 0
  /\ \A x : IsSequence(<<x>>) /\ Len(<<x>>) = 1 /\ <<x>>[1] = x
  /\ \A x, y : /\ IsSequence(<<x, y>>) /\ Len(<<x, y>>) = 2
               /\ <<x, y>>[1] = x /\ <<x, y>>[2] = y
<1>1. IsSequence(<<>>) /\ Len(<<>>) = 0
  BY DEF IsSequence
<1>2. ASSUME NEW x  PROVE IsSequence(<<x>>) /\ Len(<<x>>) = 1 /\ <<x>>[1] = x
  BY DEF IsSequence
<1>3. ASSUME NEW x, NEW y
      PROVE  /\ IsSequence(<<x, y>>) /\ Len(<<x, y>>) = 2
             /\ <<x, y>>[1] = x /\ <<x, y>>[2] = y
  <2> DEFINE q == <<x, y>>
             S == {q[i] : i \in 1 .. Len(q)}
  <2>1. Len(q) = 2 /\ q[1] = x /\ q[2] = y
    OBVIOUS
  <2>2. x \in S /\ y \in S
    <3>1. q[1] \in S /\ q[2] \in S
      BY <2>1
    <3> QED BY <2>1, <3>1
  <2> HIDE DEF S
  <2>3. q \in Seq(S)
    BY <2>2
  <2> QED BY <2>1, <2>3 DEF IsSequence, S
<1> QED BY <1>1, <1>2, <1>3

LEMMA ResetStepInv ==
  ASSUME StreamInv, ResetStep
  PROVE  StreamInv'
<1>1. /\ live' = <<>> /\ held' = <<>> /\ pc = "idle" /\ pc' = "idle"
      /\ UNCHANGED <<mem, pending, host, want, calls>>
  BY DEF ResetStep, Reset, HostRuns, deviceVars
<1>2. QueueType'
  BY <1>1, ShortSequences DEF StreamInv, QueueType
<1>3. TwoBuffers'
  BY <1>1 DEF TwoBuffers
<1>4. HostDue'
  BY <1>1, HostUntouched DEF StreamInv
<1>5. TensorsHold'
  BY <1>1, ShortSequences DEF TensorsHold, Tensors
<1> QED BY <1>2, <1>3, <1>4, <1>5 DEF StreamInv

LEMMA DownloadStep ==
  ASSUME IInv, StreamInv, NEW i \in Tensors, Download(i)
  PROVE  StreamInv'
<1> DEFINE op == Fetch("default", live[i])
           n == Len(pending)
<1>1. /\ pending' = Append(pending, op) /\ held[i] # Unset
      /\ host' = <<>> /\ want' = <<held[i]>>
      /\ pc = "idle" /\ pc' = "waiting" /\ calls' = calls + 1
      /\ live' = live /\ mem' = mem /\ held' = held
  BY DEF Download, Calling, HostRuns, vars
<1>2. QueueType /\ live \in Seq(Place) /\ live[i] \in Place
  BY SoundLive, SoundCells DEF StreamInv, Tensors
<1>3. op \in StreamOp /\ op.kind = "fetch" /\ op.src = live[i]
  BY <1>2 DEF Fetch, StreamOp
<1> HIDE DEF op
<1>4. /\ Eventual' = Apply(Eventual, op) /\ pending' \in Seq(StreamOp)
      /\ n \in Nat /\ Len(pending') = n + 1 /\ pending'[n + 1] = op
      /\ \A j \in 1 .. n : pending'[j] = pending[j]
  BY <1>1, <1>2, <1>3, IssueOne, EventualDomain
<1>5. Eventual' = Eventual
  BY <1>3, <1>4 DEF Apply
<1>6. TensorsHold'
  BY <1>1, <1>5 DEF StreamInv, TensorsHold, Tensors
<1>7. QueueType' /\ TwoBuffers'
  BY <1>1, <1>2, <1>4, ShortSequences DEF QueueType, TwoBuffers
<1>8. Due' = 1 /\ Len(host') = 0 /\ want'[1] = held[i]
  BY <1>1, ShortSequences DEF Due
<1>9. HostDue'
  <2>1. \A j \in 1 .. n : pending[j].kind # "fetch"
    BY <1>1, <1>4 DEF StreamInv, HostDue
  <2>2. ASSUME NEW j \in 1 .. Len(pending')
        PROVE  pending'[j].kind = "fetch" <=> j > Len(pending') - Due'
    <3>1. CASE j = n + 1
      BY <1>3, <1>4, <1>8, <3>1
    <3>2. CASE j # n + 1
      <4>1. j \in 1 .. n
        BY <1>4, <3>2
      <4> QED BY <1>4, <1>8, <2>1, <4>1
    <3> QED BY <3>1, <3>2
  <2>3. want'[1] = Contents(Eventual', live[i])
    BY <1>1, <1>5, <1>8 DEF StreamInv, TensorsHold
  <2>4. ASSUME NEW k \in 1 .. Due'
        PROVE  want'[Len(host') + k] = Contents(Eventual', pending'[Len(pending') - Due' + k].src)
    <3>1. k = 1 /\ Len(host') + k = 1 /\ Len(pending') - Due' + k = n + 1
      BY <1>4, <1>8
    <3> QED BY <1>3, <1>4, <2>3, <3>1
  <2>5. \A k \in 1 .. Len(host') : host'[k] = want'[k]
    BY <1>8
  <2>6. Due' \in 0 .. Len(pending') /\ pc' = "waiting"
    BY <1>1, <1>4, <1>8
  <2> QED BY <2>2, <2>4, <2>5, <2>6 DEF HostDue
<1> QED BY <1>6, <1>7, <1>9 DEF StreamInv

LEMMA ReturnStep ==
  ASSUME StreamInv, Return
  PROVE  StreamInv'
<1>1. /\ pc = "waiting" /\ pc' = "idle" /\ live' = live /\ held' = held
      /\ UNCHANGED <<mem, pending, host, want, calls>>
      /\ \A j \in 1 .. Len(pending) : pending[j].kind # "fetch"
  BY DEF Return, vars, deviceVars
<1>2. Len(pending) \in Nat
  BY EventualDomain DEF StreamInv
<1>3. Due = 0
  <2>1. Due \in 0 .. Len(pending)
    BY DEF StreamInv, HostDue
  <2>2. ASSUME Due # 0  PROVE FALSE
    <3>1. Len(pending) \in 1 .. Len(pending) /\ Len(pending) > Len(pending) - Due
      BY <1>2, <2>1, <2>2
    <3> QED BY <1>1, <3>1 DEF StreamInv, HostDue
  <2> QED BY <2>2
<1>4. Due' = Due /\ Eventual' = Eventual
  BY <1>1 DEF Due, Eventual
<1>5. HostDue'
  BY <1>1, <1>3, <1>4 DEF StreamInv, HostDue
<1>6. QueueType' /\ TwoBuffers' /\ TensorsHold'
  BY <1>1, <1>4 DEF StreamInv, QueueType, TwoBuffers, TensorsHold, Tensors
<1> QED BY <1>5, <1>6 DEF StreamInv

(* The two buffers of first_divergence are filled alike.                   *)
LEMMA EqualFills ==
  ASSUME NEW n \in Nat, NEW b1 \in Place, NEW b2 \in Place, b1.bytes = b2.bytes, NEW in
  PROVE  /\ Result(Write(n, b2), in) = Result(Write(n, b1), {})
         /\ Result(Write(n, b1), in) = Result(Write(n, b1), {})
         /\ Result(Write(n, b1), {}) # Unset
<1> DEFINE v == Wrote("write", n, {})
<1>1. /\ Result(Write(n, b1), in) = {v : o \in Cells(b1)}
      /\ Result(Write(n, b1), {}) = {v : o \in Cells(b1)}
      /\ Result(Write(n, b2), in) = {v : o \in Cells(b2)}
  BY DEF Result, Output, Write
<1>2. /\ b1.off \in Int /\ b2.off \in Int /\ b1.bytes \in Int
      /\ Cells(b1) = b1.off .. b1.off + b1.bytes - 1
      /\ Cells(b2) = b2.off .. b2.off + b1.bytes - 1
  BY LayoutAssumption DEF Place, Size, Cells
<1>3. Cells(b1) = {} <=> Cells(b2) = {}
  <2>1. CASE b1.bytes >= 1
    <3>1. b1.off \in Cells(b1) /\ b2.off \in Cells(b2)
      BY <1>2, <2>1
    <3> QED BY <3>1
  <2>2. CASE ~(b1.bytes >= 1)
    BY <1>2, <2>2
  <2> QED BY <2>1, <2>2
<1>4. v # Wrote("nothing", 0, {})
  BY DEF Wrote
<1> HIDE DEF v
<1>5. {v : o \in Cells(b1)} = {v : o \in Cells(b2)}
  BY <1>3
<1>6. {v : o \in Cells(b1)} # Unset
  BY <1>4 DEF Unset
<1> QED BY <1>1, <1>5, <1>6

LEMMA ConcatFacts ==
  ASSUME NEW S, NEW q \in Seq(S), NEW t \in Seq(S)
  PROVE  /\ q \o t \in Seq(S) /\ Len(q \o t) = Len(q) + Len(t)
         /\ \A j \in 1 .. Len(q) : (q \o t)[j] = q[j]
         /\ \A j \in 1 .. Len(t) : (q \o t)[Len(q) + j] = t[j]
<1>1. q \o t \in Seq(S) /\ Len(q \o t) = Len(q) + Len(t)
  OBVIOUS
<1>2. \A j \in 1 .. Len(q) : (q \o t)[j] = q[j]
  OBVIOUS
<1>3. \A j \in 1 .. Len(t) : (q \o t)[Len(q) + j] = t[j]
  OBVIOUS
<1> QED BY <1>1, <1>2, <1>3

LEMMA FourMore ==
  ASSUME NEW S, NEW q \in Seq(S), NEW a \in S, NEW b \in S, NEW c \in S, NEW d \in S,
         NEW r, r = q \o <<a, b, c, d>>
  PROVE  /\ r \in Seq(S) /\ Len(r) = Len(q) + 4
         /\ \A j \in 1 .. Len(q) : r[j] = q[j]
         /\ r[Len(q) + 1] = a /\ r[Len(q) + 2] = b
         /\ r[Len(q) + 3] = c /\ r[Len(q) + 4] = d
<1> DEFINE t == <<a, b, c, d>>
<1>1. t \in Seq(S) /\ Len(t) = 4 /\ t[1] = a /\ t[2] = b /\ t[3] = c /\ t[4] = d
  OBVIOUS
<1>2. r = q \o t
  OBVIOUS
<1> HIDE DEF t
<1>3. /\ r \in Seq(S) /\ Len(r) = Len(q) + Len(t)
      /\ \A j \in 1 .. Len(q) : r[j] = q[j]
      /\ \A j \in 1 .. Len(t) : r[Len(q) + j] = t[j]
  <2>1. t \in Seq(S)
    BY <1>1
  <2> QED BY ONLY q \in Seq(S), <1>2, <2>1, ConcatFacts
<1>4. /\ r[Len(q) + 1] = t[1] /\ r[Len(q) + 2] = t[2]
      /\ r[Len(q) + 3] = t[3] /\ r[Len(q) + 4] = t[4]
  <2>1. 1 \in 1 .. Len(t) /\ 2 \in 1 .. Len(t) /\ 3 \in 1 .. Len(t) /\ 4 \in 1 .. Len(t)
    BY <1>1
  <2> QED BY ONLY <1>3, <2>1
<1> QED BY <1>1, <1>3, <1>4

(* Two operations for the device and two copies to the host.               *)
LEMMA IssueFour ==
  ASSUME QueueType, NEW a \in StreamOp, NEW b \in StreamOp, NEW c \in StreamOp,
         NEW d \in StreamOp, c.kind = "fetch", d.kind = "fetch",
         pending' = pending \o <<a, b, c, d>>, mem' = mem
  PROVE  /\ Eventual' = Apply(Apply(Eventual, a), b)
         /\ pending' \in Seq(StreamOp) /\ Len(pending') = Len(pending) + 4
         /\ \A j \in 1 .. Len(pending) : pending'[j] = pending[j]
         /\ pending'[Len(pending) + 1] = a /\ pending'[Len(pending) + 2] = b
         /\ pending'[Len(pending) + 3] = c /\ pending'[Len(pending) + 4] = d
<1> DEFINE p0 == pending
           p1 == Append(p0, a)
           p2 == Append(p1, b)
           p3 == Append(p2, c)
           p4 == pending'
           n == Len(pending)
<1>1. p0 \in Seq(StreamOp)
  BY DEF QueueType
<1>2. /\ p4 \in Seq(StreamOp) /\ n \in Nat /\ Len(p4) = n + 4
      /\ \A j \in 1 .. n : p4[j] = p0[j]
      /\ p4[n + 1] = a /\ p4[n + 2] = b /\ p4[n + 3] = c /\ p4[n + 4] = d
  <2>1. p4 = p0 \o <<a, b, c, d>> /\ Len(p0) \in Nat /\ n = Len(p0)
    BY <1>1
  <2> HIDE DEF p0, p4, n
  <2> QED BY <1>1, <2>1, FourMore
<1> HIDE DEF p4
<1>3. /\ p1 \in Seq(StreamOp) /\ Len(p1) = n + 1 /\ p1[n + 1] = a
      /\ \A j \in 1 .. n : p1[j] = p0[j]
  BY <1>1, AppendFacts
<1> HIDE DEF p1
<1>4. /\ p2 \in Seq(StreamOp) /\ Len(p2) = n + 2 /\ p2[n + 2] = b
      /\ \A j \in 1 .. n + 1 : p2[j] = p1[j]
  BY <1>2, <1>3, AppendFacts
<1> HIDE DEF p2
<1>5. /\ p3 \in Seq(StreamOp) /\ Len(p3) = n + 3 /\ p3[n + 3] = c
      /\ \A j \in 1 .. n + 2 : p3[j] = p2[j]
  BY <1>2, <1>4, AppendFacts
<1> HIDE DEF p3
<1> HIDE DEF p0, n
<1>6. \A j \in 1 .. n + 3 : p4[j] = p3[j]
  <2> SUFFICES ASSUME NEW j \in 1 .. n + 3  PROVE p4[j] = p3[j]
    OBVIOUS
  <2>1. CASE j \in 1 .. n
    BY <1>2, <1>3, <1>4, <1>5, <2>1
  <2>2. CASE j = n + 1
    BY <1>2, <1>3, <1>4, <1>5, <2>2
  <2>3. CASE j = n + 2
    <3>1. j \in 1 .. n + 2 /\ p2[n + 2] = b /\ p4[n + 2] = b
      BY <1>2, <1>4, <2>3
    <3> QED BY <1>5, <2>3, <3>1
  <2>4. CASE j = n + 3
    BY <1>2, <1>5, <2>4
  <2> QED BY <1>2, <2>1, <2>2, <2>3, <2>4
<1>7. Executed(mem, p1) = Apply(Executed(mem, p0), a)
  <2>1. /\ Len(p0) \in Nat /\ Len(p1) = Len(p0) + 1 /\ p1[Len(p0) + 1] = a
        /\ \A j \in 1 .. Len(p0) : p1[j] = p0[j]
    BY <1>1, <1>2, <1>3 DEF n, p0
  <2> QED BY ONLY <2>1, ExecutedLast
<1>8. Executed(mem, p2) = Apply(Executed(mem, p1), b)
  <2>1. /\ Len(p1) \in Nat /\ Len(p2) = Len(p1) + 1 /\ p2[Len(p1) + 1] = b
        /\ \A j \in 1 .. Len(p1) : p2[j] = p1[j]
    BY <1>2, <1>3, <1>4
  <2> QED BY ONLY <2>1, ExecutedLast
<1>9. Executed(mem, p3) = Apply(Executed(mem, p2), c)
  <2>1. /\ Len(p2) \in Nat /\ Len(p3) = Len(p2) + 1 /\ p3[Len(p2) + 1] = c
        /\ \A j \in 1 .. Len(p2) : p3[j] = p2[j]
    BY <1>2, <1>4, <1>5
  <2> QED BY ONLY <2>1, ExecutedLast
<1>10. Executed(mem, p4) = Apply(Executed(mem, p3), d)
  <2>1. /\ Len(p3) \in Nat /\ Len(p4) = Len(p3) + 1 /\ p4[Len(p3) + 1] = d
        /\ \A j \in 1 .. Len(p3) : p4[j] = p3[j]
    BY <1>2, <1>5, <1>6
  <2> QED BY ONLY <2>1, ExecutedLast
<1>11. ASSUME NEW m  PROVE Apply(m, c) = m /\ Apply(m, d) = m
  BY DEF Apply
<1>12. Eventual' = Executed(mem, p4) /\ Eventual = Executed(mem, p0)
  BY DEF Eventual, p0, p4
<1>13. Eventual' = Apply(Apply(Eventual, a), b)
  BY <1>7, <1>8, <1>9, <1>10, <1>11, <1>12
<1> QED BY <1>2, <1>13 DEF n, p0, p4

LEMMA FillStep ==
  ASSUME IInv, StreamInv, FillAndFetch
  PROVE  StreamInv'
<1> DEFINE m == Len(live)
           k == m - 1
           b1 == live[k]
           b2 == live[m]
           w1 == Write(calls, b1)
           w2 == Write(calls, b2)
           f1 == Fetch(ctx_stream(calls), b1)
           f2 == Fetch(ctx_stream(calls), b2)
           fill == Result(w1, {})
           n == Len(pending)
           h1 == [held EXCEPT ![k] = fill]
           h2 == [h1 EXCEPT ![m] = fill]
           E1 == Apply(Eventual, w1)
           E2 == Apply(E1, w2)
<1>1. /\ pc = "fill" /\ pending' = pending \o <<w1, w2, f1, f2>>
      /\ held' = h2 /\ host' = <<>> /\ want' = <<fill, fill>>
      /\ pc' = "waiting" /\ calls' = calls + 1 /\ live' = live /\ mem' = mem
  BY DEF FillAndFetch, synchronize, vars
<1>2. /\ QueueType /\ live \in Seq(Place) /\ Sound(live)
      /\ m \in Nat /\ m > 1 /\ b1.bytes = b2.bytes
  BY <1>1, SoundLive DEF StreamInv, TwoBuffers
<1>3. k \in 1 .. m /\ m \in 1 .. m /\ k # m
  BY <1>2
<1>4. b1 \in Place /\ b2 \in Place
  BY <1>2, <1>3, SoundCells
<1>5. /\ w1 \in StreamOp /\ w1.kind = "write" /\ w1.dst = live[k]
      /\ w2 \in StreamOp /\ w2.kind = "write" /\ w2.dst = live[m]
      /\ f1 \in StreamOp /\ f1.kind = "fetch" /\ f1.src = live[k]
      /\ f2 \in StreamOp /\ f2.kind = "fetch" /\ f2.src = live[m]
  BY <1>2, <1>4 DEF Write, Fetch, StreamOp, ctx_stream, QueueType
<1>6. /\ \A in : Result(w2, in) = fill /\ Result(w1, in) = fill
      /\ fill # Unset
  BY <1>2, <1>4, EqualFills DEF QueueType
<1> HIDE DEF w1, w2, f1, f2, fill, b1, b2, h1, h2
<1>7. /\ Eventual' = E2 /\ pending' \in Seq(StreamOp) /\ Len(pending') = n + 4
      /\ \A j \in 1 .. n : pending'[j] = pending[j]
      /\ pending'[n + 1] = w1 /\ pending'[n + 2] = w2
      /\ pending'[n + 3] = f1 /\ pending'[n + 4] = f2
  <2>1. /\ QueueType /\ w1 \in StreamOp /\ w2 \in StreamOp /\ f1 \in StreamOp
        /\ f2 \in StreamOp /\ f1.kind = "fetch" /\ f2.kind = "fetch"
        /\ pending' = pending \o <<w1, w2, f1, f2>> /\ mem' = mem
    BY <1>1, <1>2, <1>5
  <2> QED BY ONLY <2>1, IssueFour, SMTT(30)
<1> HIDE DEF E1, E2
<1>8. /\ IsSequence(h1) /\ Len(h1) = m /\ h1[k] = fill
      /\ \A i \in 1 .. m : i # k => h1[i] = held[i]
  <2>1. IsSequence(held) /\ k \in 1 .. Len(held) /\ Len(held) = m
    BY <1>2, <1>3 DEF QueueType
  <2> HIDE DEF k, m
  <2>2. /\ IsSequence(h1) /\ Len(h1) = Len(held) /\ h1[k] = fill
        /\ \A i \in 1 .. Len(held) : i # k => h1[i] = held[i]
    <3>1. h1 = [held EXCEPT ![k] = fill] /\ k \in 1 .. Len(held)
      BY <2>1 DEF h1
    <3>2. Len(held) \in Nat /\ DOMAIN held = 1 .. Len(held)
      BY <2>1, SequenceShape
    <3>3. h1 = [i \in 1 .. Len(held) |-> h1[i]]
      BY <3>1, <3>2
    <3>4. IsSequence(h1) /\ Len(h1) = Len(held)
      BY ONLY <3>2, <3>3, ShapeSequence
    <3> QED BY <3>1, <3>2, <3>4
  <2> QED BY <2>1, <2>2
<1>9. /\ IsSequence(h2) /\ Len(h2) = m /\ h2[m] = fill
      /\ \A i \in 1 .. m : i # m => h2[i] = h1[i]
  <2>1. m \in 1 .. Len(h1)
    BY <1>3, <1>8
  <2> HIDE DEF m
  <2>2. /\ IsSequence(h2) /\ Len(h2) = Len(h1) /\ h2[m] = fill
        /\ \A i \in 1 .. Len(h1) : i # m => h2[i] = h1[i]
    <3>1. h2 = [h1 EXCEPT ![m] = fill] /\ m \in 1 .. Len(h1)
      BY <2>1 DEF h2
    <3>2. Len(h1) \in Nat /\ DOMAIN h1 = 1 .. Len(h1)
      BY <1>8, <2>1, SequenceShape
    <3>3. h2 = [i \in 1 .. Len(h1) |-> h2[i]]
      BY <3>1, <3>2
    <3>4. IsSequence(h2) /\ Len(h2) = Len(h1)
      BY ONLY <3>2, <3>3, ShapeSequence
    <3> QED BY <3>1, <3>2, <3>4
  <2> QED BY <1>8, <2>2
<1>10. /\ DOMAIN Eventual = Offsets /\ n \in Nat
       /\ Hold(Eventual, live, held) /\ DOMAIN E1 = Offsets
  <2>1. DOMAIN Eventual = Offsets /\ n \in Nat /\ Hold(Eventual, live, held)
    BY <1>2, EventualDomain DEF StreamInv, TensorsHold, Hold, Tensors
  <2> QED BY <1>5, <2>1 DEF E1, Apply
<1>11. Hold(E1, live, h1)
  <2>1. w1.kind # "fetch" /\ h1[k] = Result(w1, Contents(Eventual, w1.src))
    BY <1>5, <1>6, <1>8
  <2> HIDE DEF k, m
  <2>2. k \in 1 .. Len(live) /\ \A i \in 1 .. Len(live) : i # k => h1[i] = held[i]
    BY <1>3, <1>8 DEF m
  <2> QED BY <1>2, <1>5, <1>10, <2>1, <2>2, HoldWrite DEF E1
<1>12. Hold(E2, live, h2)
  <2>1. w2.kind # "fetch" /\ h2[m] = Result(w2, Contents(E1, w2.src))
    BY <1>5, <1>6, <1>9
  <2> HIDE DEF k, m
  <2>2. m \in 1 .. Len(live) /\ \A i \in 1 .. Len(live) : i # m => h2[i] = h1[i]
    BY <1>3, <1>9 DEF m
  <2> QED BY <1>2, <1>5, <1>10, <1>11, <2>1, <2>2, HoldWrite DEF E2
<1>13. TensorsHold'
  BY <1>1, <1>7, <1>12 DEF TensorsHold, Hold, Tensors
<1>14. QueueType' /\ TwoBuffers'
  <2>1. QueueType'
    BY <1>1, <1>2, <1>7, <1>9, ShortSequences DEF QueueType
  <2> QED BY <1>1, <2>1 DEF TwoBuffers
<1>15. Contents(E2, live[k]) = fill /\ Contents(E2, live[m]) = fill
  <2>1. h2[k] = fill /\ h2[m] = fill
    BY <1>3, <1>8, <1>9
  <2>2. k \in 1 .. Len(live) /\ m \in 1 .. Len(live)
    BY <1>3
  <2> HIDE DEF k, m
  <2> QED BY <1>6, <1>12, <2>1, <2>2 DEF Hold
<1>16. /\ Due' = 2 /\ Len(host') = 0 /\ want'[1] = fill /\ want'[2] = fill
  BY <1>1, ShortSequences DEF Due
<1>17. HostDue'
  <2>1. \A j \in 1 .. n : pending[j].kind # "fetch"
    BY <1>1, <1>10 DEF StreamInv, HostDue
  <2> HIDE DEF n, k, m
  <2>2. ASSUME NEW j \in 1 .. Len(pending')
        PROVE  pending'[j].kind = "fetch" <=> j > Len(pending') - Due'
    <3>1. CASE j \in 1 .. n
      BY <1>7, <1>10, <1>16, <2>1, <3>1
    <3>2. CASE j = n + 1 \/ j = n + 2
      BY <1>5, <1>7, <1>10, <1>16, <3>2
    <3>3. CASE j = n + 3 \/ j = n + 4
      BY <1>5, <1>7, <1>10, <1>16, <3>3
    <3> QED BY <1>7, <1>10, <3>1, <3>2, <3>3
  <2>3. ASSUME NEW i \in 1 .. Due'
        PROVE  want'[Len(host') + i] = Contents(Eventual', pending'[Len(pending') - Due' + i].src)
    <3>1. /\ Len(host') + i = i /\ Len(pending') - Due' + i = n + 2 + i
          /\ i = 1 \/ i = 2
      BY <1>7, <1>10, <1>16
    <3>2. CASE i = 1
      <4>1. n + 2 + i = n + 3
        BY <1>10, <3>2
      <4> QED BY <1>5, <1>7, <1>15, <1>16, <3>1, <3>2, <4>1
    <3>3. CASE i = 2
      <4>1. n + 2 + i = n + 4
        BY <1>10, <3>3
      <4> QED BY <1>5, <1>7, <1>15, <1>16, <3>1, <3>3, <4>1
    <3> QED BY <3>1, <3>2, <3>3
  <2>4. \A i \in 1 .. Len(host') : host'[i] = want'[i]
    BY <1>16
  <2>5. Due' \in 0 .. Len(pending') /\ pc' = "waiting"
    BY <1>1, <1>7, <1>10, <1>16
  <2> QED BY <2>2, <2>3, <2>4, <2>5 DEF HostDue
<1> QED BY <1>13, <1>14, <1>17 DEF StreamInv

(* All streams are the Device's or the default one, so operations are      *)
(* executed in the order they were issued.                                 *)
LEMMA OldestFirst ==
  ASSUME QueueType, NEW j \in 1 .. Len(pending), Execute(j)
  PROVE  j = 1
<1>1. pending \in Seq(StreamOp) /\ Len(pending) \in Nat
  BY DEF QueueType
<1>2. ASSUME NEW i \in 1 .. Len(pending)  PROVE pending[i].stream \in {"default", "device"}
  <2>1. pending[i] \in StreamOp
    BY <1>1, ElementInSet
  <2> QED BY <2>1 DEF StreamOp
<1>3. ASSUME j # 1  PROVE FALSE
  <2>1. 1 \in 1 .. j - 1 /\ 1 \in 1 .. Len(pending)
    BY <1>1, <1>3
  <2>2. ~Ordered(pending[1].stream, pending[j].stream)
    BY <2>1 DEF Execute
  <2> QED BY <1>2, <2>1, <2>2 DEF Ordered
<1> QED BY <1>3

LEMMA ExecuteOldest ==
  ASSUME QueueType, NEW j \in 1 .. Len(pending), Execute(j)
  PROVE  /\ Len(pending) \in Nat \ {0} /\ mem' = Apply(mem, pending[1])
         /\ host' = IF pending[1].kind = "fetch"
                      THEN Append(host, Contents(mem, pending[1].src)) ELSE host
         /\ pending' \in Seq(StreamOp) /\ Len(pending') = Len(pending) - 1
         /\ \A i \in 1 .. Len(pending') : pending'[i] = pending[i + 1]
         /\ Eventual' = Eventual
<1> DEFINE n == Len(pending)
           rest == SubSeq(pending, 2, n)
<1>1. pending \in Seq(StreamOp) /\ n \in Nat \ {0} /\ j = 1
  BY OldestFirst DEF QueueType
<1>2. /\ mem' = Apply(mem, pending[1])
      /\ host' = IF pending[1].kind = "fetch"
                   THEN Append(host, Contents(mem, pending[1].src)) ELSE host
      /\ pending' = SubSeq(pending, 1, 0) \o rest
  BY <1>1 DEF Execute
<1>3. rest \in Seq(StreamOp) /\ Len(rest) = n - 1
  BY <1>1, SubSeqFacts
<1>4. \A i \in 1 .. n - 1 : rest[i] = pending[i + 1]
  BY <1>1, SubSeqFacts
<1>5. SubSeq(pending, 1, 0) = <<>>
  BY <1>1
<1> HIDE DEF rest
<1>6. pending' = rest
  BY <1>2, <1>3, <1>5
<1>7. Executed(mem, pending) = Executed(mem', pending')
  <2>1. /\ Len(pending') \in Nat /\ Len(pending) = Len(pending') + 1
        /\ \A i \in 1 .. Len(pending') : pending'[i] = pending[i + 1]
    BY <1>1, <1>3, <1>4, <1>6
  <2>2. Executed(mem, pending) = Executed(Apply(mem, pending[1]), pending')
    BY ONLY <2>1, ExecutedFirst
  <2> QED BY <1>2, <2>2
<1> QED BY <1>1, <1>2, <1>3, <1>4, <1>6, <1>7 DEF Eventual

LEMMA ExecuteStep ==
  ASSUME StreamInv, NEW j \in 1 .. Len(pending), Execute(j)
  PROVE  StreamInv'
<1> DEFINE op == pending[1]
           n == Len(pending)
<1>1. /\ n \in Nat \ {0} /\ mem' = Apply(mem, op)
      /\ host' = IF op.kind = "fetch" THEN Append(host, Contents(mem, op.src)) ELSE host
      /\ pending' \in Seq(StreamOp) /\ Len(pending') = n - 1
      /\ \A i \in 1 .. n - 1 : pending'[i] = pending[i + 1]
      /\ Eventual' = Eventual
  BY ExecuteOldest DEF StreamInv
<1>2. /\ live' = live /\ held' = held /\ want' = want /\ calls' = calls /\ pc' = pc
  BY DEF Execute, vars
<1>3. DOMAIN mem' = Offsets
  BY <1>1 DEF Apply, StreamInv, QueueType
<1>4. IsSequence(host) /\ IsSequence(host')
  BY <1>1, AppendSequence DEF StreamInv, QueueType
<1>5. QueueType' /\ TwoBuffers' /\ TensorsHold'
  BY <1>1, <1>2, <1>3, <1>4 DEF StreamInv, QueueType, TwoBuffers, TensorsHold, Tensors
<1>6. /\ Due \in 0 .. n /\ (pc # "waiting" => Due = 0)
      /\ \A i \in 1 .. n : pending[i].kind = "fetch" <=> i > n - Due
      /\ \A i \in 1 .. Len(host) : host[i] = want[i]
      /\ \A i \in 1 .. Due :
           want[Len(host) + i] = Contents(Eventual, pending[n - Due + i].src)
  BY DEF StreamInv, HostDue
<1>7. Len(host) \in Nat /\ Len(want) \in Int
  BY DEF StreamInv, QueueType, IsSequence
<1> HIDE DEF n
<1>8. CASE op.kind # "fetch"
  <2>1. host' = host /\ Due' = Due /\ 1 <= n - Due
    <3>1. ~(1 > n - Due)
      BY <1>1, <1>6, <1>8
    <3> QED BY <1>1, <1>2, <1>6, <1>8, <3>1 DEF Due
  <2>2. Due' \in 0 .. Len(pending') /\ (pc' # "waiting" => Due' = 0)
    BY <1>1, <1>2, <1>6, <2>1
  <2>3. ASSUME NEW i \in 1 .. Len(pending')
        PROVE  pending'[i].kind = "fetch" <=> i > Len(pending') - Due'
    <3>1. i + 1 \in 1 .. n /\ (i > n - 1 - Due <=> i + 1 > n - Due)
      BY <1>1, <1>6
    <3> QED BY <1>1, <1>6, <2>1, <3>1
  <2>4. ASSUME NEW i \in 1 .. Due'
        PROVE  want'[Len(host') + i] = Contents(Eventual', pending'[Len(pending') - Due' + i].src)
    <3>1. i \in 1 .. Due /\ n - 1 - Due + i \in 1 .. n - 1 /\ n - 1 - Due + i + 1 = n - Due + i
      <4>1. i \in 1 .. Due /\ Due \in Nat /\ n \in Nat /\ Due <= n - 1
        BY <1>1, <1>6, <2>1
      <4> QED BY <4>1
    <3>2. pending'[n - 1 - Due + i] = pending[n - Due + i]
      BY <1>1, <3>1
    <3> QED BY <1>1, <1>2, <1>6, <2>1, <3>1, <3>2
  <2> QED BY <1>2, <1>5, <1>6, <2>1, <2>2, <2>3, <2>4 DEF HostDue, StreamInv
<1>9. CASE op.kind = "fetch"
  <2>1. Due = n
    <3>1. 1 > n - Due
      BY <1>1, <1>6, <1>9
    <3> QED BY <1>1, <1>6, <3>1
  <2>2. Eventual = mem
    <3>1. \A i \in 1 .. Len(pending) : pending[i].kind = "fetch"
      BY <1>1, <1>6, <2>1 DEF n
    <3> QED BY <1>1, <3>1, ExecutedFetches DEF Eventual, n
  <2>3. /\ Len(host') = Len(host) + 1 /\ host'[Len(host) + 1] = Contents(mem, op.src)
        /\ \A i \in 1 .. Len(host) : host'[i] = host[i]
    BY <1>1, <1>4, <1>9, AppendSequence
  <2>4. want[Len(host) + 1] = Contents(mem, op.src)
    <3>1. 1 \in 1 .. Due /\ n - Due + 1 = 1
      BY <1>1, <2>1
    <3> QED BY <1>6, <2>2, <3>1
  <2>5. Due' = Due - 1 /\ Due' = Len(pending')
    <3>1. Len(want') = Len(want) /\ Len(host') = Len(host) + 1
      BY <1>2, <2>3
    <3>2. Due' = Due - 1
      BY <1>7, <3>1 DEF Due
    <3> QED BY <1>1, <2>1, <3>2
  <2>6. Due' \in 0 .. Len(pending') /\ (pc' # "waiting" => Due' = 0)
    BY <1>1, <1>2, <1>6, <2>1, <2>5
  <2>7. ASSUME NEW i \in 1 .. Len(pending')
        PROVE  pending'[i].kind = "fetch" <=> i > Len(pending') - Due'
    <3>1. i + 1 \in 1 .. n /\ i + 1 > n - Due
      BY <1>1, <2>1
    <3>2. pending[i + 1].kind = "fetch"
      BY <1>6, <3>1
    <3>3. pending'[i] = pending[i + 1]
      BY <1>1
    <3>4. i > Len(pending') - Due'
      BY <1>1, <2>5
    <3> QED BY <3>2, <3>3, <3>4
  <2>8. ASSUME NEW i \in 1 .. Due'
        PROVE  want'[Len(host') + i] = Contents(Eventual', pending'[Len(pending') - Due' + i].src)
    <3>1. /\ i + 1 \in 1 .. Due /\ i \in 1 .. n - 1 /\ n - Due + (i + 1) = i + 1
          /\ Len(pending') - Due' + i = i /\ Len(host') + i = Len(host) + (i + 1)
      BY <1>1, <1>6, <1>7, <2>1, <2>3, <2>5
    <3>2. pending'[i] = pending[i + 1]
      BY <1>1, <3>1
    <3>3. want[Len(host) + (i + 1)] = Contents(Eventual, pending[i + 1].src)
      BY <1>6, <3>1
    <3> QED BY <1>1, <1>2, <3>1, <3>2, <3>3
  <2>9. ASSUME NEW i \in 1 .. Len(host')  PROVE host'[i] = want'[i]
    <3>1. CASE i = Len(host) + 1
      BY <1>2, <2>3, <2>4, <3>1
    <3>2. CASE i # Len(host) + 1
      <4>1. i \in 1 .. Len(host)
        BY <1>7, <2>3, <3>2
      <4> QED BY <1>2, <1>6, <2>3, <4>1
    <3> QED BY <3>1, <3>2
  <2> QED BY <1>5, <2>6, <2>7, <2>8, <2>9 DEF HostDue, StreamInv
<1> QED BY <1>8, <1>9

LEMMA StreamStepInv ==
  ASSUME NoWrap, IInv, IInv', StreamInv, program \in Programs, [StreamNext]_allVars
  PROVE  StreamInv'
<1>1. program.requests \subseteq Size
  BY ProgramsAssumption, ArenaAssumption
<1>2. CASE Request
  BY <1>2, RequestStep
<1>3. CASE ResetStep
  BY <1>3, ResetStepInv
<1>4. ASSUME NEW dst \in Tensors, NEW src \in Tensors, Launch(dst, src)
      PROVE  StreamInv'
  BY <1>4, LaunchStep
<1>5. ASSUME NEW bytes \in program.requests,
             Upload(bytes) \/ TakeFirst(bytes) \/ TakeSecond(bytes)
      PROVE  StreamInv'
  <2>1. bytes \in Size
    BY <1>1
  <2> QED BY <1>5, <2>1, UploadStep, TakeFirstStep, TakeSecondStep
<1>6. ASSUME NEW i \in Tensors, Download(i)  PROVE StreamInv'
  BY <1>6, DownloadStep
<1>7. CASE FillAndFetch
  BY <1>7, FillStep
<1>8. CASE Return
  BY <1>8, ReturnStep
<1>9. ASSUME NEW j \in 1 .. Len(pending), Execute(j)  PROVE StreamInv'
  BY <1>9, ExecuteStep
<1>10. CASE UNCHANGED allVars
  <2>1. /\ UNCHANGED <<mem, pending, host, want, calls, held>> /\ pc' = pc /\ live' = live
    BY <1>10 DEF allVars, streamVars, vars
  <2>2. Eventual' = Eventual
    BY <2>1 DEF Eventual
  <2>3. HostDue'
    BY <2>1, HostUntouched DEF StreamInv
  <2> QED BY <2>1, <2>2, <2>3 DEF StreamInv, QueueType, TwoBuffers, TensorsHold, Tensors
<1> QED
  BY <1>2, <1>3, <1>4, <1>5, <1>6, <1>7, <1>8, <1>9, <1>10 DEF StreamNext

(* The invariant of the arena and that of the queue hold together.         *)
THEOREM StreamInvariance ==
  ASSUME NoWrap
  PROVE  StreamSpec => []StreamInv
<1>1. InitStream => StreamInv /\ program \in Programs
  BY InitStreamInv DEF InitStream
<1>2. /\ IInv /\ IInv' /\ StreamInv /\ program \in Programs /\ [StreamNext]_allVars
      => StreamInv' /\ (program \in Programs)'
  BY StreamStepInv, StreamStepIsNext
<1>3. StreamSpec => []IInv
  BY StreamImplementsArena, Invariance, PTL
<1> QED BY <1>1, <1>2, <1>3, PTL DEF StreamSpec

(* Memory may change hands while work on it is queued: once the device has *)
(* caught up, every live tensor holds what its own calls gave it.          *)
THEOREM StreamTensorsHold ==
  ASSUME NoWrap
  PROVE  StreamSpec => []TensorsHold
<1>1. StreamInv => TensorsHold
  BY DEF StreamInv
<1> QED BY <1>1, StreamInvariance, PTL

(* What download() returns, and what first_divergence() compares, is what  *)
(* the tensors held when it was called.                                    *)
THEOREM StreamHostCurrent ==
  ASSUME NoWrap
  PROVE  StreamSpec => []HostCurrent
<1>1. ASSUME StreamInv, pc = "idle"  PROVE host = want
  <2>1. Len(want) = Len(host) /\ \A i \in 1 .. Len(host) : host[i] = want[i]
    <3>1. Due = 0 /\ Len(want) \in Int /\ Len(host) \in Int
      BY <1>1, SequenceShape DEF StreamInv, HostDue, QueueType
    <3> QED BY <1>1, <3>1 DEF StreamInv, HostDue, Due
  <2>2. /\ host = [i \in 1 .. Len(host) |-> host[i]]
        /\ want = [i \in 1 .. Len(want) |-> want[i]]
    BY <1>1, SequenceShape DEF StreamInv, QueueType
  <2> QED BY <2>1, <2>2
<1>2. StreamInv => HostCurrent
  BY <1>1 DEF HostCurrent
<1> QED BY <1>2, StreamInvariance, PTL
=============================================================================
