------------------------------ MODULE VmProofs ------------------------------
(***************************************************************************)
(* For all code that is as module VmCode asks for, however deep Run is     *)
(* re-entered: the stacks come back as they were, whatever fails.          *)
(*                                                                         *)
(* Module VmInvariant has the inductive invariant, and that the            *)
(* instructions Run executes keep it.  Here are the steps between the      *)
(* activations: errors and results travelling down, the ends of Run, the   *)
(* calls, apply, eval and source, and what the host does.                  *)
(***************************************************************************)
EXTENDS VmInvariant

-----------------------------------------------------------------------------
(* Failing *)

\* An activation that is left with an error need only leave the sizes of those
\* below.
LEMMA FailsTo ==
    ASSUME IInv, go # <<>>, NEW K, K = Len(go), K > 1, go' = Below, ret' = "err", Typed',
           Depth(K) <= Len(data'),
           \A j \in 1..K - 1 : go[j].addr <= Len(addr') /\ go[j].linear <= Len(linear')
    PROVE  IInv'
<1>1. /\ go' \in Seq(FrameType) /\ Len(go') = K - 1 /\ K - 1 \in DOMAIN go
      /\ \A j \in 1..K - 1 : go'[j] = go[j]
      /\ go' # <<>> /\ Lowest' /\ Nested' /\ \A k \in DOMAIN go' : Shape(k)'
  BY Pops
<1>2. K \in Nat /\ K \in DOMAIN go /\ Nested /\ go \in Seq(FrameType)
  BY TopFacts, Types
<1>3. ASSUME NEW j \in DOMAIN go', go'[j].kind # "run"
      PROVE  go'[j].data <= Len(data') /\ go'[j].addr <= Len(addr') /\ go'[j].linear <= Len(linear')
  <2>1. j \in 1..K - 1 /\ j < K /\ go'[j] = go[j] /\ j \in DOMAIN go
    BY <1>1, <1>2
  <2>2. go[j].data <= Depth(K)
    BY <1>2, <1>3, <2>1 DEF Nested
  <2>3. go[j].data \in Nat /\ Depth(K) \in Nat /\ Len(data') \in Nat
    <3>1. Len(data') \in Nat
      BY DEF Typed
    <3>2. QED
      BY <1>2, <2>1, <3>1, Beneath, FrameFields
  <2>4. QED
    BY <2>1, <2>2, <2>3
<1>4. Intact'
  BY <1>3 DEF Intact
<1>5. QED
  BY <1>1, <1>4, AssembleFailed

\* The stacks cut, or grown, to n.
LEMMA Restored ==
    ASSUME IInv, NEW n \in Nat
    PROVE  /\ TruncateToSize(addr, n, NilAddress) \in Seq(Entries)
           /\ Len(TruncateToSize(addr, n, NilAddress)) = n
           /\ n <= Len(addr) => \A i \in 1..n : TruncateToSize(addr, n, NilAddress)[i] = addr[i]
           /\ TruncateToSize(linear, n, Hole) \in Seq(Scopings)
           /\ Len(TruncateToSize(linear, n, Hole)) = n
           /\ n <= Len(linear) => \A i \in 1..n : TruncateToSize(linear, n, Hole)[i] = linear[i]
           /\ n > 0 => TruncateToSize(linear, n, Hole)[1] = "global"
           /\ Cut(n) \in Seq(Slot) /\ Len(Cut(n)) = n
           /\ n <= Len(data) => \A i \in 1..n : Cut(n)[i] = data[i]
<1>1. PICK f, g, h :
        /\ f = TruncateToSize(addr, n, NilAddress) /\ g = TruncateToSize(linear, n, Hole)
        /\ h = Cut(n)
  OBVIOUS
<1>2. NilAddress \in Entries
  <2>1. NilAddress \in AddressType /\ Body(NilAddress.fn) = <<>> /\ NilAddress.pc = 0
    BY Slots DEF NilAddress
  <2>2. Len(<<>>) = 0
    OBVIOUS
  <2>3. QED
    BY <2>1, <2>2 DEF Entries, Within
<1>3. f \in [1..n -> Entries] /\ \A i \in 1..n : i <= Len(addr) => f[i] = addr[i]
  <2>1. \A i \in 1..n : i <= Len(addr) => addr[i] \in Entries
    BY TypesIn
  <2>2. QED
    BY <1>1, <1>2, <2>1 DEF TruncateToSize
<1>4. g \in [1..n -> Scopings] /\ \A i \in 1..n : i <= Len(linear) => g[i] = linear[i]
  <2>1. Hole \in Scopings /\ \A i \in 1..n : i <= Len(linear) => linear[i] \in Scopings
    BY TypesIn DEF Scopings
  <2>2. QED
    BY <1>1, <2>1 DEF TruncateToSize
<1>5. h \in [1..n -> Slot] /\ \A i \in 1..n : i <= Len(data) => h[i] = data[i]
  <2>1. Hole \in Slot /\ \A i \in 1..n : i <= Len(data) => data[i] \in Slot
    BY TypesIn, Slots
  <2>2. QED
    BY <1>1, <2>1 DEF TruncateToSize, Cut
<1>6. f \in Seq(Entries) /\ Len(f) = n
  BY <1>3, FunctionIsSeq
<1>7. g \in Seq(Scopings) /\ Len(g) = n
  BY <1>4, FunctionIsSeq
<1>8. h \in Seq(Slot) /\ Len(h) = n
  BY <1>5, FunctionIsSeq
<1>9. n > 0 => g[1] = "global"
  BY <1>4, Types
<1>10. /\ n <= Len(addr) => \A i \in 1..n : f[i] = addr[i]
       /\ n <= Len(linear) => \A i \in 1..n : g[i] = linear[i]
       /\ n <= Len(data) => \A i \in 1..n : h[i] = data[i]
  BY <1>3, <1>4, <1>5, Types
<1>11. QED
  BY <1>1, <1>6, <1>7, <1>8, <1>9, <1>10, Zenon

\* The activations below the running one are as they should be.
LEMMA BelowTyped ==
    ASSUME IInv, go # <<>>
    PROVE  Below \in Seq(Acts)
<1>1. PICK K : K = Len(go)
  OBVIOUS
<1>2. /\ K \in Nat /\ K > 0 /\ Below \in Seq(FrameType)
      /\ Len(Below) = K - 1 /\ \A j \in 1..K - 1 : Below[j] = go[j]
  BY <1>1, TopFacts
<1>3. \A j \in 1..Len(Below) : Below[j] \in Acts
  <2>1. \A j \in 1..Len(Below) : j \in 1..Len(go) /\ Below[j] = go[j]
    BY <1>1, <1>2
  <2>2. QED
    BY <2>1, TypesIn
<1>4. QED
  BY <1>2, <1>3

\* The control state is restored to what the activation captured.
LEMMA RestoresTyped ==
    ASSUME IInv, NEW K \in DOMAIN go, main' = main, go' \in Seq(Acts),
           ret' \in {"none", "ok", "err", "panic"},
           addr' = TruncateToSize(addr, go[K].addr, NilAddress),
           linear' = TruncateToSize(linear, go[K].linear, Hole),
           curfunc' = go[K].curfunc, pc' \in Int, Within(go[K].curfunc, pc'),
           data' \in Seq(Slot)
    PROVE  /\ Typed' /\ addr' \in Seq(AddressType) /\ Len(addr') = go[K].addr /\ Len(linear') = go[K].linear
           /\ linear'[1] = "global" /\ go[K].addr \in Nat /\ go[K].linear \in Nat /\ go[K].linear > 0
           /\ go[K].addr <= Len(addr) => \A i \in 1..go[K].addr : addr'[i] = addr[i]
           /\ go[K].linear <= Len(linear) => \A i \in 1..go[K].linear : linear'[i] = linear[i]
<1>1. go # <<>> /\ Nested /\ go \in Seq(FrameType)
  <2>1. go # <<>> /\ go \in Seq(FrameType)
    BY Types
  <2>2. QED
    BY <2>1, TopFacts
<1>2. go[K].addr \in Nat /\ go[K].linear \in Nat /\ go[K].curfunc \in Fn /\ go[K].linear > 0
  BY <1>1, FrameFields DEF Nested
<1>3. /\ addr' \in Seq(Entries) /\ Len(addr') = go[K].addr
      /\ go[K].addr <= Len(addr) => \A i \in 1..go[K].addr : addr'[i] = addr[i]
  <2>1. PICK n : n = go[K].addr
    OBVIOUS
  <2>2. QED
    BY <1>2, <2>1, Restored
<1>4. /\ linear' \in Seq(Scopings) /\ Len(linear') = go[K].linear /\ linear'[1] = "global"
      /\ go[K].linear <= Len(linear) => \A i \in 1..go[K].linear : linear'[i] = linear[i]
  <2>1. PICK n : n = go[K].linear
    OBVIOUS
  <2>2. QED
    BY <1>2, <2>1, Restored
<1>5. addr' \in Seq(AddressType)
  BY <1>3 DEF Entries
<1>6. Typed'
  <2>1. Len(linear') > 0
    BY <1>2, <1>4
  <2>2. QED
    BY <1>2, <1>3, <1>4, <2>1, TypedNow
<1>7. QED
  BY <1>2, <1>3, <1>4, <1>5, <1>6

\* restoreControlState gives every activation below the sizes it captured.
LEMMA Restores ==
    ASSUME IInv, go # <<>>, NEW K, K = Len(go), K > 1, main' = main, go' = Below, ret' = "err",
           addr' = TruncateToSize(addr, go[K].addr, NilAddress),
           linear' = TruncateToSize(linear, go[K].linear, Hole),
           curfunc' = go[K].curfunc, pc' \in Int, Within(go[K].curfunc, pc'),
           data' \in Seq(Slot), Depth(K) <= Len(data')
    PROVE  IInv'
<1>1. K \in Nat /\ K \in DOMAIN go
  BY TopFacts
<1>2. go' \in Seq(Acts)
  BY BelowTyped
<1>3. Typed' /\ Len(addr') = go[K].addr /\ Len(linear') = go[K].linear
  BY <1>1, <1>2, RestoresTyped
<1>4. ASSUME NEW j \in 1..K - 1 PROVE go[j].addr <= Len(addr') /\ go[j].linear <= Len(linear')
  <2>1. j \in 1..K
    BY <1>1
  <2>2. QED
    BY <1>1, <1>3, <2>1, Beneath
<1>5. QED
  BY <1>3, <1>4, FailsTo

\* An activation that restores nothing but curfunc and pc may fail when nothing
\* has been cut below its sizes.
LEMMA IntactFails ==
    ASSUME IInv, Intact, go # <<>>, NEW K, K = Len(go), K > 1, go[K].kind # "run",
           main' = main, go' = Below, ret' = "err", addr' = addr, linear' = linear,
           data' \in Seq(Slot), Depth(K) <= Len(data'),
           \/ curfunc' = curfunc /\ pc' = pc
           \/ curfunc' = go[K].curfunc /\ pc' = go[K].pc
    PROVE  IInv'
<1>1. /\ K \in Nat /\ K \in DOMAIN go /\ Nested /\ go \in Seq(FrameType) /\ Below \in Seq(FrameType)
      /\ Len(Below) = K - 1 /\ \A j \in 1..K - 1 : Below[j] = go[j]
  BY TopFacts, Types
<1>2. go \in Seq(Acts) /\ go[K] \in Acts
  BY <1>1, TypesIn
<1>3. go' \in Seq(Acts)
  <2>1. \A j \in 1..Len(Below) : Below[j] \in Acts
    BY <1>1, <1>2
  <2>2. QED
    BY <1>1, <2>1
<1>4. curfunc' \in Fn /\ pc' \in Int /\ Within(curfunc', pc')
  <2>1. curfunc \in Fn /\ pc \in Int /\ Within(curfunc, pc)
    BY Types, TypesIn
  <2>2. go[K].curfunc \in Fn /\ go[K].pc \in Int /\ Within(go[K].curfunc, go[K].pc)
    BY <1>1, <1>2, FrameFields DEF Acts
  <2>3. QED
    BY <2>1, <2>2
<1>5. Typed'
  <2>1. addr \in Seq(Entries) /\ linear \in Seq(Scopings) /\ Len(linear) > 0 /\ linear[1] = "global"
    BY Types, TypesIn
  <2>2. QED
    BY <1>3, <1>4, <2>1, TypedNow
<1>6. ASSUME NEW j \in 1..K - 1 PROVE go[j].addr <= Len(addr') /\ go[j].linear <= Len(linear')
  <2>1. j \in 1..K /\ j \in DOMAIN go
    BY <1>1
  <2>2. go[j].addr <= go[K].addr /\ go[j].linear <= go[K].linear
    BY <1>1, <2>1, Beneath
  <2>3. go[K].addr <= Len(addr) /\ go[K].linear <= Len(linear)
    BY <1>1 DEF Intact
  <2>4. /\ go[j].addr \in Nat /\ go[j].linear \in Nat /\ go[K].addr \in Nat /\ go[K].linear \in Nat
        /\ Len(addr) \in Nat /\ Len(linear) \in Nat
    BY <1>1, <2>1, FrameFields, Types
  <2>5. QED
    BY <2>2, <2>3, <2>4
<1>7. QED
  BY <1>5, <1>6, FailsTo

\* A sequence without members is the empty one.
LEMMA NoMembers ==
    ASSUME NEW S, NEW s \in Seq(S), Len(s) = 0
    PROVE  s = <<>>
OBVIOUS

\* RunFails restores all of a frame but the pc.
LEMMA FrameAt ==
    ASSUME NEW F \in FrameType, NEW p
    PROVE  /\ [F EXCEPT !.pc = p].addr = F.addr /\ [F EXCEPT !.pc = p].linear = F.linear
           /\ [F EXCEPT !.pc = p].curfunc = F.curfunc /\ [F EXCEPT !.pc = p].pc = p
BY DEF FrameType

\* A Run that fails restores what it captured.
LEMMA RunFailsStep ==
    ASSUME IInv, RunFails, main' = main
    PROVE  IInv'
<1>1. PICK K, at : K = Len(go) /\ at = Len(Body(Top.curfunc))
  OBVIOUS
<1>2. go # <<>> /\ ret = "err" /\ Top.kind = "run"
  BY DEF RunFails, At
<1>3. /\ K \in Nat /\ K > 0 /\ K \in DOMAIN go /\ Top = go[K] /\ Below \in Seq(FrameType)
      /\ Len(Below) = K - 1 /\ Lowest /\ (\A k \in 1..Len(go) : Shape(k)) /\ K \in 1..Len(go)
  BY <1>1, <1>2, TopFacts
<1>4. main \in Seq(Instruction) /\ go \in Seq(FrameType)
  BY Types
<1>5. go[K].curfunc \in Fn /\ go[K].data \in Nat
  BY <1>3, <1>4, FrameFields
<1>6. at \in Nat /\ Within(go[K].curfunc, at)
  BY <1>1, <1>3, <1>4, <1>5, BodyIsSeq DEF Within
<1>7. /\ addr' = TruncateToSize(addr, go[K].addr, NilAddress)
      /\ linear' = TruncateToSize(linear, go[K].linear, Hole)
      /\ curfunc' = go[K].curfunc /\ pc' = at
      /\ data' = Cut(go[K].data) /\ go' = Below /\ ret' = "err"
  <2>1. Top \in FrameType
    BY <1>3, <1>4
  <2>2. PICK T : T = [Top EXCEPT !.pc = Len(Body(Top.curfunc))]
    OBVIOUS
  <2>3. T.addr = Top.addr /\ T.linear = Top.linear /\ T.curfunc = Top.curfunc /\ T.pc = at
    BY <1>1, <2>1, <2>2, FrameAt
  <2>4. RestoreControl(T)
    BY <2>2 DEF RunFails
  <2>5. QED
    BY <1>2, <1>3, <2>3, <2>4 DEF RunFails, RestoreControl
<1>8. data' \in Seq(Slot) /\ Len(data') = go[K].data
  BY <1>5, <1>7, Restored
<1>9. CASE K > 1
  <2>1. Depth(K) <= Len(data')
    BY <1>3, <1>8, Beneath
  <2>2. QED
    BY <1>1, <1>2, <1>6, <1>7, <1>8, <1>9, <2>1, Restores
<1>10. CASE K = 1
  <2>1. go' \in Seq(Acts) /\ go' = <<>>
    <3>1. Len(go') = 0 /\ go' \in Seq(FrameType)
      BY <1>3, <1>7, <1>10
    <3>2. QED
      BY <1>2, <1>7, <3>1, BelowTyped, NoMembers
  <2>2. at \in Int /\ ret' \in {"none", "ok", "err", "panic"}
    BY <1>6, <1>7
  <2>3. /\ Typed' /\ Len(addr') = go[K].addr /\ Len(linear') = go[K].linear /\ linear'[1] = "global"
        /\ addr' \in Seq(AddressType)
    BY <1>3, <1>6, <1>7, <1>8, <2>1, <2>2, RestoresTyped
  <2>4. go[K].addr = 0 /\ go[K].linear = 1 /\ go[K].data = 0 /\ go[K].curfunc = MainFunc
    BY <1>3, <1>10 DEF Lowest
  <2>5. addr' = <<>> /\ data' = <<>>
    BY <1>8, <2>3, <2>4, NoMembers
  <2>6. linear' = <<"global">>
    <3>1. linear' \in Seq({"global", Hole} \cup Scope)
      BY <2>3 DEF Typed
    <3>2. <<"global">> \in Seq({"global", Hole} \cup Scope) /\ Len(<<"global">>) = 1 /\ <<"global">>[1] = "global"
      OBVIOUS
    <3>3. \A i \in 1..1 : linear'[i] = <<"global">>[i]
      BY <2>3, <3>2
    <3>4. QED
      BY <2>3, <2>4, <3>1, <3>2, <3>3, SameSeq
  <2>7. pc' = Len(main')
    BY <1>1, <1>3, <1>7, <2>4 DEF Body, MainFunc
  <2>8. Clean'
    BY <1>7, <2>4, <2>5, <2>6, <2>7 DEF Clean
  <2>9. Intact'
    BY <2>1 DEF Intact
  <2>10. QED
    BY <1>7, <2>1, <2>3, <2>8, <2>9 DEF IInv, Steady, Short
<1>11. QED
  BY <1>3, <1>9, <1>10

\* The other activations that an error ends.
LEMMA OthersFail ==
    ASSUME IInv, ItemFails \/ BuiltinFails \/ ApplyFails, main' = main
    PROVE  IInv'
<1>1. PICK K : K = Len(go)
  OBVIOUS
<1>2. /\ go # <<>> /\ Top.kind \in {"call", "user", "apply"}
      /\ RestoreControl(Top) /\ go' = Below /\ ret' = "err"
  BY DEF ItemFails, BuiltinFails, ApplyFails, At
<1>3. /\ K \in Nat /\ K > 0 /\ K \in DOMAIN go /\ Top = go[K]
      /\ (\A k \in 1..Len(go) : Shape(k)) /\ K \in 1..Len(go)
  BY <1>1, <1>2, TopFacts
<1>4. K > 1 /\ Shape(K)
  BY <1>2, <1>3 DEF Shape
<1>5. go \in Seq(FrameType) /\ go \in Seq(Acts)
  BY Types, TypesIn
<1>6. go[K].curfunc \in Fn /\ go[K].data \in Nat /\ go[K].base \in Int /\ go[K].pc \in Int
  BY <1>3, <1>5, FrameFields
<1>7. Within(go[K].curfunc, go[K].pc)
  BY <1>3, <1>5 DEF Acts
<1>8. PICK D : D = go[K].data /\ D \in Nat
  BY <1>6
<1>9. Cut(D) \in Seq(Slot) /\ Len(Cut(D)) = D
  BY <1>8, Restored
<1>10. data' \in Seq(Slot) /\ Depth(K) <= Len(data')
  <2>1. ASSUME NEW b \in Nat
        PROVE  TruncateToSize(Cut(D), b, Hole) \in Seq(Slot) /\ Len(TruncateToSize(Cut(D), b, Hole)) = b
    <3>1. PICK f, s : f = TruncateToSize(s, b, Hole) /\ s = Cut(D)
      OBVIOUS
    <3>2. Hole \in Slot /\ \A i \in 1..b : i <= Len(s) => s[i] \in Slot
      BY <1>8, <1>9, <3>1, Slots
    <3>3. f \in [1..b -> Slot]
      BY <3>1, <3>2 DEF TruncateToSize
    <3>4. QED
      BY <3>1, <3>3, FunctionIsSeq
  <2>2. CASE Top.kind = "call"
    <3>1. data' = TruncateToSize(Cut(D), go[K].base, Hole)
      BY <1>3, <1>8, <2>2 DEF ItemFails, BuiltinFails, ApplyFails, At
    <3>2. go[K].base \in Nat /\ Depth(K) = go[K].base
      BY <1>3, <1>4, <1>6, <2>2 DEF Shape, Depth
    <3>3. QED
      BY <2>1, <3>1, <3>2
  <2>3. CASE Top.kind = "user"
    <3>1. data' = IF go[K].base < 0 THEN Cut(D) ELSE TruncateToSize(Cut(D), go[K].base, Hole)
      BY <1>3, <1>8, <2>3 DEF ItemFails, BuiltinFails, ApplyFails, At
    <3>2. go[K].base \in {-1, D} /\ Depth(K) = D
      BY <1>3, <1>4, <1>8, <2>3 DEF Shape, Depth
    <3>3. CASE go[K].base = -1
      BY <1>8, <1>9, <3>1, <3>2, <3>3
    <3>4. CASE go[K].base = D
      BY <1>8, <1>9, <2>1, <3>1, <3>2, <3>4
    <3>5. QED
      BY <3>2, <3>3, <3>4
  <2>4. CASE Top.kind = "apply"
    <3>1. data' = Cut(D)
      BY <1>3, <1>8, <2>4 DEF ItemFails, BuiltinFails, ApplyFails, At
    <3>2. Depth(K) = D
      BY <1>3, <1>8, <2>4 DEF Depth
    <3>3. QED
      BY <1>8, <1>9, <3>1, <3>2
  <2>5. QED
    BY <1>2, <2>2, <2>3, <2>4
<1>11. /\ addr' = TruncateToSize(addr, go[K].addr, NilAddress)
       /\ linear' = TruncateToSize(linear, go[K].linear, Hole)
       /\ curfunc' = go[K].curfunc /\ pc' = go[K].pc
  BY <1>2, <1>3 DEF RestoreControl
<1>12. QED
  BY <1>1, <1>2, <1>4, <1>6, <1>7, <1>10, <1>11, Restores

\* What At says of the activation that runs, in an invariant state.
LEMMA AtTop ==
    ASSUME IInv, NEW K, K = Len(go), NEW kind, NEW how, At(kind, how), kind # "run"
    PROVE  /\ go # <<>> /\ K \in Nat /\ K > 1 /\ K \in DOMAIN go /\ K \in 1..Len(go) /\ K - 1 \in 1..Len(go)
           /\ K - 1 \in DOMAIN go
           /\ Top = go[K] /\ go[K].kind = kind /\ ret = how /\ Shape(K) /\ Shape(K - 1) /\ Nested /\ Lowest
           /\ go[K] \in FrameType /\ go[K] \in Acts
           /\ (how \in {"none", "ok"} /\ kind # "eval" => Steady /\ Intact)
           /\ (how = "err" => Intact)
<1>1. go # <<>> /\ Top.kind = kind /\ ret = how
  BY DEF At
<1>2. /\ K \in Nat /\ K > 0 /\ K \in DOMAIN go /\ Top = go[K] /\ K \in 1..Len(go)
      /\ Lowest /\ Nested /\ (\A k \in 1..Len(go) : Shape(k))
  BY <1>1, TopFacts
<1>3. K > 1
  <2>1. Shape(K)
    BY <1>2
  <2>2. QED
    BY <1>1, <1>2, <2>1 DEF Shape
<1>4. go \in Seq(FrameType) /\ go \in Seq(Acts)
  BY Types, TypesIn
<1>5. K - 1 \in 1..Len(go) /\ K - 1 \in DOMAIN go
  BY <1>2, <1>3, <1>4
<1>6. ASSUME how \in {"none", "ok"}, kind # "eval" PROVE Steady /\ Intact
  <2>1. Steady
    BY <1>1, <1>6 DEF Steady, Short
  <2>2. QED
    BY <2>1, SteadyIntact
<1>7. how = "err" => Intact
  BY <1>1 DEF IInv
<1>8. Shape(K) /\ Shape(K - 1) /\ go[K] \in FrameType /\ go[K] \in Acts
  BY <1>2, <1>4, <1>5
<1>9. QED
  BY <1>1, <1>2, <1>3, <1>5, <1>6, <1>7, <1>8

\* A callee or argument that is refused before it is run: CallResolved drops
\* the arguments.
LEMMA CallFailsStep ==
    ASSUME IInv, At("call", "none"), CallFails, UNCHANGED <<curfunc, pc, addr, linear>>, main' = main
    PROVE  IInv'
<1>1. PICK K : K = Len(go)
  OBVIOUS
<1>2. /\ go # <<>> /\ K > 1 /\ K \in DOMAIN go /\ Top = go[K] /\ go[K].kind = "call" /\ Shape(K) /\ Intact
      /\ go[K] \in FrameType
  BY <1>1, AtTop
<1>3. PICK b : b = go[K].base
  OBVIOUS
<1>4. b \in Nat /\ Depth(K) = b
  <2>1. go[K].base \in Int
    BY <1>2 DEF FrameType
  <2>2. QED
    BY <1>2, <1>3, <2>1 DEF Shape, Depth
<1>5. data' = Cut(b) /\ go' = Below /\ ret' = "err"
  BY <1>2, <1>3 DEF CallFails
<1>6. data' \in Seq(Slot) /\ Depth(K) <= Len(data')
  BY <1>4, <1>5, Restored
<1>7. addr' = addr /\ linear' = linear /\ curfunc' = curfunc /\ pc' = pc
  OBVIOUS
<1>8. QED
  BY <1>1, <1>2, <1>5, <1>6, <1>7, IntactFails

\* EvalFunction passes an error on.
LEMMA EvalFailsStep ==
    ASSUME IInv, EvalFails, main' = main
    PROVE  IInv'
<1>1. PICK K : K = Len(go)
  OBVIOUS
<1>2. At("eval", "err") /\ "eval" # "run"
  BY DEF EvalFails
<1>3. /\ go # <<>> /\ K > 1 /\ K \in DOMAIN go /\ go[K].kind = "eval" /\ Intact /\ ret = "err"
  BY <1>1, <1>2, AtTop
<1>4. addr' = addr /\ linear' = linear /\ curfunc' = curfunc /\ pc' = pc /\ data' = data
      /\ go' = Below /\ ret' = "err"
  BY <1>3 DEF EvalFails, env
<1>5. data' \in Seq(Slot) /\ Depth(K) <= Len(data')
  BY <1>3, <1>4, TypesIn DEF Intact, Depth
<1>6. QED
  BY <1>1, <1>3, <1>4, <1>5, IntactFails

\* SourceExpressions puts curfunc and pc back and passes an error on.
LEMMA SourceFails ==
    ASSUME IInv, SourceDone, ret # "ok", main' = main
    PROVE  IInv'
<1>1. PICK K : K = Len(go)
  OBVIOUS
<1>2. ret = "err"
  BY DEF SourceDone, IInv, Typed
<1>3. At("source", "err") /\ "source" # "run"
  BY <1>2 DEF SourceDone, At
<1>4. /\ go # <<>> /\ K > 1 /\ K \in DOMAIN go /\ go[K].kind = "source" /\ Intact /\ Top = go[K]
  BY <1>1, <1>3, AtTop
<1>5. addr' = addr /\ linear' = linear /\ curfunc' = go[K].curfunc /\ pc' = go[K].pc /\ data' = data
      /\ go' = Below /\ ret' = "err"
  BY <1>2, <1>4 DEF SourceDone
<1>6. data' \in Seq(Slot) /\ Depth(K) <= Len(data')
  BY <1>4, <1>5, TypesIn DEF Intact, Depth
<1>7. QED
  BY <1>1, <1>4, <1>5, <1>6, IntactFails

\* Apply with too many or too few arguments.
LEMMA ApplyRefusedStep ==
    ASSUME IInv, ApplyRefused, main' = main
    PROVE  IInv'
<1>1. PICK K : K = Len(go)
  OBVIOUS
<1>2. At("user", "none") \/ At("user", "ok")
  BY DEF ApplyRefused
<1>3. Steady
  BY <1>1, <1>2, AtTop
<1>4. Fault("err")
  BY DEF ApplyRefused, Fault
<1>5. QED
  BY <1>3, <1>4, FaultStep

\* No activation but that of a builtin sees a panic.
LEMMA NoUnwind ==
    ASSUME IInv, Unwind
    PROVE  FALSE
BY DEF IInv, Unwind
-----------------------------------------------------------------------------
(* The end of a Run *)

\* Its result has been popped.
PopsResult ==
    /\ main' = main /\ go' = Below /\ ret' = "ok"
    /\ data' = (IF data = <<>> THEN <<>> ELSE Front(data))
    /\ curfunc' = curfunc /\ pc' = pc /\ addr' = addr /\ linear' = linear

\* Popping the result keeps the types.
LEMMA PopsTyped ==
    ASSUME IInv, go # <<>>, PopsResult
    PROVE  /\ Typed' /\ data' \in Seq(Slot) /\ Len(data') \in Nat /\ Len(data) \in Nat
           /\ Len(data') = (IF Len(data) = 0 THEN 0 ELSE Len(data) - 1)
           /\ \A i \in 1..Len(data') : data'[i] = data[i] /\ i \in DOMAIN data
           /\ go' \in Seq(Acts)
<1>1. data \in Seq(Slot) /\ Len(data) \in Nat
  BY Types
<1>2. /\ data' \in Seq(Slot) /\ Len(data') = (IF Len(data) = 0 THEN 0 ELSE Len(data) - 1)
      /\ \A i \in 1..Len(data') : data'[i] = data[i] /\ i \in DOMAIN data
  <2>1. CASE data = <<>>
    BY <2>1 DEF PopsResult
  <2>2. CASE data # <<>>
    <3>1. Len(data) > 0
      BY <1>1, <2>2
    <3>2. data' = SubSeq(data, 1, Len(data) - 1)
      BY <2>2 DEF PopsResult, Front
    <3>3. QED
      BY <1>1, <3>1, <3>2
  <2>3. QED
    BY <2>1, <2>2
<1>3. go' \in Seq(Acts)
  BY BelowTyped DEF PopsResult
<1>4. Typed'
  <2>1. /\ curfunc' \in Fn /\ pc' \in Int /\ Within(curfunc', pc') /\ addr' \in Seq(Entries)
        /\ linear' \in Seq(Scopings) /\ Len(linear') > 0 /\ linear'[1] = "global"
        /\ main' = main /\ ret' \in {"none", "ok", "err", "panic"}
    BY Types, TypesIn DEF PopsResult
  <2>2. QED
    BY <1>2, <1>3, <2>1, TypedNow
<1>5. QED
  BY <1>1, <1>2, <1>3, <1>4

\* A Run that ends with all it was given used up goes back to the activation it
\* stands on.
LEMMA EndsUpon ==
    ASSUME IInv, Steady, NEW K, K = Len(go), K > 1, go[K].kind = "run", PopsResult,
           Len(addr) = go[K - 1].addr, Len(linear) = go[K - 1].linear, Len(data') = go[K - 1].data,
           Runs(K - 1)'
    PROVE  IInv'
<1>1. go # <<>> /\ (ret = "none" \/ ret = "ok")
  BY DEF Steady
<1>2. /\ K \in Nat /\ K \in DOMAIN go /\ (\A k \in 1..Len(go) : Shape(k)) /\ K \in 1..Len(go)
      /\ go \in Seq(FrameType)
  BY <1>1, TopFacts, Types
<1>3. go' = Below /\ main' = main
  BY DEF PopsResult
<1>4. /\ go' \in Seq(FrameType) /\ Len(go') = K - 1 /\ K - 1 \in DOMAIN go
      /\ \A j \in 1..K - 1 : go'[j] = go[j]
      /\ go' # <<>> /\ Lowest' /\ Nested' /\ \A k \in DOMAIN go' : Shape(k)'
  BY <1>1, <1>3, Pops
<1>5. /\ Typed' /\ Len(data') \in Nat /\ \A i \in 1..Len(data') : data'[i] = data[i] /\ i \in DOMAIN data
  BY <1>1, PopsTyped
<1>6. PICK m, d, a, l : m = K - 1 /\ d = Len(data') /\ a = Len(addr) /\ l = Len(linear)
  OBVIOUS
<1>7. \A k \in 2..m : Recorded(k)
  BY <1>4, <1>6, InSteps
<1>8. \A k \in 2..m : Recorded(k)'
  <2>1. /\ addr' \in Seq(AddressType) /\ Len(linear') \in Nat /\ d \in Nat /\ a \in Nat /\ l \in Nat
        /\ Len(addr') = a /\ Len(linear') = l
    BY <1>5, <1>6, Types DEF PopsResult
  <2>2. Depth(m) <= d
    <3>1. m \in 1..m /\ m \in DOMAIN go
      BY <1>2, <1>4, <1>6
    <3>2. QED
      BY <1>6, <3>1, Beneath
  <2>3. go[m].kind # "run" /\ go[m].addr <= a /\ go[m].linear <= l
    <3>1. Upon(K).kind \in {"call", "apply", "eval", "source"}
      BY <1>2 DEF Shape
    <3>2. QED
      BY <1>6, <2>1, <3>1 DEF Upon
  <2>4. /\ a <= Len(addr') /\ \A i \in 1..a : addr'[i] = addr[i]
        /\ l <= Len(linear') /\ \A i \in 1..l : linear'[i] = linear[i]
    BY <2>1 DEF PopsResult
  <2>5. d <= Len(data') /\ (\A i \in 1..d : data'[i] = data[i]) /\ Len(data') \in Nat
    BY <1>5, <1>6
  <2>6. (\A j \in 1..m - 1 : go'[j] = go[j]) /\ SameFrame(go[m], go'[m])
    <3>1. \A j \in 1..m : go'[j] = go[j]
      BY <1>4, <1>6
    <3>2. m \in 1..m /\ \A j \in 1..m - 1 : j \in 1..m
      BY <1>2, <1>6
    <3>3. go'[m] = go[m] /\ \A j \in 1..m - 1 : go'[j] = go[j]
      BY <3>1, <3>2
    <3>4. QED
      BY <3>3 DEF SameFrame
  <2>7. QED
    BY <1>3, <1>4, <1>6, <1>7, <2>1, <2>2, <2>3, <2>4, <2>5, <2>6, LowerKept, ZenonT(30)
<1>9. \A i \in DOMAIN data' : data'[i] # Hole
  <2>1. \A i \in DOMAIN data : data[i] # Hole
    BY <1>2, InSteps DEF InOrder
  <2>2. DOMAIN data' = 1..Len(data')
    BY <1>1, PopsTyped
  <2>3. QED
    BY <1>5, <2>1, <2>2
<1>10. ret' = "ok" /\ ~(Len(data') < go'[K - 1].data)
  <2>1. go'[K - 1] = go[K - 1]
    BY <1>2, <1>4
  <2>2. QED
    BY <1>5, <2>1 DEF PopsResult
<1>11. K - 1 = Len(go')
  BY <1>4
<1>12. QED
  BY <1>4, <1>5, <1>6, <1>8, <1>9, <1>10, <1>11, Assemble

\* Code that no function entry belongs to has run to its end.
LEMMA AtEnd ==
    ASSUME IInv, At("run", "none"), pc = -1 \/ ReachedEnd, NEW K, K = Len(go), InCode(K)
    PROVE  /\ ~Owns(curfunc) /\ curfunc = go[K].curfunc /\ curfunc[1] \in {"main", "source"}
           /\ Len(addr) = go[K].addr /\ Len(linear) = go[K].linear
           /\ \E w \in Loaded(curfunc) :
                /\ Len(data) = go[K].data + Len(Result(w[1]))
                /\ curfunc[1] = "source" => curfunc[2] = w[1]
           /\ pc = Len(Body(curfunc))
<1>1. PICK n, D, L, c : n = Len(addr) /\ D = Len(data) /\ L = Len(linear) /\ c = curfunc
  OBVIOUS
<1>2. Chain(K, n, c) /\ Stands(c, pc, n, K, D, L, 0)
  BY <1>1 DEF InCode
<1>3. PICK w \in Loaded(c) : \E x \in Reached[w[1]] : StandsAt(w, x, c, pc, n, K, D, L, 0)
  BY <1>2 DEF Stands
<1>4. PICK x \in Reached[w[1]] : StandsAt(w, x, c, pc, n, K, D, L, 0)
  BY <1>3
<1>5. main \in Seq(Instruction) /\ c \in Fn /\ D \in Nat /\ L \in Nat /\ n \in Nat /\ pc \in Int
      /\ go \in Seq(FrameType)
  BY <1>1, Types
<1>6. PICK N, M : N = Len(Code[w[1]]) /\ M = Len(Body(c))
  OBVIOUS
<1>7. /\ w[1] \in Proper /\ w[2] \in Nat /\ N \in Nat
      /\ M = w[2] + N + (IF c[1] = "thunk" THEN 1 ELSE 0)
      /\ (c[1] = "func" => w[1] \in Function) /\ c[1] # "go"
      /\ (c[1] \in {"func", "thunk", "source"} => c[2] = w[1])
      /\ (~Owns(c) => c[1] \in {"main", "source"})
  BY <1>5, <1>6, LoadedCode
<1>8. Fine(w[1], x) /\ x.at \in 0..N
  BY <1>6, <1>7, PlaceFacts
<1>9. x.at = pc - w[2]
  BY <1>4 DEF StandsAt
<1>10. c[1] # "thunk" /\ x.at = N /\ pc = M
  <2>1. pc >= 0
    BY <1>5, <1>7, <1>8, <1>9
  <2>2. pc >= M
    BY <1>1, <1>5, <1>6, <2>1 DEF ReachedEnd
  <2>3. M \in {w[2] + N, w[2] + N + 1} /\ (c[1] = "thunk" => M = w[2] + N + 1)
    BY <1>7
  <2>4. QED
    BY <1>5, <1>7, <1>8, <1>9, <2>2, <2>3
<1>11. w[1] \notin Function /\ x.ops = Result(w[1]) /\ x.scopes = <<>>
  BY <1>6, <1>8, <1>10 DEF Fine
<1>12. ~Owns(c)
  BY <1>7, <1>10, <1>11 DEF Owns
<1>13. K \in DOMAIN go /\ go[K].addr \in Nat
  <2>1. K \in DOMAIN go
    BY TopFacts DEF At
  <2>2. QED
    BY <1>5, <2>1, FrameFields
<1>14. n = go[K].addr /\ c = go[K].curfunc
  <2>1. n \in go[K].addr..Len(addr)
    BY <1>2 DEF Chain
  <2>2. ~(n > go[K].addr)
    <3>1. ASSUME n > go[K].addr PROVE FALSE
      <4>1. c[1] = "func"
        BY <1>2, <1>5, <1>13, <3>1, Types, ChainPopped
      <4>2. QED
        BY <1>12, <4>1 DEF Owns
    <3>2. QED
      BY <3>1
  <2>3. n = go[K].addr
    BY <1>13, <2>1, <2>2
  <2>4. QED
    BY <1>2, <2>3 DEF Chain, Callee
<1>15. Holds(data, go[K].data, D, Result(w[1]), 0) /\ Holds(linear, go[K].linear, L, <<>>, 0)
  BY <1>4, <1>11, <1>12 DEF StandsAt, OperandBase, ScopeBase
<1>16. D = go[K].data + Len(Result(w[1])) /\ L = go[K].linear
  <2>1. PICK b, s, R : b = go[K].data /\ s = go[K].linear /\ R = Len(Result(w[1]))
    OBVIOUS
  <2>2. R \in Nat
    BY <2>1 DEF Result
  <2>3. b \in 0..D /\ R = D - b /\ s \in 0..L /\ 0 = L - s
    <3>1. D \in 0..Len(data) /\ b \in 0..D /\ R = D - b + 0
      BY <1>15, <2>1 DEF Holds
    <3>2. L \in 0..Len(linear) /\ s \in 0..L /\ Len(<<>>) = L - s + 0
      BY <1>15, <2>1 DEF Holds
    <3>3. Len(<<>>) = 0 /\ b \in Int /\ s \in Int
      BY <1>5, <3>1, <3>2
    <3>4. QED
      BY <1>5, <2>2, <3>1, <3>2, <3>3
  <2>4. QED
    BY <1>5, <2>1, <2>2, <2>3
<1>17. QED
  BY <1>1, <1>6, <1>7, <1>10, <1>12, <1>14, <1>16

\* The Run of the host ends in main with nothing left,
LEMMA FirstRunEnds ==
    ASSUME IInv, PopsResult, At("run", "none"), pc = -1 \/ ReachedEnd, Len(go) = 1, InCode(1)
    PROVE  IInv'
<1>1. /\ go # <<>> /\ Lowest /\ Below \in Seq(FrameType) /\ Len(Below) = 0
  <2>1. PICK K : K = Len(go)
    OBVIOUS
  <2>2. go # <<>> /\ Lowest /\ Below \in Seq(FrameType) /\ Len(Below) = K - 1
    BY <2>1, TopFacts DEF At
  <2>3. QED
    BY <2>1, <2>2
<1>2. go' = <<>> /\ go' = Below
  BY <1>1, NoMembers DEF PopsResult
<1>3. /\ curfunc = go[1].curfunc /\ Len(addr) = go[1].addr /\ Len(linear) = go[1].linear
      /\ pc = Len(Body(curfunc))
  BY AtEnd
<1>4. PICK w \in Loaded(curfunc) : Len(data) = go[1].data + Len(Result(w[1]))
  BY AtEnd
<1>5. go[1].curfunc = MainFunc /\ go[1].addr = 0 /\ go[1].linear = 1 /\ go[1].data = 0
  BY <1>1 DEF Lowest
<1>6. /\ Typed' /\ data' \in Seq(Slot) /\ Len(data') = (IF Len(data) = 0 THEN 0 ELSE Len(data) - 1)
      /\ Len(data) \in Nat
  BY <1>1, PopsTyped
<1>7. data' = <<>>
  <2>1. Len(Result(w[1])) \in {0, 1}
    BY DEF Result
  <2>2. Len(data) \in {0, 1}
    BY <1>4, <1>5, <1>6, <2>1
  <2>3. Len(data') = 0
    BY <1>6, <2>2
  <2>4. QED
    BY <1>6, <2>3, NoMembers
<1>8. addr' = <<>>
  BY <1>3, <1>5, Types, NoMembers DEF PopsResult
<1>9. linear' = <<"global">>
  <2>1. linear' \in Seq(Scopings) /\ Len(linear') = 1 /\ linear'[1] = "global"
    BY <1>3, <1>5, Types, TypesIn DEF PopsResult
  <2>2. <<"global">> \in Seq(Scopings) /\ Len(<<"global">>) = 1 /\ <<"global">>[1] = "global"
    BY DEF Scopings
  <2>3. \A i \in 1..1 : linear'[i] = <<"global">>[i]
    BY <2>1, <2>2
  <2>4. QED
    BY <2>1, <2>2, <2>3, SameSeq
<1>10. Clean'
  BY <1>3, <1>5, <1>7, <1>8, <1>9 DEF Clean, PopsResult, Body, MainFunc
<1>11. QED
  BY <1>2, <1>6, <1>10 DEF IInv, Steady, Short, PopsResult

\* the one of SourceExpressions at the end of the file,
LEMMA SourceEnds ==
    ASSUME IInv, PopsResult, At("run", "none"), pc = -1 \/ ReachedEnd,
           NEW K, K = Len(go), K > 1, InCode(K)
    PROVE  IInv'
<1>1. /\ go # <<>> /\ ret = "none" /\ go[K].kind = "run" /\ K \in Nat /\ K \in DOMAIN go
      /\ (\A k \in 1..Len(go) : Shape(k)) /\ K \in 1..Len(go)
  BY TopFacts DEF At
<1>2. Steady
  BY <1>1, TopFacts DEF Steady, Short
<1>3. /\ ~Owns(curfunc) /\ curfunc = go[K].curfunc
      /\ Len(addr) = go[K].addr /\ Len(linear) = go[K].linear
  BY AtEnd
<1>4. PICK w \in Loaded(curfunc) : /\ Len(data) = go[K].data + Len(Result(w[1]))
                                   /\ curfunc[1] = "source" => curfunc[2] = w[1]
  BY AtEnd
<1>5. PICK s : s = go[K - 1] /\ s = Upon(K)
  BY DEF Upon
<1>6. RunOn(K)
  <2>1. K \in 2..K
    BY <1>1
  <2>2. Recorded(K)
    BY <1>1, <1>2, <2>1, InSteps
  <2>3. QED
    BY <1>1, <2>2 DEF Recorded
<1>7. s.kind = "source"
  <2>1. s.kind \in {"call", "apply", "eval", "source"}
    BY <1>1, <1>5 DEF Shape
  <2>2. go[K].curfunc = Entered(s)
    BY <1>5, <1>6 DEF RunOn
  <2>3. s.kind \in {"call", "apply", "eval"} => Owns(Entered(s))
    BY DEF Entered, Owns, Func, Thunk
  <2>4. QED
    BY <1>3, <2>1, <2>2, <2>3
<1>8. /\ go[K].curfunc = Sourced(s.f) /\ Result(go[K].curfunc[2]) = <<Value>>
      /\ go[K].linear = s.linear /\ go[K].data = s.data + 0 /\ go[K].addr = s.addr
  BY <1>5, <1>6, <1>7 DEF RunOn, Entered
<1>9. Len(data) = s.data + 1 /\ s.data \in Nat
  <2>1. curfunc[1] = "source"
    BY <1>3, <1>8 DEF Sourced
  <2>2. Result(w[1]) = <<Value>>
    BY <1>3, <1>4, <1>8, <2>1
  <2>3. K - 1 \in DOMAIN go /\ go \in Seq(FrameType)
    BY <1>1, Types
  <2>4. s.data \in Nat
    BY <1>5, <2>3, FrameFields
  <2>5. Len(<<Value>>) = 1
    OBVIOUS
  <2>6. QED
    BY <1>4, <1>8, <2>2, <2>4, <2>5
<1>10. Len(data') = s.data
  <2>1. Len(data') = (IF Len(data) = 0 THEN 0 ELSE Len(data) - 1)
    BY <1>1, PopsTyped
  <2>2. QED
    BY <1>9, <2>1
<1>11. Runs(K - 1)'
  <2>1. go'[K - 1] = s
    <3>1. go' = Below
      BY DEF PopsResult
    <3>2. \A j \in 1..K - 1 : go'[j] = go[j]
      BY <1>1, <3>1, Pops
    <3>3. K - 1 \in 1..K - 1
      BY <1>1
    <3>4. QED
      BY <1>5, <3>2, <3>3
  <2>2. TopCallback(K - 1)'
    BY <1>3, <1>7, <1>8, <1>10, <2>1 DEF TopCallback, PopsResult
  <2>3. QED
    BY <1>7, <2>1, <2>2 DEF Runs
<1>12. QED
  BY <1>1, <1>2, <1>3, <1>5, <1>8, <1>10, <1>11, EndsUpon

\* Only eval has a thunk run that leaves nothing.
LEMMA ShortEnds ==
    ASSUME IInv, PopsResult, go # <<>>, NEW K, K = Len(go), K > 1,
           NEW s, s = go[K - 1], s.kind = "eval", s.f \in Void, Len(data') < s.data
    PROVE  IInv'
<1>1. go' = Below /\ ret' = "ok"
  BY DEF PopsResult
<1>2. /\ Len(go') = K - 1 /\ \A j \in 1..K - 1 : go'[j] = go[j]
      /\ go' # <<>> /\ Lowest' /\ Nested' /\ \A k \in DOMAIN go' : Shape(k)'
  BY <1>1, Pops
<1>3. K - 1 \in 1..K - 1
  BY TopFacts
<1>4. go'[Len(go')] = s
  BY <1>2, <1>3
<1>5. Typed'
  BY PopsTyped
<1>6. Short' /\ Top'.f \in Void
  BY <1>1, <1>2, <1>4 DEF Short, Top, Last
<1>7. ~Steady'
  BY <1>6 DEF Steady
<1>8. QED
  BY <1>1, <1>2, <1>5, <1>6, <1>7 DEF IInv

\* and the others when ReturnInstr has set the pc to -1.
LEMMA FinishedEnds ==
    ASSUME IInv, PopsResult, At("run", "none"), NEW K, K = Len(go), Finished(K)
    PROVE  IInv'
<1>1. /\ go # <<>> /\ ret = "none" /\ go[K].kind = "run" /\ K \in Nat /\ K \in DOMAIN go
      /\ (\A k \in 1..Len(go) : Shape(k)) /\ K \in 1..Len(go)
  BY TopFacts DEF At
<1>2. K > 1 /\ K - 1 \in 1..K - 1 /\ K - 1 \in 1..Len(go) /\ K - 1 \in DOMAIN go
  BY <1>1, Types DEF Finished
<1>3. Steady
  BY <1>1, TopFacts DEF Steady, Short
<1>4. PICK s : s = go[K - 1]
  OBVIOUS
<1>5. Upon(K) = s
  BY <1>4 DEF Upon
<1>6. RunOn(K)
  <2>1. K \in 2..K
    BY <1>1, <1>2
  <2>2. Recorded(K)
    BY <1>1, <1>3, <2>1, InSteps
  <2>3. QED
    BY <1>1, <2>2 DEF Recorded
<1>7. PICK R, f : f = go[K].curfunc[2] /\ R = Len(Result(f))
  OBVIOUS
<1>8. /\ s.kind # "source" /\ curfunc = s.curfunc /\ pc = ReturnsTo(s)
      /\ Len(addr) = s.addr /\ Len(linear) = s.linear /\ Len(data) = s.data + R /\ AllValues(s.data)
  BY <1>5, <1>7 DEF Finished
<1>9. s.kind \in {"call", "apply", "eval"} /\ s.data \in Nat
  <2>1. s.kind \in {"call", "apply", "eval", "source"}
    BY <1>1, <1>2, <1>5 DEF Shape
  <2>2. s.data \in Nat
    BY <1>2, <1>4, Types, FrameFields
  <2>3. QED
    BY <1>8, <2>1, <2>2
<1>10. /\ go' = Below /\ curfunc' = curfunc /\ pc' = pc /\ addr' = addr /\ linear' = linear /\ ret' = "ok"
  BY DEF PopsResult
<1>11. go'[K - 1] = s
  <2>1. \A j \in 1..K - 1 : go'[j] = go[j]
    BY <1>1, <1>2, <1>10, Pops
  <2>2. QED
    BY <1>2, <1>4, <2>1
<1>12. /\ Len(data') = (IF Len(data) = 0 THEN 0 ELSE Len(data) - 1) /\ Len(data') \in Nat
       /\ \A i \in 1..Len(data') : data'[i] = data[i]
  BY <1>1, PopsTyped
<1>13. R \in {0, 1} /\ (R = 0 => Result(f) = <<>>) /\ (Result(f) = <<Value>> => R = 1)
  BY <1>7 DEF Result
<1>14. ASSUME Len(data') = s.data, s.kind \in {"apply", "eval"} PROVE IInv'
  <2>1. TopCallback(K - 1)'
    BY <1>8, <1>10, <1>11, <1>14 DEF TopCallback
  <2>2. Runs(K - 1)'
    BY <1>11, <1>14, <2>1 DEF Runs
  <2>3. QED
    BY <1>1, <1>2, <1>3, <1>4, <1>8, <1>14, <2>2, EndsUpon
<1>15. CASE s.kind = "call"
  <2>1. R = 1
    BY <1>5, <1>6, <1>7, <1>13, <1>15 DEF RunOn
  <2>2. Len(data') = s.data
    BY <1>8, <1>9, <1>12, <2>1
  <2>3. /\ s.i < Len(s.items) /\ s.data = s.base + Pushed(s.i)
        /\ \A i \in s.base + 1..s.data : data[i] = Value
    BY <1>5, <1>6, <1>15 DEF RunOn
  <2>4. s.base \in Nat
    <3>1. s.base \in Int
      BY <1>2, <1>4, Types, FrameFields
    <3>2. QED
      BY <1>1, <1>2, <1>4, <1>15, <3>1 DEF Shape
  <2>5. \A i \in s.base + 1..Len(data') : data'[i] = Value
    BY <1>12, <2>2, <2>3, <2>4, SMTT(30)
  <2>6. TopCall(K - 1)'
    BY <1>8, <1>9, <1>10, <1>11, <2>2, <2>3, <2>5 DEF TopCall, AllValues
  <2>7. Runs(K - 1)'
    BY <1>11, <1>15, <2>6 DEF Runs
  <2>8. QED
    BY <1>1, <1>2, <1>3, <1>4, <1>8, <2>2, <2>7, EndsUpon
<1>16. CASE s.kind = "apply"
  <2>1. R = 1
    BY <1>5, <1>6, <1>7, <1>13, <1>16 DEF RunOn
  <2>2. Len(data') = s.data
    BY <1>8, <1>9, <1>12, <2>1
  <2>3. QED
    BY <1>14, <1>16, <2>2
<1>17. CASE s.kind = "eval" /\ Len(data') # s.data
  <2>1. R = 0 /\ Len(data') < s.data
    BY <1>8, <1>9, <1>12, <1>13, <1>17
  <2>2. go[K].curfunc = Thunk(s.f)
    BY <1>5, <1>6, <1>17 DEF RunOn, Entered
  <2>3. f = s.f
    BY <1>7, <2>2 DEF Thunk
  <2>4. Code[s.f] # <<>>
    BY <1>1, <1>2, <1>4, <1>17 DEF Shape
  <2>5. s.f \in Void
    BY <1>13, <2>1, <2>3, <2>4 DEF Result
  <2>6. QED
    BY <1>1, <1>2, <1>4, <1>17, <2>1, <2>5, ShortEnds
<1>18. CASE s.kind = "eval" /\ Len(data') = s.data
  BY <1>14, <1>18
<1>19. QED
  BY <1>9, <1>15, <1>16, <1>17, <1>18

\* Run ends.
LEMMA RunEndsStep ==
    ASSUME IInv, RunEnds, main' = main
    PROVE  IInv'
<1>1. PICK K : K = Len(go)
  OBVIOUS
<1>2. At("run", "none") /\ (pc = -1 \/ ReachedEnd)
  BY DEF RunEnds
<1>3. /\ go # <<>> /\ ret = "none" /\ go[K].kind = "run" /\ K \in Nat /\ K > 0 /\ K \in DOMAIN go
  BY <1>1, <1>2, TopFacts DEF At
<1>4. Steady
  BY <1>1, <1>3, TopFacts DEF Steady, Short
<1>5. InOrder
  BY <1>3, <1>4, InSteps
<1>6. InCode(K) \/ Finished(K)
  BY <1>1, <1>3, <1>5 DEF InOrder, Runs, TopRun
<1>7. PopsResult
  <2>1. data # <<>> => Last(data) # Hole
    <3>1. data \in Seq(Slot)
      BY Types
    <3>2. data # <<>> => Len(data) \in DOMAIN data
      BY <3>1
    <3>3. QED
      BY <1>5, <3>2 DEF InOrder, Last
  <2>2. QED
    BY <2>1 DEF RunEnds, PopsResult
<1>8. CASE Finished(K)
  BY <1>1, <1>2, <1>7, <1>8, FinishedEnds
<1>9. CASE InCode(K) /\ K = 1
  BY <1>1, <1>2, <1>7, <1>9, FirstRunEnds
<1>10. CASE InCode(K) /\ K # 1
  <2>1. K > 1
    BY <1>3, <1>10
  <2>2. QED
    BY <1>1, <1>2, <1>7, <1>10, <2>1, SourceEnds
<1>11. QED
  BY <1>6, <1>8, <1>9, <1>10
-----------------------------------------------------------------------------
(* Arguments *)

\* What is known of a call that runs.
LEMMA CallThere ==
    ASSUME IInv, Steady, NEW K, K = Len(go), go[K].kind = "call", NEW F, F = go[K]
    PROVE  /\ K \in Nat /\ K > 1 /\ K \in DOMAIN go /\ F \in Acts /\ F.kind = "call"
           /\ F.base \in Nat /\ F.data \in Nat /\ F.i \in Nat /\ F.base <= F.data
           /\ Depth(K) = F.base /\ F.addr = Len(addr) /\ F.linear = Len(linear)
           /\ Len(data) = F.base + Pushed(F.i) /\ F.data <= Len(data) /\ AllValues(F.base)
           /\ (ret = "none" => curfunc = F.curfunc /\ pc = F.pc)
           /\ (ret = "ok" => F.i < Len(F.items) /\ F.data = Len(data))
           /\ (\A k \in 2..K : Recorded(k)) /\ CallOn(K)
           /\ (\A i \in DOMAIN data : data[i] # Hole)
           /\ F.items # <<>> /\ F.i <= Len(F.items) /\ F.items \in Seq(Name)
           /\ \A j \in DOMAIN F.items : Runnable(F.items[j]) /\ F.items[j] \notin Void
<1>1. go # <<>> /\ (ret = "none" \/ ret = "ok")
  BY DEF Steady
<1>2. At("call", "none") \/ At("call", "ok")
  BY <1>1, TopFacts DEF At
<1>3. /\ K \in Nat /\ K > 1 /\ K \in DOMAIN go /\ F \in Acts /\ Shape(K) /\ F \in FrameType
  BY <1>2, AtTop
<1>4. InOrder /\ \A k \in 2..K : Recorded(k)
  BY <1>3, InSteps
<1>5. TopCall(K)
  BY <1>4 DEF InOrder, Runs
<1>6. CallOn(K)
  <2>1. K \in 2..K
    BY <1>3
  <2>2. QED
    BY <1>4, <2>1 DEF Recorded
<1>7. F.data \in Nat /\ F.i \in Nat /\ F.base \in Int /\ F.items \in Seq(Name)
  BY <1>3 DEF FrameType
<1>8. /\ F.base >= 0 /\ F.base <= F.data /\ F.items # <<>> /\ F.i <= Len(F.items)
      /\ \A j \in DOMAIN F.items : Runnable(F.items[j]) /\ F.items[j] \notin Void
  BY <1>3 DEF Shape
<1>9. Depth(K) = F.base
  BY DEF Depth
<1>10. QED
  BY <1>1, <1>3, <1>4, <1>5, <1>6, <1>7, <1>8, <1>9 DEF TopCall, InOrder

\* The activations when the topmost is changed but for what it records.
LEMMA Turns ==
    ASSUME IInv, Steady, NEW K, K = Len(go), go[K].kind = "call", NEW F, F = go[K],
           NEW G \in Acts, SameFrame(F, G), G.items = F.items, G.i <= Len(F.items), F.base <= G.data,
           Len(go') >= K, go' \in Seq(Acts), \A j \in 1..K - 1 : go'[j] = go[j], go'[K] = G,
           main' = main, addr' \in Seq(AddressType), linear' = linear,
           Len(addr) <= Len(addr'), \A i \in 1..Len(addr) : addr'[i] = addr[i],
           Len(data') \in Nat, F.base <= Len(data'), \A i \in 1..F.base : data'[i] = data[i]
    PROVE  /\ \A k \in 2..K : Recorded(k)'
           /\ Shape(K)' /\ go'[K].linear > 0 /\ Depth(K)' = F.base
           /\ \A j \in 1..K - 1 :
                /\ go'[j].addr <= go'[K].addr /\ go'[j].linear <= go'[K].linear
                /\ go'[j].kind # "run" => go'[j].data <= F.base
<1>1. /\ K \in Nat /\ K > 1 /\ K \in DOMAIN go /\ F \in Acts /\ F.kind = "call"
      /\ F.base \in Nat /\ Depth(K) = F.base /\ F.addr = Len(addr) /\ F.linear = Len(linear)
      /\ (\A k \in 2..K : Recorded(k))
  BY CallThere
<1>2. /\ G.kind = "call" /\ G.f = F.f /\ G.base = F.base /\ G.curfunc = F.curfunc /\ G.pc = F.pc
      /\ G.addr = F.addr /\ G.linear = F.linear
  BY <1>1 DEF SameFrame
<1>3. PICK a, l : a = Len(addr) /\ l = Len(linear)
  OBVIOUS
<1>4. \A k \in 2..K : Recorded(k)'
  <2>1. a \in Nat /\ l \in Nat /\ Len(linear') \in Nat /\ l <= Len(linear')
    BY <1>3, Types
  <2>2. /\ Depth(K) <= F.base /\ (go[K].kind # "run" => go[K].addr <= a /\ go[K].linear <= l)
        /\ (go[K].kind = "run" /\ K > 1 => go[K - 1].addr <= a /\ go[K - 1].linear <= l)
    BY <1>1, <1>3, <2>1
  <2>3. SameFrame(go[K], go'[K])
    OBVIOUS
  <2>4. /\ a <= Len(addr') /\ (\A i \in 1..a : addr'[i] = addr[i])
        /\ \A i \in 1..l : linear'[i] = linear[i]
    BY <1>3
  <2>5. QED
    BY <1>1, <2>1, <2>2, <2>3, <2>4, LowerKept, ZenonT(30)
<1>5. Shape(K)'
  <2>1. Shape(K) /\ K - 1 \in 1..K - 1
    BY <1>1, AtTop, TopFacts
  <2>2. go'[K - 1] = go[K - 1] /\ go[K - 1].kind = "run"
    BY <1>1, <2>1 DEF Shape, Upon
  <2>3. QED
    BY <1>1, <1>2, <2>1, <2>2 DEF Shape, Upon
<1>6. Nested
  BY TopFacts DEF Steady
<1>7. go'[K].linear > 0
  BY <1>1, <1>2, <1>6 DEF Nested
<1>8. ASSUME NEW j \in 1..K - 1
      PROVE  /\ go'[j].addr <= go'[K].addr /\ go'[j].linear <= go'[K].linear
             /\ go'[j].kind # "run" => go'[j].data <= F.base
  <2>1. j \in DOMAIN go /\ j < K
    BY <1>1, Types
  <2>2. /\ go[j].addr <= go[K].addr /\ go[j].linear <= go[K].linear
        /\ go[j].kind # "run" => go[j].data <= F.base
    BY <1>1, <1>6, <2>1 DEF Nested
  <2>3. QED
    BY <1>2, <2>2
<1>9. Depth(K)' = F.base
  BY <1>2 DEF Depth
<1>10. QED
  BY <1>4, <1>5, <1>7, <1>8, <1>9

\* CallExprInstr goes on with the next argument when the values so far lie
\* above its base.
LEMMA NextItem ==
    ASSUME IInv, Steady, NEW K, K = Len(go), go[K].kind = "call", NEW F, F = go[K],
           F.i < Len(F.items), go' = [go EXCEPT ![Len(go)].i = @ + 1],
           data' \in Seq(Slot), Len(data') = F.base + Pushed(F.i + 1),
           \A i \in 1..F.base : data'[i] = data[i], \A i \in F.base + 1..Len(data') : data'[i] = Value,
           main' = main, addr' = addr, linear' = linear,
           curfunc' = F.curfunc, pc' = F.pc, ret' = "none"
    PROVE  IInv'
<1>1. /\ K \in Nat /\ K > 1 /\ K \in DOMAIN go /\ F \in Acts /\ F.kind = "call"
      /\ F.base \in Nat /\ F.data \in Nat /\ F.i \in Nat /\ F.base <= F.data
      /\ F.addr = Len(addr) /\ F.linear = Len(linear)
      /\ Len(data) = F.base + Pushed(F.i) /\ F.data <= Len(data)
      /\ (\A i \in DOMAIN data : data[i] # Hole)
  BY CallThere
<1>2. PICK G : G = [F EXCEPT !.i = @ + 1]
  OBVIOUS
<1>3. /\ G \in Acts /\ G.kind = F.kind /\ G.f = F.f /\ G.items = F.items /\ G.base = F.base
      /\ G.curfunc = F.curfunc /\ G.pc = F.pc /\ G.addr = F.addr /\ G.linear = F.linear
      /\ G.data = F.data /\ G.i = F.i + 1
  <2>1. F \in FrameType /\ Within(F.curfunc, F.pc)
    BY <1>1 DEF Acts
  <2>2. /\ G \in FrameType /\ G.kind = F.kind /\ G.f = F.f /\ G.items = F.items /\ G.base = F.base
        /\ G.curfunc = F.curfunc /\ G.pc = F.pc /\ G.addr = F.addr /\ G.linear = F.linear
        /\ G.data = F.data /\ G.i = F.i + 1
    <3>1. PICK v : v = F.i + 1
      OBVIOUS
    <3>2. v \in Nat /\ G = [F EXCEPT !.i = v]
      BY <1>1, <1>2, <3>1
    <3>3. /\ G.kind = F.kind /\ G.f = F.f /\ G.items = F.items /\ G.base = F.base
          /\ G.curfunc = F.curfunc /\ G.pc = F.pc /\ G.addr = F.addr /\ G.linear = F.linear
          /\ G.data = F.data /\ G.i = F.i + 1
      BY <2>1, <3>1, <3>2 DEF FrameType
    <3>4. G \in FrameType
      BY <2>1, <3>2 DEF FrameType
    <3>5. QED
      BY <3>3, <3>4
  <2>3. G \in Acts
    BY <2>1, <2>2 DEF Acts
  <2>4. QED
    BY <2>2, <2>3
<1>4. go' = [go EXCEPT ![K] = G]
  BY <1>2
<1>5. go \in Seq(Acts)
  BY TypesIn
<1>6. /\ go' \in Seq(Acts) /\ Len(go') = K /\ go'[K] = G /\ \A j \in 1..K - 1 : go'[j] = go[j]
  <2>1. Len(go') = K /\ go' \in Seq(Acts)
    <3>1. go' \in Seq(Acts)
      <4>1. PICK A : A = Acts
        OBVIOUS
      <4>2. go \in Seq(A) /\ G \in A
        BY <1>3, <1>5, <4>1
      <4>3. [go EXCEPT ![K] = G] \in Seq(A)
        BY <1>1, <4>2
      <4>4. QED
        BY <1>4, <4>1, <4>3
    <3>2. Len([go EXCEPT ![K] = G]) = Len(go)
      BY <1>5
    <3>3. QED
      BY <1>4, <3>1, <3>2
  <2>2. go'[K] = G /\ \A j \in 1..K - 1 : go'[j] = go[j]
    <3>1. DOMAIN go = 1..K
      BY <1>5
    <3>2. \A j \in 1..K - 1 : j \in DOMAIN go /\ j # K
      BY <1>1, <3>1
    <3>3. QED
      BY <1>1, <1>4, <3>2
  <2>3. QED
    BY <2>1, <2>2
<1>7. Typed'
  <2>1. F.curfunc \in Fn /\ F.pc \in Int /\ Within(F.curfunc, F.pc)
    BY <1>1 DEF Acts, FrameType
  <2>2. /\ addr' \in Seq(Entries) /\ linear' \in Seq(Scopings) /\ Len(linear') > 0
        /\ linear'[1] = "global"
    BY Types, TypesIn
  <2>3. QED
    BY <1>6, <2>1, <2>2, Within1, TypedNow
<1>8. /\ F.base <= Len(data') /\ Len(data') \in Nat /\ F.data <= Len(data')
      /\ Pushed(F.i) <= Pushed(F.i + 1)
  <2>1. PICK u, v : u = Pushed(F.i) /\ v = Pushed(F.i + 1)
    OBVIOUS
  <2>2. u \in Nat /\ v \in Nat /\ u <= v
    BY <1>1, <2>1, SMTT(30) DEF Pushed
  <2>3. Len(data') = F.base + v /\ Len(data) = F.base + u
    BY <1>1, <2>1
  <2>4. QED
    BY <1>1, <2>1, <2>2, <2>3, SMTT(30)
<1>9. /\ \A k \in 2..K : Recorded(k)'
      /\ Shape(K)' /\ go'[K].linear > 0 /\ Depth(K)' = F.base
      /\ \A j \in 1..K - 1 :
           /\ go'[j].addr <= go'[K].addr /\ go'[j].linear <= go'[K].linear
           /\ go'[j].kind # "run" => go'[j].data <= F.base
  <2>1. SameFrame(F, G) /\ G.i <= Len(F.items) /\ F.base <= G.data
    <3>1. F.items \in Seq(Name)
      BY CallThere
    <3>2. QED
      BY <1>1, <1>3, <3>1 DEF SameFrame
  <2>2. addr' \in Seq(AddressType) /\ Len(addr) <= Len(addr') /\ Len(go') >= K
    BY <1>1, <1>6, Types
  <2>3. QED
    BY <1>3, <1>6, <1>8, <2>1, <2>2, Turns, ZenonT(30)
<1>10. /\ go' # <<>> /\ Lowest' /\ Nested' /\ \A k \in DOMAIN go' : Shape(k)'
  <2>1. PICK r : r = K - 1
    OBVIOUS
  <2>2. r \in 1..Len(go) /\ go' \in Seq(FrameType) /\ r <= Len(go') /\ r + 1 = K
    BY <1>1, <1>6, <2>1, Types, SMTT(30) DEF Acts
  <2>3. \A k \in r + 1..Len(go') :
              /\ Shape(k)' /\ go'[k].linear > 0
              /\ \A j \in 1..k - 1 :
                   /\ go'[j].addr <= go'[k].addr /\ go'[j].linear <= go'[k].linear
                   /\ go'[j].kind # "run" => go'[j].data <= Depth(k)'
    <3>1. \A k \in r + 1..Len(go') : k = K
      BY <1>1, <1>6, <2>2
    <3>2. QED
      BY <1>9, <3>1
  <2>4. \A j \in 1..r : go'[j] = go[j]
    BY <1>6, <2>1
  <2>5. QED
    BY <2>2, <2>3, <2>4, Frames
<1>11. \A i \in DOMAIN data' : data'[i] # Hole
  <2>1. DOMAIN data' = 1..Len(data')
    OBVIOUS
  <2>2. ASSUME NEW i \in 1..Len(data') PROVE data'[i] # Hole
    <3>1. CASE i <= F.base
      <4>1. i \in 1..F.base /\ i \in DOMAIN data
        BY <1>1, <3>1, Types DEF Pushed
      <4>2. QED
        BY <1>1, <4>1
    <3>2. CASE ~(i <= F.base)
      <4>1. i \in F.base + 1..Len(data')
        BY <1>1, <1>8, <3>2
      <4>2. QED
        BY <4>1 DEF Value, Hole
    <3>3. QED
      BY <3>1, <3>2
  <2>3. QED
    BY <2>1, <2>2
<1>12. Runs(K)'
  <2>1. TopCall(K)'
    BY <1>1, <1>3, <1>6, <1>8 DEF TopCall, AllValues
  <2>2. QED
    BY <1>1, <1>3, <1>6, <2>1 DEF Runs
<1>13. K = Len(go')
  BY <1>6
<1>14. QED
  BY <1>7, <1>9, <1>10, <1>11, <1>12, <1>13, Assemble

\* The value of an argument is pushed, that of the callee is not.
LEMMA ItemValue ==
    ASSUME IInv, Steady, NEW K, K = Len(go), go[K].kind = "call", NEW F, F = go[K],
           F.i < Len(F.items), go' = [go EXCEPT ![Len(go)].i = @ + 1],
           data' = (IF F.i = 0 THEN data ELSE Append(data, Value)),
           main' = main, addr' = addr, linear' = linear,
           curfunc' = F.curfunc, pc' = F.pc, ret' = "none"
    PROVE  IInv'
<1>1. /\ F.base \in Nat /\ F.i \in Nat /\ Len(data) = F.base + Pushed(F.i) /\ AllValues(F.base)
  BY CallThere
<1>2. data \in Seq(Slot) /\ Value \in Slot /\ Len(data) \in Nat
  BY Types, Slots
<1>3. \A i \in F.base + 1..Len(data) : data[i] = Value
  BY <1>1 DEF AllValues
<1>4. /\ data' \in Seq(Slot) /\ Len(data') = F.base + Pushed(F.i + 1)
      /\ \A i \in 1..F.base : data'[i] = data[i]
      /\ \A i \in F.base + 1..Len(data') : data'[i] = Value
  <2>1. CASE F.i = 0
    <3>1. Pushed(F.i) = 0 /\ Pushed(F.i + 1) = 0
      BY <2>1 DEF Pushed
    <3>2. QED
      BY <1>1, <1>2, <1>3, <2>1, <3>1
  <2>2. CASE F.i # 0
    <3>1. PICK u : u = Pushed(F.i)
      OBVIOUS
    <3>2. u \in Nat /\ Pushed(F.i + 1) = u + 1
      <4>1. PICK i : i = F.i
        OBVIOUS
      <4>2. i \in Nat /\ i # 0 /\ i + 1 # 0 /\ i - 1 \in Nat /\ (i + 1) - 1 = (i - 1) + 1
        BY <1>1, <2>2, <4>1
      <4>3. u = i - 1
        BY <3>1, <4>1, <4>2 DEF Pushed
      <4>4. Pushed(F.i + 1) = (i + 1) - 1
        BY <4>1, <4>2 DEF Pushed
      <4>5. QED
        BY <4>2, <4>3, <4>4
    <3>3. data' = Append(data, Value) /\ Len(data) = F.base + u
      BY <1>1, <2>2, <3>1
    <3>4. /\ data' \in Seq(Slot) /\ Len(data') = Len(data) + 1 /\ data'[Len(data) + 1] = Value
          /\ \A i \in 1..Len(data) : data'[i] = data[i]
      BY <1>2, <3>3
    <3>5. Len(data') = F.base + Pushed(F.i + 1)
      <4>1. Pushed(F.i + 1) = u + 1 /\ Len(data') = Len(data) + 1 /\ Len(data) = F.base + u
        BY <3>2, <3>3, <3>4
      <4>2. u \in Nat /\ F.base \in Nat
        BY <1>1, <3>2
      <4>3. (F.base + u) + 1 = F.base + (u + 1)
        <5>1. PICK x : x = F.base
          OBVIOUS
        <5>2. u \in Nat /\ x \in Nat
          BY <4>2, <5>1
        <5>3. (x + u) + 1 = x + (u + 1)
          BY <5>2
        <5>4. QED
          BY <5>1, <5>3
      <4>4. QED
        BY <4>1, <4>3
    <3>6. \A i \in 1..F.base : data'[i] = data[i]
      BY <1>1, <3>2, <3>3, <3>4, SMTT(30)
    <3>7. \A i \in F.base + 1..Len(data') : data'[i] = Value
      <4>1. SUFFICES ASSUME NEW i \in F.base + 1..Len(data') PROVE data'[i] = Value
        OBVIOUS
      <4>2. i \in F.base + 1..Len(data) \/ i = Len(data) + 1
        BY <1>1, <1>2, <3>4
      <4>3. ASSUME i \in F.base + 1..Len(data) PROVE data'[i] = Value
        BY <1>1, <1>3, <3>4, <4>3
      <4>4. QED
        BY <3>4, <4>2, <4>3
    <3>8. QED
      BY <3>4, <3>5, <3>6, <3>7
  <2>3. QED
    BY <2>1, <2>2
<1>5. QED
  BY <1>4, NextItem, ZenonT(30)

\* An argument that has been run: what EvalCallExpression restores is already
\* there.
LEMMA ItemDoneStep ==
    ASSUME IInv, ItemDone, main' = main
    PROVE  IInv'
<1>1. PICK K : K = Len(go)
  OBVIOUS
<1>2. At("call", "ok")
  BY DEF ItemDone
<1>3. Steady /\ go[K].kind = "call" /\ ret = "ok" /\ Top = go[K]
  BY <1>1, <1>2, AtTop
<1>4. PICK F : F = go[K]
  OBVIOUS
<1>5. /\ F.addr = Len(addr) /\ F.linear = Len(linear) /\ F.i < Len(F.items) /\ F.data = Len(data)
  BY <1>1, <1>3, <1>4, CallThere
<1>6. addr' = TruncateToSize(addr, F.addr, NilAddress) /\ linear' = TruncateToSize(linear, F.linear, Hole)
      /\ curfunc' = F.curfunc /\ pc' = F.pc
  BY <1>3, <1>4 DEF ItemDone, RestoreControl
<1>7. addr \in Seq(Entries) /\ linear \in Seq(Scopings) /\ data \in Seq(Slot)
      /\ Len(addr) \in Nat /\ Len(linear) \in Nat /\ Len(data) \in Nat
  BY Types, TypesIn
<1>8. addr' = addr
  <2>1. addr' \in Seq(Entries) /\ Len(addr') = Len(addr) /\ \A i \in 1..Len(addr) : addr'[i] = addr[i]
    <3>1. PICK n : n = F.addr
      OBVIOUS
    <3>2. n \in Nat /\ n = Len(addr) /\ n <= Len(addr) /\ addr' = TruncateToSize(addr, n, NilAddress)
      BY <1>5, <1>6, <1>7, <3>1
    <3>3. QED
      BY <3>2, Restored
  <2>2. QED
    BY <1>7, <2>1, SameSeq
<1>9. linear' = linear
  <2>1. linear' \in Seq(Scopings) /\ Len(linear') = Len(linear) /\ \A i \in 1..Len(linear) : linear'[i] = linear[i]
    <3>1. PICK n : n = F.linear
      OBVIOUS
    <3>2. n \in Nat /\ n = Len(linear) /\ n <= Len(linear) /\ linear' = TruncateToSize(linear, n, Hole)
      BY <1>5, <1>6, <1>7, <3>1
    <3>3. QED
      BY <3>2, Restored
  <2>2. QED
    BY <1>7, <2>1, SameSeq
<1>10. Cut(F.data) = data
  <2>1. PICK z : z = Cut(F.data)
    OBVIOUS
  <2>2. z \in Seq(Slot) /\ Len(z) = Len(data) /\ \A i \in 1..Len(data) : z[i] = data[i]
    <3>1. PICK n : n = F.data
      OBVIOUS
    <3>2. n \in Nat /\ n = Len(data) /\ n <= Len(data) /\ z = Cut(n)
      BY <1>5, <1>7, <2>1, <3>1
    <3>3. QED
      BY <3>2, Restored
  <2>3. z = data
    BY <1>7, <2>2, SameSeq
  <2>4. QED
    BY <2>1, <2>3
<1>11. data' = (IF F.i = 0 THEN data ELSE Append(data, Value))
  BY <1>3, <1>4, <1>10 DEF ItemDone
<1>12. go' = [go EXCEPT ![Len(go)].i = @ + 1] /\ ret' = "none"
  BY DEF ItemDone
<1>13. QED
  BY <1>1, <1>3, <1>4, <1>5, <1>6, <1>8, <1>9, <1>11, <1>12, ItemValue, ZenonT(30)

\* An argument that is a symbol, or nothing, takes no Run.
LEMMA PlainItem ==
    ASSUME IInv, At("call", "none"), Top.i < Len(Top.items), Arg(Value), main' = main,
           UNCHANGED <<curfunc, pc, addr, linear, ret>>
    PROVE  IInv'
<1>1. PICK K : K = Len(go)
  OBVIOUS
<1>2. Steady /\ go[K].kind = "call" /\ ret = "none" /\ Top = go[K]
  BY <1>1, AtTop
<1>3. PICK F : F = go[K]
  OBVIOUS
<1>4. curfunc = F.curfunc /\ pc = F.pc
  BY <1>1, <1>2, <1>3, CallThere
<1>5. /\ addr' = addr /\ linear' = linear /\ curfunc' = F.curfunc /\ pc' = F.pc /\ ret' = "none"
  BY <1>2, <1>4
<1>6. data' = (IF F.i = 0 THEN data ELSE Append(data, Value)) /\ F.i < Len(F.items)
  BY <1>2, <1>3 DEF Arg
<1>7. go' = [go EXCEPT ![Len(go)].i = @ + 1]
  BY DEF Arg
<1>8. QED
  BY <1>1, <1>2, <1>3, <1>5, <1>6, <1>7, ItemValue, ZenonT(30)
-----------------------------------------------------------------------------
(* A Run begins *)

\* Proper code has a place for its start.
LEMMA EntryIs ==
    ASSUME NEW n \in Proper
    PROVE  /\ Entry(n) \in Reached[n] /\ Entry(n).at = 0 /\ Entry(n).scopes = <<>>
           /\ Entry(n).ops = (IF n \in Function THEN Values(Params(n)) ELSE <<>>)
<1>1. Entry(n) \in Reached[n]
  BY CodeAssumption
<1>2. QED
  BY <1>1 DEF Entry, Place

\* Code begins with p values above what it was called with.
LEMMA Begins ==
    ASSUME NEW fn, NEW n \in Proper, <<n, 0>> \in Loaded(fn)', NEW a, NEW r, NEW b, NEW s,
           b = OperandBase(fn, a, r)', s = ScopeBase(fn, a, r)',
           NEW p \in Nat, Entry(n).ops = Values(p),
           b \in Nat, s \in Nat, Len(linear') = s, Len(data') = b + p,
           \A i \in b + 1..Len(data') : data'[i] = Value
    PROVE  Stands(fn, 0, a, r, Len(data), Len(linear), 0)'
<1>1. Entry(n) \in Reached[n] /\ Entry(n).at = 0 /\ Entry(n).scopes = <<>>
  BY EntryIs
<1>2. PICK w : w = <<n, 0>>
  OBVIOUS
<1>3. PICK x : x = Entry(n)
  OBVIOUS
<1>4. w \in Loaded(fn)' /\ x \in Reached[w[1]] /\ w[2] = 0 /\ x.at = 0 /\ x.scopes = <<>> /\ x.ops = Values(p)
  BY <1>1, <1>2, <1>3
<1>5. Len(x.ops) = p /\ \A i \in 1..p : x.ops[i] = Value
  BY <1>4 DEF Values
<1>6. Holds(data', b, Len(data'), x.ops, 0)
  <2>1. Len(data') \in Nat /\ Len(data') - b = p
    OBVIOUS
  <2>2. \A i \in 1..p : data'[b + i] = Value
    OBVIOUS
  <2>3. QED
    <3>1. PICK t : t = Len(data')
      OBVIOUS
    <3>2. t \in 0..t /\ b \in 0..t /\ Len(x.ops) = t - b + 0
      BY <1>5, <2>1, <3>1
    <3>3. \A i \in 1..t - b : data'[b + i] = x.ops[i]
      BY <1>5, <2>1, <2>2, <3>1
    <3>4. QED
      BY <3>1, <3>2, <3>3 DEF Holds
<1>7. Holds(linear', s, Len(linear'), x.scopes, 0)
  <2>1. Len(x.scopes) = 0
    BY <1>4
  <2>2. QED
    BY <2>1 DEF Holds
<1>8. StandsAt(w, x, fn, 0, a, r, Len(data), Len(linear), 0)'
  BY <1>4, <1>6, <1>7 DEF StandsAt
<1>9. QED
  BY <1>4, <1>8 DEF Stands

\* A Run has just been entered, by what s waits for.
Began(m, R, s, c, n, p) ==
    /\ m \in Nat /\ Len(go') = m + 1 /\ R = go'[m + 1] /\ s = go'[m]
    /\ c = curfunc' /\ R.kind = "run" /\ R.curfunc = c /\ pc' = 0 /\ R.addr = Len(addr')
    /\ R.linear = Len(linear') /\ R.data = Len(data') /\ ret' = "none"
    /\ n \in Proper /\ <<n, 0>> \in Loaded(c)' /\ addr' \in Seq(AddressType)
    /\ linear' \in Seq(Scopings) /\ data' \in Seq(Slot)
    /\ IF Owns(c) THEN addr' # <<>> /\ addr'[Len(addr')] = EntryOf(s) ELSE s.data = R.data
    /\ s.linear = Len(linear') /\ s.data \in Nat
    /\ p \in Nat /\ Entry(n).ops = Values(p) /\ Len(data') = s.data + p
    /\ \A i \in s.data + 1..Len(data') : data'[i] = Value

\* Code that has just been entered stands at its first place.
LEMMA RunBegins ==
    ASSUME NEW m, NEW R, NEW s, NEW c, NEW n, NEW p, Began(m, R, s, c, n, p)
    PROVE  Runs(m + 1)'
<1> USE DEF Began
<1>1. PICK N : N = Len(addr')
  OBVIOUS
<1>2. N \in Nat /\ (addr' # <<>> => N > 0) /\ Len(linear') \in Nat /\ Len(data') \in Nat
  BY <1>1
<1>3. Upon(m + 1)' = s
  <2>1. (m + 1) - 1 = m
    OBVIOUS
  <2>2. QED
    BY <2>1 DEF Upon
<1>4. Chain(m + 1, N, c)'
  <2>1. N \in R.addr..Len(addr') /\ \A j : j \notin R.addr + 1..N
    BY <1>1, <1>2
  <2>2. Callee(R.addr, N, c)' = R.curfunc
    BY <1>1 DEF Callee
  <2>3. Owns(R.curfunc) => R.addr > 0 /\ addr'[R.addr] = EntryOf(s)
    BY <1>1, <1>2
  <2>4. QED
    BY <1>3, <2>1, <2>2, <2>3 DEF Chain
<1>5. Stands(c, 0, N, m + 1, Len(data), Len(linear), 0)'
  <2>1. PICK b, l : b = OperandBase(c, N, m + 1)' /\ l = ScopeBase(c, N, m + 1)'
    OBVIOUS
  <2>2. b = s.data /\ l = s.linear
    <3>1. CASE Owns(c)
      <4>1. addr'[N] = EntryOf(s)
        BY <1>1, <3>1
      <4>2. QED
        BY <2>1, <3>1, <4>1 DEF OperandBase, ScopeBase, EntryOf
    <3>2. CASE ~Owns(c)
      BY <1>1, <2>1, <3>2 DEF OperandBase, ScopeBase
    <3>3. QED
      BY <3>1, <3>2
  <2>3. b \in Nat /\ l \in Nat /\ Len(linear') = l /\ Len(data') = b + p
        /\ \A i \in b + 1..Len(data') : data'[i] = Value
    BY <1>2, <2>2
  <2>4. <<n, 0>> \in Loaded(c)'
    BY <1>1
  <2>5. QED
    BY <2>1, <2>3, <2>4, Begins
<1>6. InCode(m + 1)'
  BY <1>1, <1>4, <1>5 DEF InCode
<1>7. QED
  BY <1>6 DEF Runs, TopRun

\* The frame of a new Run is one,
LEMMA MadeRun ==
    ASSUME IInv, NEW f \in Name, NEW fn \in Fn, NEW A \in Nat, NEW L \in Nat, NEW D \in Nat, NEW R,
           R = [kind |-> "run", f |-> f, items |-> <<>>, i |-> 0, base |-> -1,
                curfunc |-> fn, pc |-> 0, addr |-> A, linear |-> L, data |-> D]
    PROVE  R \in Acts /\ Within(fn, 0)
<1>1. Within(fn, 0)
  <2>1. Len(Body(fn)) \in Nat
    BY Types, BodyIsSeq
  <2>2. QED
    BY <2>1 DEF Within
<1>2. R \in FrameType
  <2>1. f \in Name \cup Builtin \cup {"main"} /\ <<>> \in Seq(Name) /\ 0 \in Nat /\ -1 \in Int /\ 0 \in Int
    OBVIOUS
  <2>2. QED
    BY <2>1 DEF FrameType
<1>3. QED
  BY <1>1, <1>2 DEF Acts

\* and it may stand on a call, an apply, an eval or a source.
LEMMA RunUpon ==
    ASSUME go' \in Seq(FrameType), NEW m \in Nat, m > 0, Len(go') = m + 1,
           NEW R, R = go'[m + 1], NEW s, s = go'[m],
           R.kind = "run", s.kind \in {"call", "apply", "eval", "source"},
           s.addr <= R.addr, s.linear = R.linear, s.linear > 0, s.data <= R.data,
           \A j \in 1..m - 1 : /\ go'[j].addr <= s.addr /\ go'[j].linear <= s.linear
                               /\ go'[j].kind # "run" => go'[j].data <= s.data
    PROVE  /\ Shape(m + 1)' /\ go'[m + 1].linear > 0
           /\ \A j \in 1..(m + 1) - 1 :
                /\ go'[j].addr <= go'[m + 1].addr /\ go'[j].linear <= go'[m + 1].linear
                /\ go'[j].kind # "run" => go'[j].data <= Depth(m + 1)'
<1>1. (m + 1) - 1 = m /\ m + 1 > 1 /\ m + 1 # 1
  OBVIOUS
<1>2. Upon(m + 1)' = s
  BY <1>1 DEF Upon
<1>3. Shape(m + 1)'
  BY <1>2 DEF Shape
<1>4. Depth(m + 1)' = s.data
  BY <1>1, <1>2 DEF Depth
<1>5. \A j \in 1..m + 1 : go'[j].addr \in Nat /\ go'[j].linear \in Nat /\ go'[j].data \in Nat
  BY FrameFields
<1>6. ASSUME NEW j \in 1..m
      PROVE  /\ go'[j].addr <= go'[m + 1].addr /\ go'[j].linear <= go'[m + 1].linear
             /\ go'[j].kind # "run" => go'[j].data <= s.data
  <2>1. j \in 1..m + 1 /\ m \in 1..m + 1 /\ m + 1 \in 1..m + 1
    OBVIOUS
  <2>2. /\ go'[j].addr \in Nat /\ go'[j].linear \in Nat /\ go'[j].data \in Nat
        /\ s.addr \in Nat /\ s.linear \in Nat /\ s.data \in Nat /\ R.addr \in Nat
    BY <1>5, <2>1
  <2>3. CASE j = m
    BY <2>2, <2>3
  <2>4. CASE j # m
    <3>1. j \in 1..m - 1
      BY <2>4
    <3>2. /\ go'[j].addr <= s.addr /\ go'[j].linear <= s.linear
          /\ go'[j].kind # "run" => go'[j].data <= s.data
      BY <3>1
    <3>3. QED
      BY <2>2, <3>2
  <2>5. QED
    BY <2>3, <2>4
<1>7. QED
  BY <1>1, <1>3, <1>4, <1>6

\* A thunk runs on its own; a function runs with the values it was given.
LEMMA ThunkLoads ==
    ASSUME NEW n \in Proper \ Function, Code[n] # <<>>
    PROVE  /\ <<n, 0>> \in Loaded(Thunk(n))' /\ Owns(Thunk(n)) /\ Thunk(n) \in Fn /\ n \in Name
           /\ Entry(n).ops = Values(0) /\ Thunk(n)[2] = n
<1>1. n \in Name /\ Thunk(n) = <<"thunk", n>>
  BY DEF Proper, Thunk
<1>2. Thunk(n)[1] = "thunk" /\ Thunk(n)[2] = n /\ Thunk(n) # MainFunc
  BY <1>1 DEF MainFunc
<1>3. <<n, 0>> \in Loaded(Thunk(n))'
  BY <1>2 DEF Loaded
<1>4. Values(0) = <<>>
  BY DEF Values
<1>5. Entry(n).ops = Values(0)
  BY <1>4, EntryIs
<1>6. QED
  BY <1>1, <1>2, <1>3, <1>5 DEF Owns, Fn

\* The arguments of a call are code that leaves a value.
LEMMA ItemCode ==
    ASSUME IInv, At("call", "none"), Top.i < Len(Top.items),
           NEW n, n = Top.items[Top.i + 1], n \notin Fails
    PROVE  n \in Proper \ Function /\ n \notin Void
<1>1. PICK K, F : K = Len(go) /\ F = go[K]
  OBVIOUS
<1>2. Steady /\ go[K].kind = "call" /\ Top = F
  BY <1>1, AtTop
<1>3. /\ F.i \in Nat /\ F.items \in Seq(Name)
      /\ \A j \in DOMAIN F.items : Runnable(F.items[j]) /\ F.items[j] \notin Void
  BY <1>1, <1>2, CallThere
<1>4. PICK j : j = F.i + 1
  OBVIOUS
<1>5. j \in DOMAIN F.items /\ n = F.items[j]
  BY <1>2, <1>3, <1>4
<1>6. Runnable(n) /\ n \notin Void
  BY <1>3, <1>5
<1>7. QED
  BY <1>6 DEF Runnable

\* An argument gets a Run of its own.
LEMMA ThunkStep ==
    ASSUME IInv, At("call", "none"), Top.i < Len(Top.items), main' = main,
           NEW n, n = Top.items[Top.i + 1], n \notin Fails, Code[n] # <<>>,
           EnterFunction(Thunk(n), -1, 0),
           go' = Append(Append(Below, Captured(Top)),
                        [Frame("run", n, <<>>, -1)
                           EXCEPT !.curfunc = Thunk(n), !.pc = 0, !.addr = Len(addr) + 1]),
           data' = data, ret' = ret
    PROVE  IInv'
<1>1. PICK K, F, c, p, A, L, D :
        /\ K = Len(go) /\ F = go[K] /\ c = curfunc /\ p = pc
        /\ A = Len(addr) /\ L = Len(linear) /\ D = Len(data)
  OBVIOUS
<1>2. Steady /\ go[K].kind = "call" /\ ret = "none" /\ Top = F /\ go # <<>>
  BY <1>1, AtTop
<1>3. /\ K \in Nat /\ K > 1 /\ K \in DOMAIN go /\ F \in Acts /\ F.kind = "call"
      /\ F.base \in Nat /\ F.data \in Nat /\ F.i \in Nat /\ F.base <= F.data
      /\ F.addr = A /\ F.linear = L /\ c = F.curfunc /\ p = F.pc
      /\ D = F.base + Pushed(F.i) /\ F.data <= D /\ F.items \in Seq(Name)
      /\ (\A i \in DOMAIN data : data[i] # Hole) /\ AllValues(F.base)
  BY <1>1, <1>2, CallThere
<1>4. n \in Proper \ Function /\ n \notin Void
  BY ItemCode
<1>5. /\ <<n, 0>> \in Loaded(Thunk(n))' /\ Owns(Thunk(n)) /\ Thunk(n) \in Fn /\ n \in Name
      /\ Entry(n).ops = Values(0) /\ Thunk(n)[2] = n
  BY <1>4, ThunkLoads
<1>6. A \in Nat /\ L \in Nat /\ D \in Nat /\ L > 0 /\ addr \in Seq(Entries) /\ data \in Seq(Slot)
      /\ linear \in Seq(Scopings) /\ linear[1] = "global"
  BY <1>1, Types, TypesIn
<1>7. PICK e, G, R : /\ e = Address(curfunc, -1, 0) /\ G = Captured(Top)
                     /\ R = [Frame("run", n, <<>>, -1)
                               EXCEPT !.curfunc = Thunk(n), !.pc = 0, !.addr = Len(addr) + 1]
  OBVIOUS
<1>8. /\ addr' = Append(addr, e) /\ curfunc' = Thunk(n) /\ pc' = 0 /\ linear' = linear
      /\ go' = Append(Append(Below, G), R) /\ data' = data /\ ret' = "none"
  BY <1>2, <1>7 DEF EnterFunction
<1>9. e = [fn |-> c, pc |-> -1, operands |-> D, scopes |-> L]
  <2>1. e = [fn |-> c, pc |-> -1, operands |-> D - 0, scopes |-> L]
    BY <1>1, <1>7 DEF Address
  <2>2. D - 0 = D
    BY <1>6
  <2>3. QED
    BY <2>1, <2>2
<1>10. R = [kind |-> "run", f |-> n, items |-> <<>>, i |-> 0, base |-> -1,
            curfunc |-> Thunk(n), pc |-> 0, addr |-> A + 1, linear |-> L, data |-> D]
  BY <1>1, <1>7 DEF Frame
<1>11. R \in Acts /\ Within(Thunk(n), 0)
  <2>1. A + 1 \in Nat
    BY <1>6
  <2>2. QED
    BY <1>5, <1>6, <1>10, <2>1, MadeRun
<1>12. G = [F EXCEPT !.data = D]
  <2>1. G = [F EXCEPT !.curfunc = c, !.pc = p, !.addr = A, !.linear = L, !.data = D]
    BY <1>1, <1>2, <1>7 DEF Captured
  <2>2. F \in FrameType
    BY <1>3 DEF Acts
  <2>3. QED
    BY <1>3, <2>1, <2>2 DEF FrameType
<1>13. /\ G \in Acts /\ G.kind = "call" /\ G.f = F.f /\ G.items = F.items /\ G.base = F.base
       /\ G.curfunc = c /\ G.pc = p /\ G.addr = A /\ G.linear = L /\ G.data = D /\ G.i = F.i
  <2>1. F \in FrameType /\ Within(F.curfunc, F.pc)
    BY <1>3 DEF Acts
  <2>2. /\ G \in FrameType /\ G.kind = F.kind /\ G.f = F.f /\ G.items = F.items /\ G.base = F.base
        /\ G.curfunc = F.curfunc /\ G.pc = F.pc /\ G.addr = F.addr /\ G.linear = F.linear
        /\ G.data = D /\ G.i = F.i
    BY <1>6, <1>12, <2>1 DEF FrameType
  <2>3. G \in Acts
    BY <2>1, <2>2 DEF Acts
  <2>4. QED
    BY <1>3, <2>2, <2>3
<1>14. e \in Entries
  <2>1. c \in Fn
    BY <1>1, Types
  <2>2. e \in AddressType
    BY <1>6, <1>9, <2>1 DEF AddressType
  <2>3. Within(e.fn, e.pc)
    <3>1. Len(Body(c)) \in Nat
      BY <2>1, Types, BodyIsSeq
    <3>2. QED
      BY <1>9, <3>1 DEF Within
  <2>4. QED
    BY <2>2, <2>3 DEF Entries
<1>15. /\ addr' \in Seq(Entries) /\ Len(addr') = A + 1 /\ addr'[A + 1] = e
       /\ \A i \in 1..A : addr'[i] = addr[i]
  BY <1>1, <1>6, <1>8, <1>14
<1>16. /\ go' \in Seq(Acts) /\ Len(go') = K + 1 /\ go'[K] = G /\ go'[K + 1] = R
       /\ \A j \in 1..K - 1 : go'[j] = go[j]
  <2>1. Below \in Seq(Acts) /\ Len(Below) = K - 1 /\ \A j \in 1..K - 1 : Below[j] = go[j]
    BY <1>1, <1>2, BelowTyped, TopFacts
  <2>2. PICK S, B, E : S = Acts /\ B = Below /\ E = Append(Below, G)
    OBVIOUS
  <2>3. B \in Seq(S) /\ Len(B) = K - 1 /\ G \in S /\ R \in S /\ E = Append(B, G)
    BY <1>11, <1>13, <2>1, <2>2
  <2>4. E \in Seq(S) /\ Len(E) = K /\ E[K] = G /\ \A j \in 1..K - 1 : E[j] = B[j]
    BY <1>3, <2>3
  <2>5. /\ Append(E, R) \in Seq(S) /\ Len(Append(E, R)) = K + 1 /\ Append(E, R)[K + 1] = R
        /\ \A j \in 1..K : Append(E, R)[j] = E[j]
    BY <1>3, <2>3, <2>4
  <2>6. go' = Append(E, R)
    BY <1>8, <2>2
  <2>7. K \in 1..K /\ \A j \in 1..K - 1 : j \in 1..K
    BY <1>3
  <2>8. go'[K] = G /\ \A j \in 1..K - 1 : go'[j] = go[j]
    BY <2>1, <2>2, <2>4, <2>5, <2>6, <2>7
  <2>9. QED
    BY <2>2, <2>5, <2>6, <2>8
<1>17. addr' \in Seq(AddressType) /\ go' \in Seq(FrameType)
  BY <1>15, <1>16 DEF Entries, Acts
<1>18. Typed'
  BY <1>5, <1>6, <1>8, <1>11, <1>15, <1>16, <1>1, TypedNow
<1>19. /\ \A k \in 2..K : Recorded(k)'
       /\ Shape(K)' /\ go'[K].linear > 0 /\ Depth(K)' = F.base
       /\ \A j \in 1..K - 1 :
            /\ go'[j].addr <= go'[K].addr /\ go'[j].linear <= go'[K].linear
            /\ go'[j].kind # "run" => go'[j].data <= F.base
  <2>1. SameFrame(F, G) /\ G.items = F.items /\ G.i <= Len(F.items) /\ F.base <= G.data
    <3>1. F.i <= Len(F.items) /\ F.base <= D
      BY <1>1, <1>2, <1>3, <1>6, CallThere, SMTT(30)
    <3>2. QED
      BY <1>3, <1>13, <3>1 DEF SameFrame
  <2>2. /\ Len(addr) <= Len(addr') /\ (\A i \in 1..Len(addr) : addr'[i] = addr[i])
        /\ Len(go') >= K /\ Len(data') \in Nat /\ F.base <= Len(data')
        /\ \A i \in 1..F.base : data'[i] = data[i]
    BY <1>1, <1>3, <1>6, <1>8, <1>13, <1>15, <1>16, <2>1
  <2>3. QED
    BY <1>1, <1>2, <1>8, <1>13, <1>16, <1>17, <2>1, <2>2, Turns, ZenonT(60)
<1>20. /\ Shape(K + 1)' /\ go'[K + 1].linear > 0
       /\ \A j \in 1..(K + 1) - 1 :
            /\ go'[j].addr <= go'[K + 1].addr /\ go'[j].linear <= go'[K + 1].linear
            /\ go'[j].kind # "run" => go'[j].data <= Depth(K + 1)'
  <2>1. /\ R.kind = "run" /\ R.addr = A + 1 /\ R.linear = L /\ R.data = D
    BY <1>10
  <2>2. /\ G.kind \in {"call", "apply", "eval", "source"} /\ G.addr <= R.addr /\ G.linear = R.linear
        /\ G.linear > 0 /\ G.data <= R.data
    BY <1>6, <1>13, <2>1
  <2>3. F.base <= G.data /\ F.base \in Nat /\ G.data \in Nat
    BY <1>3, <1>6, <1>13, SMTT(30)
  <2>4. \A j \in 1..K - 1 : go'[j].data \in Nat
    <3>1. \A j \in 1..K - 1 : j \in DOMAIN go'
      BY <1>3, <1>16
    <3>2. QED
      BY <1>17, <3>1, FrameFields
  <2>5. \A j \in 1..K - 1 : /\ go'[j].addr <= G.addr /\ go'[j].linear <= G.linear
                            /\ go'[j].kind # "run" => go'[j].data <= G.data
    <3>1. SUFFICES ASSUME NEW j \in 1..K - 1
                   PROVE  /\ go'[j].addr <= G.addr /\ go'[j].linear <= G.linear
                          /\ go'[j].kind # "run" => go'[j].data <= G.data
      OBVIOUS
    <3>2. /\ go'[j].addr <= G.addr /\ go'[j].linear <= G.linear
          /\ go'[j].kind # "run" => go'[j].data <= F.base
      BY <1>16, <1>19
    <3>3. go'[j].data \in Nat
      BY <2>4
    <3>4. PICK d, b, g : d = go'[j].data /\ b = F.base /\ g = G.data
      OBVIOUS
    <3>5. d \in Nat /\ b \in Nat /\ g \in Nat /\ b <= g
      BY <2>3, <3>3, <3>4
    <3>6. d <= b => d <= g
      BY <3>5
    <3>7. QED
      BY <3>2, <3>4, <3>6
  <2>6. K \in Nat /\ K > 0
    BY <1>3
  <2>7. R = go'[K + 1] /\ G = go'[K] /\ Len(go') = K + 1
    BY <1>16
  <2>8. QED
    BY <1>17, <2>1, <2>2, <2>5, <2>6, <2>7, RunUpon, ZenonT(40)
<1>21. /\ go' # <<>> /\ Lowest' /\ Nested' /\ \A k \in DOMAIN go' : Shape(k)'
  <2>1. PICK r : r = K - 1
    OBVIOUS
  <2>2. r \in 1..Len(go) /\ r <= Len(go') /\ r + 1 = K
    BY <1>1, <1>3, <1>16, <2>1
  <2>3. \A k \in r + 1..Len(go') :
              /\ Shape(k)' /\ go'[k].linear > 0
              /\ \A j \in 1..k - 1 :
                   /\ go'[j].addr <= go'[k].addr /\ go'[j].linear <= go'[k].linear
                   /\ go'[j].kind # "run" => go'[j].data <= Depth(k)'
    <3>1. \A k \in r + 1..Len(go') : k = K \/ k = K + 1
      BY <1>3, <1>16, <2>2
    <3>2. QED
      BY <1>19, <1>20, <3>1
  <2>4. \A j \in 1..r : go'[j] = go[j]
    BY <1>16, <2>1
  <2>5. QED
    BY <1>17, <2>2, <2>3, <2>4, Frames
<1>22. Upon(K + 1)' = G
  <2>1. (K + 1) - 1 = K
    BY <1>3
  <2>2. QED
    BY <1>16, <2>1 DEF Upon
<1>23. Recorded(K + 1)'
  <2>1. /\ F.i < Len(F.items) /\ n = F.items[F.i + 1]
    BY <1>2
  <2>2. Entered(G) = Thunk(n)
    BY <1>13, <2>1 DEF Entered
  <2>3. Result(n) = <<Value>>
    BY <1>4 DEF Result
  <2>4. \A i \in G.base + 1..G.data : data'[i] = Value
    BY <1>1, <1>3, <1>8, <1>13 DEF AllValues
  <2>5. RunOn(K + 1)'
    <3>1. /\ R.curfunc = Thunk(n) /\ R.linear = L /\ R.data = D /\ R.addr = A + 1
      BY <1>10
    <3>2. G.data = G.base + Pushed(G.i) /\ G.data <= Len(data') /\ G.i < Len(G.items)
      BY <1>1, <1>3, <1>6, <1>8, <1>13, <2>1
    <3>3. R.data = G.data + 0
      BY <1>6, <1>13, <3>1
    <3>4. QED
      BY <1>5, <1>13, <1>16, <1>22, <2>2, <2>3, <2>4, <3>1, <3>2, <3>3 DEF RunOn
  <2>6. go'[K + 1].kind = "run"
    <3>1. R.kind = "run"
      BY <1>10
    <3>2. QED
      BY <1>16, <3>1
  <2>7. QED
    BY <2>5, <2>6 DEF Recorded
<1>24. Runs(K + 1)'
  <2>1. /\ R.kind = "run" /\ R.curfunc = curfunc' /\ R.addr = Len(addr') /\ R.linear = Len(linear')
        /\ R.data = Len(data')
    BY <1>1, <1>8, <1>10, <1>15
  <2>2. addr' # <<>> /\ addr'[Len(addr')] = EntryOf(G)
    BY <1>6, <1>9, <1>13, <1>15 DEF EntryOf, ReturnsTo
  <2>3. /\ G.linear = Len(linear') /\ G.data \in Nat /\ Len(data') = G.data + 0 /\ 0 \in Nat
        /\ \A i \in G.data + 1..Len(data') : data'[i] = Value
    BY <1>1, <1>6, <1>8, <1>13
  <2>4. PICK t : t = Thunk(n)
    OBVIOUS
  <2>5. /\ linear' \in Seq(Scopings) /\ data' \in Seq(Slot) /\ Owns(t) /\ n \in Proper
        /\ <<n, 0>> \in Loaded(t)' /\ Entry(n).ops = Values(0) /\ t = curfunc'
    BY <1>4, <1>5, <1>6, <1>8, <2>4
  <2>6. QED
    <3>1. IF Owns(t) THEN addr' # <<>> /\ addr'[Len(addr')] = EntryOf(G) ELSE G.data = R.data
      BY <2>2, <2>5
    <3>2. /\ R = go'[K + 1] /\ G = go'[K] /\ R.curfunc = t /\ pc' = 0 /\ ret' = "none"
          /\ Len(go') = K + 1 /\ K \in Nat
      BY <1>3, <1>8, <1>16, <2>1, <2>5
    <3>3. Began(K, R, G, t, n, 0)
      BY <1>17, <2>1, <2>3, <2>5, <3>1, <3>2 DEF Began
    <3>4. QED
      BY <3>3, RunBegins
<1>25. \A k \in 2..K + 1 : Recorded(k)'
  <2>1. \A k \in 2..K + 1 : k \in 2..K \/ k = K + 1
    BY <1>3
  <2>2. QED
    BY <1>19, <1>23, <2>1
<1>26. \A i \in DOMAIN data' : data'[i] # Hole
  BY <1>3, <1>8
<1>27. ret' \in {"none", "ok"} /\ (ret' = "ok" => FALSE)
  BY <1>8
<1>28. K + 1 = Len(go')
  BY <1>16
<1>29. QED
  BY <1>18, <1>21, <1>24, <1>25, <1>26, <1>27, <1>28, Assemble

\* EvalCallExpression: refused, a symbol, or code run by a Run of its own.
LEMMA EvalItemStep ==
    ASSUME IInv, EvalItem, main' = main
    PROVE  IInv'
<1>1. PICK n : n = Top.items[Top.i + 1]
  OBVIOUS
<1>2. At("call", "none") /\ Top.i < Len(Top.items)
  BY DEF EvalItem
<1>3. CASE CallFails /\ UNCHANGED <<curfunc, pc, addr, linear>>
  BY <1>2, <1>3, CallFailsStep
<1>4. CASE Arg(Value) /\ UNCHANGED <<curfunc, pc, addr, linear, ret>>
  BY <1>2, <1>4, PlainItem
<1>5. CASE /\ n \notin Fails /\ Code[n] # <<>>
           /\ EnterFunction(Thunk(n), -1, 0)
           /\ go' = Append(Append(Below, Captured(Top)),
                        [Frame("run", n, <<>>, -1)
                           EXCEPT !.curfunc = Thunk(n), !.pc = 0, !.addr = Len(addr) + 1])
           /\ data' = data /\ ret' = ret
  BY <1>1, <1>2, <1>5, ThunkStep
<1>6. QED
  BY <1>1, <1>3, <1>4, <1>5 DEF EvalItem
-----------------------------------------------------------------------------
(* Back in the Run below *)

\* What is left when a Go activation goes and its caller runs on.
Behind(r, n, c, at, d, l, v) ==
    /\ IInv /\ Steady /\ r + 1 = Len(go) /\ r \in DOMAIN go /\ go[r].kind = "run"
    /\ Chain(r, n, c) /\ Stands(c, at, n, r, d, l, v)
    /\ main' = main /\ go' = Below /\ addr' \in Seq(AddressType) /\ linear' = linear
    /\ n <= Len(addr') /\ \A i \in 1..n : addr'[i] = addr[i]
    /\ Len(data') \in Nat /\ d <= Len(data') /\ \A i \in 1..d : data'[i] = data[i]

\* All that lies behind the code that goes on is as it was.
LEMMA BehindKept ==
    ASSUME NEW r, NEW n, NEW c, NEW at, NEW d, NEW l, NEW v, Behind(r, n, c, at, d, l, v)
    PROVE  /\ r \in Nat /\ go' \in Seq(FrameType) /\ Len(go') = r /\ r \in DOMAIN go
           /\ \A j \in 1..r : go'[j] = go[j]
           /\ go' # <<>> /\ Lowest' /\ Nested' /\ \A k \in DOMAIN go' : Shape(k)'
           /\ \A k \in 2..r : Recorded(k)'
           /\ Chain(r, n, c)' /\ Stands(c, at, n, r, d, l, v)'
           /\ Depth(r) \in 0..d /\ d \in 0..Len(data) /\ n \in 0..Len(addr) /\ l \in 1..Len(linear)
           /\ Depth(r)' = Depth(r) /\ \A j \in 1..r : go[j].addr <= n /\ go[j].linear <= l
<1>1. PICK K : K = Len(go)
  OBVIOUS
<1>2. /\ IInv /\ Steady /\ r + 1 = K /\ r \in DOMAIN go /\ go[r].kind = "run"
      /\ Chain(r, n, c) /\ Stands(c, at, n, r, d, l, v)
      /\ main' = main /\ go' = Below /\ addr' \in Seq(AddressType) /\ linear' = linear
      /\ n <= Len(addr') /\ (\A i \in 1..n : addr'[i] = addr[i])
      /\ Len(data') \in Nat /\ d <= Len(data') /\ \A i \in 1..d : data'[i] = data[i]
  BY <1>1 DEF Behind
<1>3. /\ go \in Seq(FrameType) /\ addr \in Seq(AddressType) /\ Len(data) \in Nat /\ Len(linear) \in Nat
      /\ go # <<>> /\ linear \in Seq({"global", Hole} \cup Scope)
  BY <1>2, Types DEF Steady
<1>4. r \in 1..Len(go) /\ r \in Nat /\ K > 1 /\ K - 1 = r
  BY <1>1, <1>2, <1>3
<1>5. /\ go' \in Seq(FrameType) /\ Len(go') = r /\ \A j \in 1..r : go'[j] = go[j]
      /\ go' # <<>> /\ Lowest' /\ Nested' /\ \A k \in DOMAIN go' : Shape(k)'
  BY <1>1, <1>2, <1>3, <1>4, Pops
<1>6. \A k \in 2..r : Recorded(k)
  BY <1>2, InSteps
<1>7. /\ Depth(r) \in 0..d /\ d \in 0..Len(data) /\ n \in 0..Len(addr) /\ l \in 1..Len(linear)
      /\ \A j \in 1..r : /\ go[j].addr <= n /\ go[j].linear <= l
                         /\ go[j].kind # "run" => go[j].data <= d
  BY <1>2, <1>6, WaitingAll, ZenonT(30)
<1>8. r \in 1..r /\ (r > 1 => r - 1 \in 1..r) /\ \A j \in 1..r - 1 : j \in 1..r
  BY <1>4
<1>9. /\ d \in Nat /\ n \in Nat /\ l \in Nat /\ l <= Len(linear') /\ (\A i \in 1..l : linear'[i] = linear[i])
      /\ Len(linear') \in Nat /\ Depth(r) <= d
  BY <1>2, <1>3, <1>7
<1>10. \A k \in 2..r : Recorded(k)'
  <2>1. /\ (\A j \in 1..r - 1 : go'[j] = go[j]) /\ SameFrame(go[r], go'[r])
        /\ (go[r].kind # "run" => go[r].addr <= n /\ go[r].linear <= l)
        /\ (go[r].kind = "run" /\ r > 1 => go[r - 1].addr <= n /\ go[r - 1].linear <= l)
    <3>1. go'[r] = go[r]
      BY <1>5, <1>8
    <3>2. QED
      BY <1>2, <1>5, <1>7, <1>8, <3>1 DEF SameFrame
  <2>2. QED
    BY <1>2, <1>6, <1>9, <2>1, LowerKept, ZenonT(30)
<1>11. Chain(r, n, c)' /\ Stands(c, at, n, r, d, l, v)'
  <2>1. go'[r] = go[r] /\ IF r = 1 THEN ~Owns(go[r].curfunc) ELSE go'[r - 1] = go[r - 1]
    <3>1. r # 1 => r - 1 \in 1..r
      BY <1>4
    <3>2. r = 1 => ~Owns(go[r].curfunc)
      BY <1>2, TopFacts, <1>3, <1>1 DEF Lowest, Owns, MainFunc
    <3>3. QED
      BY <1>5, <1>8, <3>1, <3>2
  <2>2. QED
    BY <1>2, <1>3, <1>9, <2>1, WaitingKept, ZenonT(30)
<1>12. Depth(r)' = Depth(r)
  <2>1. Upon(r)' = Upon(r) \/ r = 1
    <3>1. r # 1 => r - 1 \in 1..r
      BY <1>4
    <3>2. QED
      BY <1>5, <3>1 DEF Upon
  <2>2. go'[r] = go[r]
    BY <1>5, <1>8
  <2>3. QED
    BY <1>2, <2>1, <2>2 DEF Depth
<1>13. \A j \in 1..r : go[j].addr <= n /\ go[j].linear <= l
  BY <1>7
<1>14. QED
  BY <1>2, <1>4, <1>5, <1>7, <1>10, <1>11, <1>12, <1>13

\* Code that goes on at a place it has waited for keeps the invariant.
LEMMA RunsOn ==
    ASSUME NEW r, NEW n, NEW c, NEW at, NEW d, NEW l, NEW v, Behind(r, n, c, at, d, l, v),
           Typed', \A i \in DOMAIN data' : data'[i] # Hole, ret' = "none", InCode(r)'
    PROVE  IInv'
<1>1. /\ r \in Nat /\ Len(go') = r /\ r \in DOMAIN go /\ \A j \in 1..r : go'[j] = go[j]
      /\ go' # <<>> /\ Lowest' /\ Nested' /\ \A k \in DOMAIN go' : Shape(k)'
      /\ \A k \in 2..r : Recorded(k)'
  BY BehindKept
<1>2. go'[r].kind = "run"
  <2>1. r \in 1..r
    BY <1>1, Types DEF Behind
  <2>2. QED
    BY <1>1, <2>1 DEF Behind
<1>3. Runs(r)'
  BY <1>2 DEF Runs, TopRun
<1>4. r = Len(go')
  BY <1>1
<1>5. ret' \in {"none", "ok"} /\ (ret' = "ok" => FALSE)
  OBVIOUS
<1>6. QED
  BY <1>1, <1>3, <1>4, <1>5, Assemble

\* The value it waits for is on the stack.
LEMMA Answered ==
    ASSUME NEW r, NEW n, NEW c, NEW at, NEW d, NEW l, Behind(r, n, c, at, d, l, 1),
           Len(addr') = n, l = Len(linear), curfunc' = c, pc' = at, ret' = "none",
           addr' \in Seq(Entries), c \in Fn, at \in Int,
           data' \in Seq(Slot), Len(data') = d + 1, data'[d + 1] = Value
    PROVE  IInv'
<1>1. /\ IInv /\ Steady /\ main' = main /\ go' = Below /\ linear' = linear /\ go # <<>>
      /\ Stands(c, at, n, r, d, l, 1) /\ \A i \in 1..d : data'[i] = data[i]
  BY DEF Behind, Steady
<1>2. /\ Chain(r, n, c)' /\ Stands(c, at, n, r, d, l, 1)' /\ d \in 0..Len(data)
  BY BehindKept
<1>3. d \in Nat /\ 1 \in Nat /\ data \in Seq(Slot) /\ Len(data) \in Nat
  BY <1>1, <1>2, Types
<1>4. Stands(c, at, n, r, d + 1, l, 0)'
  <2>1. \A i \in 1..1 : data'[d + i] = Value
    OBVIOUS
  <2>2. QED
    BY <1>2, <1>3, <2>1, StandsGrown
<1>5. InCode(r)'
  <2>1. l = Len(linear')
    BY <1>1
  <2>2. QED
    BY <1>2, <1>4, <2>1 DEF InCode
<1>6. \A i \in DOMAIN data' : data'[i] # Hole
  <2>1. DOMAIN data' = 1..d + 1
    BY <1>3
  <2>2. \A i \in DOMAIN data : data[i] # Hole
    BY <1>1, InSteps, TopFacts DEF InOrder
  <2>3. ASSUME NEW i \in 1..d + 1 PROVE data'[i] # Hole
    <3>1. i = d + 1 \/ i \in 1..d
      BY <1>3
    <3>2. i \in 1..d => i \in DOMAIN data
      BY <1>2, <1>3
    <3>3. QED
      BY <1>1, <2>2, <3>1, <3>2 DEF Value, Hole
  <2>4. QED
    BY <2>1, <2>3
<1>7. Typed'
  <2>1. Within(c, at)
    <3>1. main \in Seq(Instruction)
      BY <1>1, Types
    <3>2. at \in Nat /\ at <= Len(Body(c))
      BY <1>1, <3>1, StandsWithin
    <3>3. Len(Body(c)) \in Nat
      BY <3>1, BodyIsSeq
    <3>4. QED
      BY <3>2, <3>3 DEF Within
  <2>2. go' \in Seq(Acts)
    BY <1>1, BelowTyped
  <2>3. linear' \in Seq(Scopings) /\ Len(linear') > 0 /\ linear'[1] = "global"
    BY <1>1, Types, TypesIn
  <2>4. QED
    BY <1>1, <2>1, <2>2, <2>3, TypedNow
<1>8. QED
  BY <1>5, <1>6, <1>7, RunsOn

\* What is known of a Go function that runs.
UserRuns(K, F) ==
    /\ Steady /\ K \in Nat /\ K > 1 /\ K \in DOMAIN go /\ F \in Acts /\ F.kind = "user" /\ Top = F
    /\ K - 1 \in DOMAIN go /\ go[K - 1].kind = "run" /\ (K - 1) + 1 = K
    /\ F.data \in Nat /\ F.i \in 0..1 /\ F.addr \in Nat /\ F.linear = Len(linear)
    /\ F.f \in Builtin /\ F.base \in {-1, F.data} /\ Depth(K) = F.data
    /\ Len(addr) = F.addr + 1 /\ addr[F.addr + 1].fn = F.curfunc /\ addr[F.addr + 1].pc = F.pc + 1
    /\ Len(data) = F.data + F.i /\ (\A i \in 1..F.i : data[F.data + i] = Value)
    /\ curfunc = Go(F.f) /\ (pc = -1 \/ (pc = 0 /\ ret = "ok"))
    /\ Chain(K - 1, F.addr, F.curfunc)
    /\ Stands(F.curfunc, F.pc + 1, F.addr, K - 1, F.data, F.linear, 1)
    /\ (\A k \in 2..K : Recorded(k)) /\ \A i \in DOMAIN data : data[i] # Hole

\* What a Go function finds while it runs: its entry, its operands, and the
\* code that waits for its result.
LEMMA UserThere ==
    ASSUME IInv, At("user", "none") \/ At("user", "ok"), NEW K, K = Len(go), NEW F, F = go[K]
    PROVE  UserRuns(K, F)
<1>1. /\ go # <<>> /\ K \in Nat /\ K > 1 /\ K \in DOMAIN go /\ F \in Acts /\ F \in FrameType
      /\ F.kind = "user" /\ Top = F /\ Shape(K) /\ Steady /\ K - 1 \in DOMAIN go
  BY AtTop
<1>2. InOrder /\ \A k \in 2..K : Recorded(k)
  BY <1>1, InSteps
<1>3. TopUser(K)
  BY <1>1, <1>2 DEF InOrder, Runs
<1>4. CallOn(K)
  <2>1. K \in 2..K
    BY <1>1
  <2>2. QED
    BY <1>1, <1>2, <2>1 DEF Recorded
<1>5. F.data \in Nat /\ F.i \in Nat /\ F.addr \in Nat /\ F.curfunc \in Fn /\ F.pc \in Int
  BY <1>1 DEF FrameType
<1>6. /\ F.f \in Builtin /\ F.base \in {-1, F.data} /\ F.i \in 0..1 /\ go[K - 1].kind = "run"
  BY <1>1 DEF Shape, Upon
<1>7. Depth(K) = F.data
  BY <1>1 DEF Depth
<1>8. UserEntry(K, Len(addr), Len(linear)) /\ Len(data) = F.data + F.i
      /\ curfunc = Go(F.f) /\ (pc = -1 \/ (pc = 0 /\ ret = "ok"))
  BY <1>3 DEF TopUser
<1>9. /\ Len(addr) = F.addr + 1 /\ F.linear = Len(linear) /\ addr[F.addr + 1].fn = F.curfunc
      /\ addr[F.addr + 1].pc = F.pc + 1 /\ \A i \in 1..F.i : data[F.data + i] = Value
  BY <1>8 DEF UserEntry
<1>10. /\ Chain(K - 1, F.addr, F.curfunc)
       /\ Stands(F.curfunc, F.pc + 1, F.addr, K - 1, F.data, F.linear, 1)
  BY <1>1, <1>4, <1>7 DEF CallOn
<1>11. (K - 1) + 1 = K
  BY <1>1
<1>12. QED
  BY <1>1, <1>2, <1>5, <1>6, <1>7, <1>8, <1>9, <1>10, <1>11 DEF InOrder, UserRuns

\* A Go function returns: its result is what the code behind the call waits
\* for.
LEMMA BuiltinReturnsStep ==
    ASSUME IInv, BuiltinReturns, main' = main
    PROVE  IInv'
<1>1. PICK K, F : K = Len(go) /\ F = go[K]
  OBVIOUS
<1>2. At("user", "none") \/ At("user", "ok")
  BY DEF BuiltinReturns
<1>3. /\ Steady /\ K \in Nat /\ K > 1 /\ F \in Acts /\ Top = F
      /\ K - 1 \in DOMAIN go /\ go[K - 1].kind = "run" /\ (K - 1) + 1 = K
      /\ F.data \in Nat /\ F.i \in 0..1 /\ F.addr \in Nat /\ F.linear = Len(linear)
      /\ Len(addr) = F.addr + 1 /\ addr[F.addr + 1].fn = F.curfunc /\ addr[F.addr + 1].pc = F.pc + 1
      /\ Len(data) = F.data + F.i
      /\ Chain(K - 1, F.addr, F.curfunc)
      /\ Stands(F.curfunc, F.pc + 1, F.addr, K - 1, F.data, F.linear, 1)
  <2>1. UserRuns(K, F)
    BY <1>1, <1>2, UserThere
  <2>2. QED
    BY <2>1 DEF UserRuns
<1>4. /\ addr \in Seq(AddressType) /\ addr \in Seq(Entries) /\ data \in Seq(Slot) /\ Value \in Slot
      /\ Len(data) \in Nat /\ linear \in Seq(Scopings)
  BY <1>1, Types, TypesIn, Slots
<1>5. PICK s : BuiltinDone(s) /\ s \in Seq(Slot) /\ Len(s) = F.data /\ \A i \in 1..F.data : s[i] = data[i]
  <2>1. CASE F.i = 0 /\ BuiltinDone(data)
    <3>1. Len(data) = F.data
      BY <1>3, <2>1
    <3>2. QED
      BY <1>4, <2>1, <3>1
  <2>2. CASE F.i > 0 /\ data # <<>> /\ BuiltinDone(Front(data))
    <3>1. Len(data) = F.data + 1
      BY <1>3, <2>2
    <3>2. Front(data) = SubSeq(data, 1, Len(data) - 1)
      BY DEF Front
    <3>3. Front(data) \in Seq(Slot) /\ Len(Front(data)) = F.data
          /\ \A i \in 1..F.data : Front(data)[i] = data[i]
      BY <1>3, <1>4, <3>1, <3>2, SMTT(30)
    <3>4. QED
      BY <2>2, <3>3
  <2>3. QED
    BY <1>3, <2>1, <2>2 DEF BuiltinReturns
<1>6. /\ data' = Append(s, Value) /\ go' = Below /\ ret' = "none" /\ linear' = linear
      /\ curfunc' = Last(addr).fn /\ pc' = Last(addr).pc /\ addr' = Front(addr)
  <2>1. Len(addr) > Top.addr
    BY <1>1, <1>3
  <2>2. QED
    BY <1>5, <2>1 DEF BuiltinDone
<1>7. curfunc' = F.curfunc /\ pc' = F.pc + 1
  BY <1>1, <1>3, <1>6 DEF Last
<1>8. /\ addr' \in Seq(Entries) /\ Len(addr') = F.addr /\ \A i \in 1..F.addr : addr'[i] = addr[i]
  <2>1. addr' = SubSeq(addr, 1, Len(addr) - 1)
    BY <1>6 DEF Front
  <2>2. PICK q : q = F.addr
    OBVIOUS
  <2>3. q \in Nat /\ Len(addr) = q + 1
    BY <1>3, <2>2
  <2>6. Len(addr) - 1 = q
    BY <2>3
  <2>7. addr' = SubSeq(addr, 1, q)
    BY <2>1, <2>6
  <2>4. /\ addr' \in Seq(Entries) /\ Len(addr') = q /\ \A i \in 1..q : addr'[i] = addr[i]
    BY <1>4, <2>3, <2>7
  <2>5. QED
    BY <2>2, <2>4
<1>9. /\ data' \in Seq(Slot) /\ Len(data') = F.data + 1 /\ data'[F.data + 1] = Value
      /\ \A i \in 1..F.data : data'[i] = data[i]
  BY <1>3, <1>4, <1>5, <1>6, SMTT(30)
<1>10. PICK r, n, c, at, d, l : /\ r = K - 1 /\ n = F.addr /\ c = F.curfunc /\ at = F.pc + 1
                                /\ d = F.data /\ l = F.linear
  OBVIOUS
<1>11. Behind(r, n, c, at, d, l, 1)
  <2>1. addr' \in Seq(AddressType) /\ n <= Len(addr') /\ Len(data') \in Nat /\ d <= Len(data')
    BY <1>3, <1>8, <1>9, <1>10, SMTT(30) DEF Entries
  <2>2. QED
    BY <1>1, <1>3, <1>6, <1>8, <1>9, <1>10, <2>1 DEF Behind
<1>12. F.curfunc \in Fn /\ F.pc + 1 \in Int
  <2>1. F \in FrameType
    BY <1>3 DEF Acts
  <2>2. QED
    BY <2>1 DEF FrameType
<1>13. QED
  BY <1>3, <1>6, <1>7, <1>8, <1>9, <1>10, <1>11, <1>12, Answered

-----------------------------------------------------------------------------
(* The call itself *)

\* A function is entered: what called it waits too.
LEMMA ChainPushed ==
    ASSUME go' \in Seq(FrameType), addr' \in Seq(AddressType), NEW r \in DOMAIN go',
           NEW n \in Nat, NEW c, Chain(r, n, c)', NEW e, e = addr'[n + 1], Len(addr') = n + 1,
           e.fn = c, NEW fn, fn[1] = "func",
           e.operands >= Depth(r)', e.scopes >= go'[r].linear,
           Stands(c, e.pc, n, r, e.operands, e.scopes, Answers(fn))',
           \A j \in go'[r].addr + 1..n : addr'[j].operands <= e.operands /\ addr'[j].scopes <= e.scopes
    PROVE  Chain(r, n + 1, fn)'
<1>1. PICK a : a = go'[r].addr
  OBVIOUS
<1>2. a \in Nat /\ a <= n /\ n + 1 \in a..Len(addr')
  <2>1. a \in Nat
    BY <1>1, FrameFields
  <2>2. n \in a..Len(addr')
    BY <1>1 DEF Chain
  <2>3. QED
    BY <2>1, <2>2
<1>3. \A j \in a..n : Callee(j, n + 1, fn)' = Callee(j, n, c)'
  <2>1. SUFFICES ASSUME NEW j \in a..n PROVE Callee(j, n + 1, fn)' = Callee(j, n, c)'
    OBVIOUS
  <2>2. j # n + 1
    BY <1>2
  <2>3. QED
    BY <2>2 DEF Callee
<1>4. Callee(n + 1, n + 1, fn)' = fn
  BY DEF Callee
<1>5. Callee(a, n + 1, fn)' = go'[r].curfunc
  <2>1. a \in a..n
    BY <1>2
  <2>2. QED
    BY <1>1, <1>3, <2>1 DEF Chain
<1>6. ASSUME NEW j \in a + 1..n + 1
      PROVE  /\ Callee(j, n + 1, fn)'[1] = "func"
             /\ addr'[j].operands >= Depth(r)' /\ addr'[j].scopes >= go'[r].linear
             /\ Stands(addr[j].fn, addr[j].pc, j - 1, r,
                       addr[j].operands, addr[j].scopes, Answers(Callee(j, n + 1, fn)))'
  <2>1. CASE j = n + 1
    <3>1. j - 1 = n
      BY <2>1
    <3>2. QED
      BY <1>4, <2>1, <3>1
  <2>2. CASE j # n + 1
    <3>1. j \in a + 1..n /\ j \in a..n
      BY <1>2, <2>2
    <3>2. QED
      BY <1>1, <1>3, <3>1 DEF Chain
  <2>3. QED
    BY <2>1, <2>2
<1>7. ASSUME NEW i \in a + 1..n + 1, NEW j \in a + 1..n + 1, i < j
      PROVE  addr'[i].operands <= addr'[j].operands /\ addr'[i].scopes <= addr'[j].scopes
  <2>1. i \in a + 1..n
    BY <1>2, <1>7
  <2>2. CASE j = n + 1
    BY <1>1, <2>1, <2>2
  <2>3. CASE j # n + 1
    <3>1. j \in a + 1..n
      BY <1>2, <2>3
    <3>2. QED
      BY <1>1, <1>7, <2>1, <3>1 DEF Chain
  <2>4. QED
    BY <2>2, <2>3
<1>8. Owns(go'[r].curfunc) => a > 0 /\ addr'[a] = EntryOf(Upon(r)')
  BY <1>1 DEF Chain
<1>9. QED
  BY <1>1, <1>2, <1>5, <1>6, <1>7, <1>8 DEF Chain

\* A call whose m arguments are all on the stack.
Resolved(K, F, m) ==
    /\ Steady /\ K \in Nat /\ K > 1 /\ K \in DOMAIN go /\ Top = F /\ F.kind = "call"
    /\ K - 1 \in DOMAIN go /\ go[K - 1].kind = "run" /\ (K - 1) + 1 = K
    /\ m \in Nat /\ F.base \in Nat /\ Len(data) = F.base + m
    /\ \A i \in F.base + 1..Len(data) : data[i] = Value
    /\ Chain(K - 1, Len(addr), curfunc)
    /\ Stands(curfunc, pc + 1, Len(addr), K - 1, F.base, Len(linear), Len(Answer(F.f)))
    /\ F.f \in Name \cup Builtin \cup {"main"} /\ ret = "none"
    /\ \A i \in DOMAIN data : data[i] # Hole

\* What CallResolved finds: one value for each argument, above the operands of
\* the code that calls.
LEMMA ResolvedThere ==
    ASSUME IInv, At("call", "none"), Top.i = Len(Top.items), NEW m, m = Len(Top.items) - 1,
           NEW K, K = Len(go), NEW F, F = go[K]
    PROVE  Resolved(K, F, m)
<1>1. /\ Steady /\ go[K].kind = "call" /\ ret = "none" /\ Top = F /\ K - 1 \in DOMAIN go
      /\ Shape(K) /\ F \in FrameType
  BY AtTop
<1>2. /\ K \in Nat /\ K > 1 /\ K \in DOMAIN go /\ F.kind = "call" /\ F.base \in Nat /\ F.i \in Nat
      /\ F.addr = Len(addr) /\ F.linear = Len(linear) /\ curfunc = F.curfunc /\ pc = F.pc
      /\ Len(data) = F.base + Pushed(F.i) /\ AllValues(F.base) /\ Depth(K) = F.base /\ CallOn(K)
      /\ F.items # <<>> /\ F.items \in Seq(Name) /\ \A i \in DOMAIN data : data[i] # Hole
  BY <1>1, CallThere
<1>3. Len(F.items) \in Nat /\ Len(F.items) > 0
  BY <1>2
<1>4. m \in Nat /\ Pushed(F.i) = m
  <2>1. F.i = Len(F.items) /\ F.i # 0 /\ m = Len(F.items) - 1
    BY <1>1, <1>3
  <2>2. QED
    BY <1>3, <2>1 DEF Pushed
<1>5. \A i \in F.base + 1..Len(data) : data[i] = Value
  BY <1>2 DEF AllValues
<1>6. /\ Chain(K - 1, Len(addr), curfunc)
      /\ Stands(curfunc, pc + 1, Len(addr), K - 1, F.base, Len(linear), Len(Answer(F.f)))
  BY <1>2 DEF CallOn
<1>7. go[K - 1].kind = "run" /\ (K - 1) + 1 = K
  BY <1>1, <1>2 DEF Shape, Upon
<1>8. F.f \in Name \cup Builtin \cup {"main"}
  BY <1>1 DEF FrameType
<1>9. QED
  BY <1>1, <1>2, <1>4, <1>5, <1>6, <1>7, <1>8 DEF Resolved

\* z is s up to b, then n values.
Grown(s, b, z, n) ==
    /\ Len(z) = b + n
    /\ \A i \in 1..b : z[i] = s[i]
    /\ \A i \in b + 1..Len(z) : z[i] = Value

\* What a function begins with: an operand for each of its parameters.
LEMMA WrangledIs ==
    ASSUME NEW s \in Seq(Slot), NEW f \in Function, NEW m \in Nat, Fits(f, m), NEW b \in Nat,
           Len(s) = b + m, \A i \in b + 1..Len(s) : s[i] = Value,
           NEW z, z = Wrangled(f, m, s)
    PROVE  z \in Seq(Slot) /\ Params(f) \in Nat /\ Grown(s, b, z, Params(f))
<1> USE DEF Grown
<1>1. PICK a : a = Arity[f]
  OBVIOUS
<1>2. a \in Nat /\ Value \in Slot
  BY <1>1, NamesAssumption, Slots
<1>3. CASE f \in Varargs
  <2>1. m >= a /\ Params(f) = a + 1
    BY <1>1, <1>3 DEF Fits, Params
  <2>2. z = Append(SubSeq(s, 1, Len(s) - (m - a)), Value)
    BY <1>1, <1>3 DEF Wrangled
  <2>3. PICK t : t = b + a
    OBVIOUS
  <2>4. t \in 0..Len(s) /\ Len(s) - (m - a) = t
    BY <1>2, <2>1, <2>3
  <2>5. PICK y : y = SubSeq(s, 1, t)
    OBVIOUS
  <2>6. y \in Seq(Slot) /\ Len(y) = t /\ \A i \in 1..t : y[i] = s[i]
    BY <2>4, <2>5
  <2>7. z = Append(y, Value)
    BY <2>2, <2>4, <2>5
  <2>8. /\ z \in Seq(Slot) /\ Len(z) = t + 1 /\ z[t + 1] = Value /\ \A i \in 1..t : z[i] = y[i]
    BY <1>2, <2>6, <2>7
  <2>9. Len(z) = b + Params(f)
    BY <1>2, <2>1, <2>3, <2>8
  <2>10. \A i \in 1..b : z[i] = s[i]
    BY <1>2, <2>3, <2>6, <2>8
  <2>11. \A i \in b + 1..Len(z) : z[i] = Value
    <3>1. SUFFICES ASSUME NEW i \in b + 1..Len(z) PROVE z[i] = Value
      OBVIOUS
    <3>2. i = t + 1 \/ (i \in 1..t /\ i \in b + 1..Len(s))
      BY <1>2, <2>3, <2>4, <2>8
    <3>3. QED
      BY <2>6, <2>8, <3>2
  <2>12. Params(f) \in Nat
    BY <1>2, <2>1
  <2>13. QED
    BY <2>8, <2>9, <2>10, <2>11, <2>12
<1>4. CASE f \notin Varargs
  <2>1. m = a /\ Params(f) = a /\ z = s
    BY <1>1, <1>4 DEF Fits, Params, Wrangled
  <2>2. QED
    BY <1>2, <2>1
<1>5. QED
  BY <1>3, <1>4

\* The code of a function is all its own, and starts with its arguments.
LEMMA FunctionLoads ==
    ASSUME NEW f \in Function
    PROVE  /\ <<f, 0>> \in Loaded(Func(f))' /\ Owns(Func(f)) /\ Func(f) \in Fn /\ f \in Name
           /\ f \in Proper /\ Entry(f).ops = Values(Params(f)) /\ Func(f)[2] = f /\ Func(f)[1] = "func"
<1>1. f \in Name /\ f \in Proper /\ Func(f) = <<"func", f>>
  BY NamesAssumption DEF Func, Proper
<1>2. Func(f)[1] = "func" /\ Func(f)[2] = f /\ Func(f) # MainFunc
  BY <1>1 DEF MainFunc
<1>3. <<f, 0>> \in Loaded(Func(f))'
  BY <1>2 DEF Loaded
<1>4. Entry(f).ops = Values(Params(f))
  BY <1>1, EntryIs
<1>5. QED
  BY <1>1, <1>2, <1>3, <1>4 DEF Owns, Fn

\* CallFunction from CallResolved: the arguments become the function's
\* operands, and the call waits on the address stack.
LEMMA EnterFunctionStep ==
    ASSUME IInv, At("call", "none"), Top.i = Len(Top.items), main' = main,
           NEW f \in Function, f = Top.f, NEW m, m = Len(Top.items) - 1, Fits(f, m),
           EnterFunction(Func(f), pc + 1, m), data' = Wrangled(f, m, data), go' = Below, ret' = ret
    PROVE  IInv'
<1>1. PICK K, F : K = Len(go) /\ F = go[K]
  OBVIOUS
<1>2. Top = F
  BY <1>1, AtTop
<1>3. PICK r, n, c, at, d, l : /\ r = K - 1 /\ n = Len(addr) /\ c = curfunc /\ at = pc + 1
                               /\ d = F.base /\ l = Len(linear)
  OBVIOUS
<1>4. /\ Steady /\ K \in Nat /\ K > 1 /\ r \in DOMAIN go /\ go[r].kind = "run" /\ r + 1 = K
      /\ m \in Nat /\ d \in Nat /\ Len(data) = d + m
      /\ (\A i \in d + 1..Len(data) : data[i] = Value) /\ ret = "none"
      /\ Chain(r, n, c) /\ Stands(c, at, n, r, d, l, Len(Answer(f)))
      /\ \A i \in DOMAIN data : data[i] # Hole
  <2>1. /\ Steady /\ K \in Nat /\ K > 1 /\ K - 1 \in DOMAIN go /\ go[K - 1].kind = "run" /\ (K - 1) + 1 = K
        /\ m \in Nat /\ F.base \in Nat /\ Len(data) = F.base + m
        /\ (\A i \in F.base + 1..Len(data) : data[i] = Value) /\ ret = "none"
        /\ Chain(K - 1, Len(addr), curfunc)
        /\ Stands(curfunc, pc + 1, Len(addr), K - 1, F.base, Len(linear), Len(Answer(F.f)))
        /\ \A i \in DOMAIN data : data[i] # Hole
    <3>1. Resolved(K, F, m)
      BY <1>1, ResolvedThere
    <3>2. QED
      BY <3>1 DEF Resolved
  <2>2. F.f = f
    BY <1>2
  <2>3. QED
    BY <1>3, <2>1, <2>2
<1>5. /\ addr \in Seq(AddressType) /\ addr \in Seq(Entries) /\ data \in Seq(Slot)
      /\ linear \in Seq(Scopings) /\ n \in Nat /\ l \in Nat /\ l > 0 /\ linear[1] = "global"
      /\ c \in Fn /\ at \in Int /\ main \in Seq(Instruction) /\ Len(data) \in Nat
  BY <1>3, Types, TypesIn
<1>6. PICK z, p : z = Wrangled(f, m, data) /\ p = Params(f)
  OBVIOUS
<1>7. /\ z \in Seq(Slot) /\ Len(z) = d + p /\ p \in Nat /\ (\A i \in 1..d : z[i] = data[i])
      /\ \A i \in d + 1..Len(z) : z[i] = Value
  <2>1. z \in Seq(Slot) /\ Params(f) \in Nat /\ Grown(data, d, z, Params(f))
    <3>1. data \in Seq(Slot) /\ d \in Nat /\ m \in Nat /\ Len(data) = d + m
      BY <1>4, <1>5
    <3>2. \A i \in d + 1..Len(data) : data[i] = Value
      BY <1>4
    <3>3. z = Wrangled(f, m, data)
      BY <1>6
    <3>4. QED
      BY <3>1, <3>2, <3>3, WrangledIs, ZenonT(60)
  <2>2. QED
    BY <1>6, <2>1 DEF Grown
<1>8. PICK e : e = Address(curfunc, pc + 1, m)
  OBVIOUS
<1>9. /\ addr' = Append(addr, e) /\ curfunc' = Func(f) /\ pc' = 0 /\ linear' = linear
      /\ data' = z /\ go' = Below /\ ret' = "none"
  BY <1>4, <1>6, <1>8 DEF EnterFunction
<1>10. e = [fn |-> c, pc |-> at, operands |-> d, scopes |-> l]
  <2>1. e = [fn |-> c, pc |-> at, operands |-> Len(data) - m, scopes |-> l]
    BY <1>3, <1>8 DEF Address
  <2>2. Len(data) - m = d
    BY <1>4
  <2>3. QED
    BY <2>1, <2>2
<1>11. /\ e \in Entries /\ e.fn = c /\ e.pc = at /\ e.operands = d /\ e.scopes = l
  <2>1. e \in AddressType
    BY <1>4, <1>5, <1>10 DEF AddressType
  <2>2. at \in Nat /\ at <= Len(Body(c))
    BY <1>4, <1>5, StandsWithin
  <2>3. Len(Body(c)) \in Nat
    BY <1>5, BodyIsSeq
  <2>4. Within(e.fn, e.pc)
    BY <1>10, <2>2, <2>3 DEF Within
  <2>5. QED
    BY <1>10, <2>1, <2>4 DEF Entries
<1>12. /\ addr' \in Seq(Entries) /\ Len(addr') = n + 1 /\ addr'[n + 1] = e
       /\ (\A i \in 1..n : addr'[i] = addr[i]) /\ addr' \in Seq(AddressType)
  <2>1. /\ addr' \in Seq(Entries) /\ Len(addr') = n + 1 /\ addr'[n + 1] = e
        /\ \A i \in 1..n : addr'[i] = addr[i]
    BY <1>3, <1>5, <1>9, <1>11
  <2>2. QED
    BY <2>1 DEF Entries
<1>13. Behind(r, n, c, at, d, l, Len(Answer(f)))
  <2>1. n <= Len(addr') /\ Len(data') \in Nat /\ d <= Len(data')
    <3>1. d \in Nat /\ p \in Nat /\ Len(data') = d + p
      BY <1>4, <1>7, <1>9
    <3>2. n \in Nat /\ Len(addr') = n + 1
      BY <1>5, <1>12
    <3>3. QED
      BY <3>1, <3>2
  <2>2. \A i \in 1..d : data'[i] = data[i]
    BY <1>7, <1>9
  <2>3. QED
    BY <1>1, <1>4, <1>9, <1>12, <2>1, <2>2 DEF Behind
<1>14. /\ go' \in Seq(FrameType) /\ Len(go') = r /\ r \in Nat /\ \A j \in 1..r : go'[j] = go[j]
       /\ Chain(r, n, c)' /\ Stands(c, at, n, r, d, l, Len(Answer(f)))'
       /\ Depth(r) \in 0..d /\ Depth(r)' = Depth(r) /\ \A j \in 1..r : go[j].addr <= n /\ go[j].linear <= l
  BY <1>13, BehindKept
<1>15. PICK fn : fn = Func(f)
  OBVIOUS
<1>16. /\ <<f, 0>> \in Loaded(fn)' /\ Owns(fn) /\ fn \in Fn /\ f \in Proper
       /\ Entry(f).ops = Values(p) /\ fn[2] = f /\ fn[1] = "func"
  BY <1>6, <1>15, FunctionLoads
<1>17. r \in 1..r /\ go'[r] = go[r] /\ r \in DOMAIN go'
  <2>4. DOMAIN go' = 1..r
    BY <1>14
  <2>5. DOMAIN go = 1..Len(go)
    BY Types
  <2>1. r \in 1..Len(go) /\ DOMAIN go' = 1..r
    BY <1>4, <2>4, <2>5
  <2>2. r \in 1..r
    BY <1>14, <2>1
  <2>3. QED
    BY <1>14, <2>1, <2>2
<1>18. \A j \in go[r].addr + 1..n : addr[j].operands <= d /\ addr[j].scopes <= l
  <2>1. PICK v : v = Len(Answer(f))
    OBVIOUS
  <2>2. Stands(c, at, n, r, d, l, v)
    BY <1>4, <2>1
  <2>3. go \in Seq(FrameType) /\ Len(linear) \in Nat
    BY Types
  <2>4. /\ d \in 0..Len(data) /\ l \in 0..Len(linear)
        /\ OperandBase(c, n, r) \in 0..d /\ ScopeBase(c, n, r) \in 0..l
        /\ \A j \in go[r].addr + 1..n :
                 /\ addr[j].operands <= OperandBase(c, n, r)
                 /\ addr[j].scopes <= ScopeBase(c, n, r)
    BY <1>4, <1>5, <2>2, <2>3, ChainBelow
  <2>5. go[r].addr \in Nat
    BY <1>4, <2>3, FrameFields
  <2>6. SUFFICES ASSUME NEW j \in go[r].addr + 1..n PROVE addr[j].operands <= d /\ addr[j].scopes <= l
    OBVIOUS
  <2>7. addr[j].operands \in Nat /\ addr[j].scopes \in Nat
    <3>1. j \in 1..Len(addr)
      BY <1>3, <1>5, <2>5
    <3>2. QED
      BY <1>5, <3>1, EntryFields
  <2>8. QED
    BY <2>4, <2>7, SMTT(30)
<1>19. Chain(r, n + 1, fn)'
  <2>1. \A j \in go'[r].addr + 1..n : addr'[j].operands <= e.operands /\ addr'[j].scopes <= e.scopes
    <3>1. go[r].addr \in Nat
      BY <1>4, Types, FrameFields
    <3>2. \A j \in go[r].addr + 1..n : j \in 1..n
      BY <1>5, <3>1
    <3>3. QED
      BY <1>11, <1>12, <1>17, <1>18, <3>2
  <2>2. e.operands >= Depth(r)' /\ e.scopes >= go'[r].linear
    <3>1. go[r].linear <= l /\ Depth(r) <= d /\ Depth(r) \in Nat /\ go[r].linear \in Nat
      <4>1. go[r].linear \in Nat
        BY <1>4, Types, FrameFields
      <4>2. Depth(r) \in 0..d /\ go[r].linear <= l
        BY <1>14, <1>17
      <4>3. QED
        BY <1>4, <4>1, <4>2
    <3>2. QED
      BY <1>4, <1>5, <1>11, <1>14, <1>17, <3>1
  <2>3. Answers(fn) = Len(Answer(f))
    BY <1>16 DEF Answers
  <2>4. Stands(c, e.pc, n, r, e.operands, e.scopes, Answers(fn))'
    BY <1>11, <1>14, <2>3
  <2>5. QED
    BY <1>5, <1>11, <1>12, <1>14, <1>16, <1>17, <2>1, <2>2, <2>4, ChainPushed
<1>20. Stands(fn, 0, n + 1, r, Len(data), Len(linear), 0)'
  <2>1. d = OperandBase(fn, n + 1, r)' /\ l = ScopeBase(fn, n + 1, r)'
    BY <1>11, <1>12, <1>16 DEF OperandBase, ScopeBase
  <2>2. /\ Len(linear') = l /\ Len(data') = d + p /\ \A i \in d + 1..Len(data') : data'[i] = Value
    BY <1>3, <1>7, <1>9
  <2>3. d \in Nat /\ l \in Nat /\ p \in Nat
    BY <1>4, <1>5, <1>7
  <2>4. QED
    BY <1>16, <2>1, <2>2, <2>3, Begins, ZenonT(30)
<1>21. InCode(r)'
  <2>1. n + 1 = Len(addr') /\ fn = curfunc' /\ pc' = 0
    BY <1>9, <1>12, <1>15
  <2>2. QED
    BY <1>19, <1>20, <2>1 DEF InCode
<1>22. \A i \in DOMAIN data' : data'[i] # Hole
  <2>1. DOMAIN data' = 1..d + p /\ Len(data') = d + p
    BY <1>7, <1>9
  <2>2. ASSUME NEW i \in 1..d + p PROVE data'[i] # Hole
    <3>1. i \in 1..d \/ i \in d + 1..d + p
      BY <1>4, <1>7
    <3>2. i \in 1..d => i \in DOMAIN data
      BY <1>4, <1>5, SMTT(30)
    <3>3. QED
      BY <1>4, <1>7, <1>9, <3>1, <3>2 DEF Value, Hole
  <2>3. QED
    BY <2>1, <2>2
<1>23. Typed'
  <2>1. Within(fn, 0)
    <3>1. Len(Body(fn)) \in Nat
      BY <1>5, <1>16, BodyIsSeq
    <3>2. QED
      BY <3>1 DEF Within
  <2>2. go' \in Seq(Acts)
    BY <1>4, <1>9, BelowTyped DEF Steady
  <2>3. linear' \in Seq(Scopings) /\ Len(linear') > 0 /\ linear'[1] = "global"
    BY <1>3, <1>5, <1>9
  <2>4. curfunc' = fn /\ fn \in Fn /\ pc' = 0
    BY <1>9, <1>15, <1>16
  <2>5. QED
    BY <1>7, <1>9, <1>12, <2>1, <2>2, <2>3, <2>4, TypedNow
<1>24. QED
  BY <1>9, <1>13, <1>21, <1>22, <1>23, RunsOn

\* CallUserFunction from CallResolved: the arguments are popped.
LEMMA CallBuiltin ==
    ASSUME IInv, At("call", "none"), Top.i = Len(Top.items), main' = main,
           NEW f \in Builtin, f = Top.f, NEW m, m = Len(Top.items) - 1,
           EnterBuiltin(f, m, Below, Top.base, 0)
    PROVE  IInv'
<1>1. PICK K, F : K = Len(go) /\ F = go[K]
  OBVIOUS
<1>2. Resolved(K, F, m)
  BY <1>1, ResolvedThere
<1>3. PICK r, d, n, b : r = K - 1 /\ d = F.base /\ n = m + 0 /\ b = Top.base
  OBVIOUS
<1>4. /\ Steady /\ K \in Nat /\ r \in DOMAIN go /\ go[r].kind = "run" /\ r + 1 = K /\ Top = F
      /\ m \in Nat /\ d \in Nat /\ Len(data) = d + m
      /\ Chain(r, Len(addr), curfunc)
      /\ Stands(curfunc, pc + 1, Len(addr), r, d, Len(linear), Len(Answer(F.f)))
  BY <1>2, <1>3 DEF Resolved
<1>5. n = m /\ n <= Len(data) /\ d = Len(data) - n /\ b \in {-1, d} /\ r \in Nat
  <2>1. r \in Nat
    BY <1>4, Types, SMTT(30)
  <2>2. QED
    BY <1>3, <1>4, <2>1
<1>6. Below \in Seq(Acts) /\ Len(Below) = r /\ \A j \in 1..r : Below[j] = go[j]
  <2>1. go # <<>>
    BY <1>4 DEF Steady
  <2>2. Below \in Seq(Acts)
    BY <2>1, BelowTyped
  <2>3. Len(Below) = K - 1 /\ \A j \in 1..K - 1 : Below[j] = go[j]
    BY <1>1, <2>1, TopFacts
  <2>4. QED
    BY <1>3, <2>2, <2>3
<1>7. Len(Answer(F.f)) = 1
  <2>1. F.f = f /\ f \notin Function
    BY <1>4, NamesAssumption
  <2>2. QED
    BY <2>1 DEF Answer
<1>8. Stands(curfunc, pc + 1, Len(addr), r, d, Len(linear), 1)
  BY <1>4, <1>7
<1>9. EnterBuiltin(f, m, Below, b, 0) /\ 0 \in Nat
  BY <1>3
<1>10. QED
  BY <1>3, <1>4, <1>5, <1>6, <1>8, <1>9, EnterBuiltinStep, ZenonT(30)

\* Any other value in parentheses is itself.
LEMMA CallValue ==
    ASSUME IInv, At("call", "none"), Top.i = Len(Top.items), main' = main,
           Top.f \notin Function, 0 = Len(Top.items) - 1,
           data' = Append(data, Value), pc' = pc + 1, go' = Below,
           UNCHANGED <<curfunc, addr, linear, ret>>
    PROVE  IInv'
<1>1. PICK K, F : K = Len(go) /\ F = go[K]
  OBVIOUS
<1>2. Resolved(K, F, 0)
  BY <1>1, ResolvedThere
<1>3. PICK r, n, c, at, d, l : /\ r = K - 1 /\ n = Len(addr) /\ c = curfunc /\ at = pc + 1
                               /\ d = F.base /\ l = Len(linear)
  OBVIOUS
<1>4. /\ Steady /\ K \in Nat /\ r \in DOMAIN go /\ go[r].kind = "run" /\ r + 1 = K /\ Top = F
      /\ d \in Nat /\ Len(data) = d + 0 /\ ret = "none"
      /\ Chain(r, n, c)
      /\ Stands(c, at, n, r, d, l, Len(Answer(F.f)))
  BY <1>2, <1>3 DEF Resolved
<1>5. Len(Answer(F.f)) = 1
  BY <1>4 DEF Answer
<1>6. Stands(c, at, n, r, d, l, 1)
  BY <1>4, <1>5
<1>7. /\ addr \in Seq(AddressType) /\ addr \in Seq(Entries) /\ data \in Seq(Slot) /\ Value \in Slot
      /\ c \in Fn /\ at \in Int /\ Len(addr) \in Nat
  BY <1>3, Types, TypesIn, Slots
<1>8. /\ data' \in Seq(Slot) /\ Len(data') = d + 1 /\ data'[d + 1] = Value
      /\ \A i \in 1..d : data'[i] = data[i]
  <2>1. Len(data) = d
    BY <1>4
  <2>2. QED
    BY <1>4, <1>7, <2>1
<1>9. Behind(r, n, c, at, d, l, 1)
  <2>1. /\ addr' \in Seq(AddressType) /\ n <= Len(addr') /\ Len(data') \in Nat /\ d <= Len(data')
        /\ \A i \in 1..n : addr'[i] = addr[i]
    BY <1>3, <1>4, <1>7, <1>8
  <2>2. QED
    BY <1>1, <1>4, <1>6, <1>8, <2>1 DEF Behind
<1>10. /\ Len(addr') = n /\ l = Len(linear) /\ curfunc' = c /\ pc' = at /\ ret' = "none"
       /\ addr' \in Seq(Entries)
  BY <1>3, <1>4, <1>7
<1>11. QED
  BY <1>7, <1>8, <1>9, <1>10, Answered

\* CallResolved, whatever is called.
LEMMA CallResolvedStep ==
    ASSUME IInv, CallResolved, main' = main
    PROVE  IInv'
<1>1. At("call", "none") /\ Top.i = Len(Top.items)
  BY DEF CallResolved
<1>2. PICK f, m : f = Top.f /\ m = Len(Top.items) - 1
  OBVIOUS
<1>3. CASE CallFails /\ UNCHANGED <<curfunc, pc, addr, linear>>
  BY <1>1, <1>3, CallFailsStep
<1>4. CASE /\ f \in Function /\ Fits(f, m)
           /\ EnterFunction(Func(f), pc + 1, m) /\ data' = Wrangled(f, m, data)
           /\ go' = Below /\ ret' = ret
  BY <1>1, <1>2, <1>4, EnterFunctionStep
<1>5. CASE f \in Builtin /\ EnterBuiltin(f, m, Below, Top.base, 0)
  BY <1>1, <1>2, <1>5, CallBuiltin
<1>6. CASE f \notin Function /\ m = 0 /\ data' = Append(data, Value) /\ pc' = pc + 1 /\ go' = Below
           /\ UNCHANGED <<curfunc, addr, linear, ret>>
  BY <1>1, <1>2, <1>6, CallValue
<1>7. CASE f \in Function /\ Fits(f, m) /\ f \in Varargs /\ ~Solid(m)
  <2>1. PICK K, F : K = Len(go) /\ F = go[K]
    OBVIOUS
  <2>2. Resolved(K, F, m)
    BY <1>1, <1>2, <2>1, ResolvedThere
  <2>3. m \in Nat /\ F.base \in Nat /\ Len(data) = F.base + m /\ \A i \in DOMAIN data : data[i] # Hole
    BY <2>2 DEF Resolved
  <2>4. \A i \in (Len(data) - m + 1)..Len(data) : i \in DOMAIN data
    BY <2>3, Types, SMTT(30)
  <2>5. Solid(m)
    BY <2>3, <2>4 DEF Solid
  <2>6. QED
    BY <1>7, <2>5
<1>8. QED
  <2>1. CASE f \in Function
    <3>1. CASE ~Fits(f, m)
      BY <1>2, <1>3, <2>1, <3>1, NamesAssumption DEF CallResolved
    <3>2. CASE Fits(f, m) /\ f \in Varargs /\ ~Solid(m)
      BY <1>7, <2>1, <3>2
    <3>3. CASE Fits(f, m) /\ ~(f \in Varargs /\ ~Solid(m))
      BY <1>2, <1>4, <2>1, <3>3, NamesAssumption DEF CallResolved
    <3>4. QED
      BY <3>1, <3>2, <3>3
  <2>2. CASE f \in Builtin
    BY <1>2, <1>5, <2>2, NamesAssumption DEF CallResolved
  <2>3. CASE f \notin Function \cup Builtin
    BY <1>2, <1>3, <1>6, <2>3 DEF CallResolved
  <2>4. QED
    BY <2>1, <2>2, <2>3
-----------------------------------------------------------------------------
(* Callbacks of Go functions *)

\* The Go function calls back: S captures the control state and the code n is
\* run by R, with p operands of its own.
Called(K, S, R, n, p) ==
    /\ K = Len(go) /\ S \in Acts /\ R \in Acts /\ go' = go \o <<S, R>>
    /\ S.kind \in {"apply", "eval", "source"} /\ S.curfunc = curfunc /\ S.pc = pc
    /\ S.addr = Len(addr) /\ S.linear = Len(linear) /\ S.data = Len(data)
    /\ S.kind = "apply" => S.f \in Function
    /\ S.kind = "eval" => S.base = S.data /\ Code[S.f] # <<>>
    /\ S.kind = "source" => Top.i = 0
    /\ S.kind # "apply" => pc = -1
    /\ R.kind = "run" /\ R.curfunc = Entered(S)
    /\ R.addr = Len(addr') /\ R.linear = Len(linear) /\ R.data = Len(data')
    /\ curfunc' = Entered(S) /\ Entered(S) \in Fn /\ pc' = 0 /\ ret' = "none"
    /\ main' = main /\ linear' = linear
    /\ addr' = (IF S.kind = "source" THEN addr ELSE Append(addr, EntryOf(S)))
    /\ Owns(Entered(S)) <=> S.kind # "source"
    /\ EntryOf(S) \in Entries
    /\ data' \in Seq(Slot) /\ Grown(data, Len(data), data', p)
    /\ p \in Nat /\ p = (IF S.kind = "apply" THEN Params(S.f) ELSE 0)
    /\ n \in Proper /\ Entry(n).ops = Values(p) /\ <<n, 0>> \in Loaded(Entered(S))'
    /\ S.kind # "eval" => Result(Entered(S)[2]) = <<Value>>

\* What a Go function runs begins above all there is, and the Go function waits
\* for it.
LEMMA CalledRuns ==
    ASSUME IInv, At("user", "none") \/ At("user", "ok"),
           NEW K, NEW S, NEW R, NEW n, NEW p, Called(K, S, R, n, p)
    PROVE  IInv'
<1>1. PICK F, c, A, L, D : F = go[K] /\ c = Entered(S) /\ A = Len(addr) /\ L = Len(linear) /\ D = Len(data)
  OBVIOUS
<1>2. /\ Steady /\ K \in Nat /\ K > 1 /\ K \in DOMAIN go /\ F.kind = "user" /\ Top = F
      /\ F.data \in Nat /\ F.i \in 0..1 /\ F.addr \in Nat /\ F.linear = L
      /\ A = F.addr + 1 /\ addr[F.addr + 1].fn = F.curfunc /\ addr[F.addr + 1].pc = F.pc + 1
      /\ D = F.data + F.i /\ (\A i \in 1..F.i : data[F.data + i] = Value)
      /\ curfunc = Go(F.f) /\ (pc = -1 \/ pc = 0)
      /\ (\A k \in 2..K : Recorded(k)) /\ \A i \in DOMAIN data : data[i] # Hole
  <2>1. K = Len(go)
    BY DEF Called
  <2>2. UserRuns(K, F)
    BY <1>1, <2>1, UserThere
  <2>3. QED
    BY <1>1, <2>2 DEF UserRuns
<1>3. /\ addr \in Seq(AddressType) /\ addr \in Seq(Entries) /\ data \in Seq(Slot)
      /\ linear \in Seq(Scopings) /\ A \in Nat /\ L \in Nat /\ L > 0 /\ D \in Nat /\ linear[1] = "global"
      /\ go \in Seq(Acts) /\ go \in Seq(FrameType) /\ main \in Seq(Instruction)
  BY <1>1, Types, TypesIn
<1>4. /\ go' \in Seq(Acts) /\ Len(go') = K + 2 /\ go'[K + 1] = S /\ go'[K + 2] = R
      /\ \A j \in 1..K : go'[j] = go[j]
  <2>1. PICK B : B = Acts
    OBVIOUS
  <2>2. K = Len(go) /\ S \in B /\ R \in B /\ go' = go \o <<S, R>> /\ go \in Seq(B)
    BY <1>3, <2>1 DEF Called
  <2>3. <<S, R>> \in Seq(B) /\ Len(<<S, R>>) = 2 /\ <<S, R>>[1] = S /\ <<S, R>>[2] = R
    BY <2>2
  <2>4. go' \in Seq(B) /\ Len(go') = K + 2
    BY <1>2, <2>2, <2>3
  <2>5. go'[K + 1] = S
    BY <1>2, <2>2, <2>3
  <2>6. go'[K + 2] = R
    BY <1>2, <2>2, <2>3
  <2>7. \A j \in 1..K : go'[j] = go[j]
    BY <1>2, <2>2, <2>3
  <2>8. QED
    BY <2>1, <2>4, <2>5, <2>6, <2>7
<1>5. go' \in Seq(FrameType) /\ K \in 1..Len(go) /\ K \in 1..K
  BY <1>2, <1>3, <1>4, SMTT(30) DEF Acts
<1>6. /\ addr' \in Seq(Entries) /\ addr' \in Seq(AddressType) /\ A <= Len(addr')
      /\ (\A i \in 1..A : addr'[i] = addr[i])
      /\ (S.kind # "source" => Len(addr') = A + 1 /\ addr'[A + 1] = EntryOf(S))
      /\ (S.kind = "source" => Len(addr') = A)
  <2>1. CASE S.kind = "source"
    <3>1. addr' = addr
      BY <2>1 DEF Called
    <3>2. QED
      BY <1>1, <1>3, <2>1, <3>1
  <2>2. CASE S.kind # "source"
    <3>1. addr' = Append(addr, EntryOf(S)) /\ EntryOf(S) \in Entries
      BY <2>2 DEF Called
    <3>2. addr' \in Seq(Entries) /\ Len(addr') = A + 1 /\ addr'[A + 1] = EntryOf(S)
          /\ \A i \in 1..A : addr'[i] = addr[i]
      BY <1>1, <1>3, <3>1
    <3>3. addr' \in Seq(AddressType)
      BY <3>2 DEF Entries
    <3>4. A <= Len(addr') /\ A + 1 = Len(addr')
      BY <1>3, <3>2
    <3>5. QED
      BY <2>2, <3>2, <3>3, <3>4
  <2>3. QED
    BY <2>1, <2>2
<1>7. /\ data' \in Seq(Slot) /\ Len(data') = D + p /\ p \in Nat /\ D <= Len(data')
      /\ (\A i \in 1..D : data'[i] = data[i]) /\ \A i \in D + 1..Len(data') : data'[i] = Value
  <2>1. /\ data' \in Seq(Slot) /\ Len(data') = D + p /\ p \in Nat
        /\ (\A i \in 1..D : data'[i] = data[i]) /\ \A i \in D + 1..Len(data') : data'[i] = Value
    BY <1>1 DEF Called, Grown
  <2>2. QED
    BY <1>3, <2>1
<1>8. /\ S.kind \in {"apply", "eval", "source"} /\ S.curfunc = curfunc /\ S.pc = pc
      /\ S.addr = A /\ S.linear = L /\ S.data = D
      /\ R.kind = "run" /\ R.curfunc = c /\ R.addr = Len(addr') /\ R.linear = L /\ R.data = Len(data')
      /\ curfunc' = c /\ c \in Fn /\ pc' = 0 /\ ret' = "none" /\ main' = main /\ linear' = linear
  BY <1>1 DEF Called
<1>9. Typed'
  <2>1. Within(c, 0)
    <3>1. Len(Body(c)) \in Nat
      BY <1>3, <1>8, BodyIsSeq
    <3>2. QED
      BY <3>1 DEF Within
  <2>2. linear' \in Seq(Scopings) /\ Len(linear') > 0 /\ linear'[1] = "global"
    BY <1>1, <1>3, <1>8
  <2>3. QED
    BY <1>4, <1>6, <1>7, <1>8, <2>1, <2>2, TypedNow
<1>10. \A k \in 2..K : Recorded(k)'
  <2>1. Depth(K) = F.data /\ F.data <= D
    BY <1>1, <1>2, <1>3, SMTT(30) DEF Depth
  <2>2. /\ go[K].addr <= A /\ go[K].linear <= L /\ Depth(K) <= D /\ go[K].kind = "user"
    BY <1>1, <1>2, <1>3, <2>1
  <2>3. (\A j \in 1..K - 1 : go'[j] = go[j]) /\ SameFrame(go[K], go'[K])
    BY <1>2, <1>4, <1>5 DEF SameFrame
  <2>4. /\ L <= Len(linear') /\ Len(linear') \in Nat /\ Len(data') \in Nat
        /\ \A i \in 1..L : linear'[i] = linear[i]
    BY <1>1, <1>3, <1>7, <1>8
  <2>5. (go[K].kind # "run" => go[K].addr <= A /\ go[K].linear <= L)
        /\ (go[K].kind = "run" /\ K > 1 => go[K - 1].addr <= A /\ go[K - 1].linear <= L)
    BY <2>2
  <2>6. QED
    BY <1>2, <1>3, <1>6, <1>7, <1>8, <2>2, <2>3, <2>4, <2>5, LowerKept, ZenonT(30)
<1>11. Nested /\ Shape(K)
  BY <1>2, <1>5, TopFacts DEF Steady
<1>12. /\ (K + 1) - 1 = K /\ (K + 2) - 1 = K + 1 /\ Upon(K + 1)' = F /\ Upon(K + 2)' = S
  <2>1. (K + 1) - 1 = K /\ (K + 2) - 1 = K + 1
    BY <1>2
  <2>2. QED
    BY <1>1, <1>4, <1>5, <2>1 DEF Upon
<1>13. /\ Shape(K + 1)' /\ go'[K + 1].linear > 0 /\ Depth(K + 1)' = D
       /\ \A j \in 1..K : /\ go'[j].addr <= S.addr /\ go'[j].linear <= S.linear
                          /\ go'[j].kind # "run" => go'[j].data <= D
  <2>1. Shape(K + 1)'
    <3>1. S.kind = "apply" => S.f \in Function
      BY DEF Called
    <3>2. S.kind = "eval" => S.base = S.data /\ Code[S.f] # <<>>
      BY DEF Called
    <3>3. S.kind = "source" => F.i = 0
      BY <1>2 DEF Called
    <3>4. K + 1 > 1
      BY <1>2
    <3>5. QED
      BY <1>2, <1>4, <1>8, <1>12, <3>1, <3>2, <3>3, <3>4 DEF Shape
  <2>2. Depth(K + 1)' = D
    BY <1>4, <1>8 DEF Depth
  <2>3. ASSUME NEW j \in 1..K
        PROVE  /\ go'[j].addr <= S.addr /\ go'[j].linear <= S.linear
               /\ go'[j].kind # "run" => go'[j].data <= D
    <3>1. j \in DOMAIN go /\ go'[j] = go[j]
      <4>1. go'[j] = go[j]
        BY <1>4
      <4>2. DOMAIN go = 1..Len(go) /\ Len(go) \in Nat
        BY <1>3
      <4>3. QED
        BY <1>2, <1>5, <4>1, <4>2
    <3>2. /\ go[j].addr <= go[K].addr /\ go[j].linear <= go[K].linear
      BY <1>2, <3>1, Beneath
    <3>3. go[j].addr \in Nat /\ go[j].linear \in Nat /\ go[j].data \in Nat
      BY <1>3, <3>1, FrameFields
    <3>4. go[j].addr <= A /\ go[j].linear <= L
      <4>1. F.addr \in Nat /\ A = F.addr + 1 /\ F.linear = L /\ F = go[K]
        BY <1>1, <1>2
      <4>2. go[j].addr <= F.addr /\ go[j].linear <= L
        BY <3>2, <4>1
      <4>3. QED
        BY <3>3, <4>1, <4>2
    <3>5. go[j].kind # "run" => go[j].data <= D
      <4>1. ASSUME go[j].kind # "run" PROVE go[j].data <= D
        <5>1. Intact
          BY <1>2, SteadyIntact
        <5>2. QED
          BY <1>1, <3>1, <4>1, <5>1 DEF Intact
      <4>2. QED
        BY <4>1
    <3>6. QED
      BY <1>8, <3>1, <3>4, <3>5
  <2>4. QED
    BY <1>3, <1>4, <1>8, <2>1, <2>2, <2>3
<1>14. /\ Shape(K + 2)' /\ go'[K + 2].linear > 0
       /\ \A j \in 1..K + 1 :
            /\ go'[j].addr <= go'[K + 2].addr /\ go'[j].linear <= go'[K + 2].linear
            /\ go'[j].kind # "run" => go'[j].data <= Depth(K + 2)'
  <2>1. PICK m : m = K + 1
    OBVIOUS
  <2>2. /\ m \in Nat /\ m > 0 /\ Len(go') = m + 1 /\ R = go'[m + 1] /\ S = go'[m]
        /\ m + 1 = K + 2 /\ m - 1 = K /\ (m + 1) - 1 = m
    BY <1>2, <1>4, <2>1
  <2>3. /\ S.kind \in {"call", "apply", "eval", "source"} /\ R.kind = "run"
        /\ S.addr <= R.addr /\ S.linear = R.linear /\ S.linear > 0 /\ S.data <= R.data
    BY <1>3, <1>6, <1>7, <1>8
  <2>4. \A j \in 1..m - 1 : /\ go'[j].addr <= S.addr /\ go'[j].linear <= S.linear
                            /\ go'[j].kind # "run" => go'[j].data <= S.data
    BY <1>8, <1>13, <2>2
  <2>5. /\ Shape(m + 1)' /\ go'[m + 1].linear > 0
        /\ \A j \in 1..(m + 1) - 1 :
             /\ go'[j].addr <= go'[m + 1].addr /\ go'[j].linear <= go'[m + 1].linear
             /\ go'[j].kind # "run" => go'[j].data <= Depth(m + 1)'
    BY <1>5, <2>2, <2>3, <2>4, RunUpon, ZenonT(30)
  <2>6. QED
    BY <2>1, <2>2, <2>5
<1>15. /\ go' # <<>> /\ Lowest' /\ Nested' /\ \A k \in DOMAIN go' : Shape(k)'
  <2>1. ASSUME NEW k \in K + 1..Len(go')
        PROVE  /\ Shape(k)' /\ go'[k].linear > 0
               /\ \A j \in 1..k - 1 :
                   /\ go'[j].addr <= go'[k].addr /\ go'[j].linear <= go'[k].linear
                   /\ go'[j].kind # "run" => go'[j].data <= Depth(k)'
    <3>1. k = K + 1 \/ k = K + 2
      BY <1>2, <1>4
    <3>2. CASE k = K + 1
      <4>1. k - 1 = K
        BY <1>2, <3>2
      <4>2. QED
        BY <1>4, <1>13, <3>2, <4>1
    <3>3. CASE k = K + 2
      <4>1. k - 1 = K + 1
        BY <1>2, <3>3
      <4>2. QED
        BY <1>14, <3>3, <4>1
    <3>4. QED
      BY <3>1, <3>2, <3>3
  <2>2. K <= Len(go')
    BY <1>2, <1>4
  <2>3. QED
    BY <1>4, <1>5, <2>1, <2>2, Frames
<1>16. Recorded(K + 1)'
  <2>1. UserEntry(K, A, L)'
    <3>1. go'[K] = F
      BY <1>1, <1>4, <1>5
    <3>2. A \in 1..A /\ A <= Len(addr') /\ L <= Len(linear')
      BY <1>1, <1>2, <1>3, <1>6, <1>8, SMTT(30)
    <3>3. addr'[A].fn = F.curfunc /\ addr'[A].pc = F.pc + 1
      BY <1>2, <1>6, <3>2
    <3>4. \A i \in 1..F.i : data'[F.data + i] = Value
      <4>1. SUFFICES ASSUME NEW i \in 1..F.i PROVE data'[F.data + i] = Value
        OBVIOUS
      <4>2. F.data + i \in 1..D
        BY <1>2
      <4>3. QED
        BY <1>2, <1>7, <4>2
    <3>5. F.data + F.i <= Len(data')
      BY <1>2, <1>7
    <3>6. QED
      BY <1>2, <3>1, <3>2, <3>3, <3>4, <3>5 DEF UserEntry
  <2>2. S.pc = -1 \/ (S.pc = 0 /\ S.kind = "apply")
    <3>1. S.kind # "apply" => pc = -1
      BY DEF Called
    <3>2. QED
      BY <1>2, <1>8, <3>1
  <2>3. CallbackOn(K + 1)'
    BY <1>2, <1>4, <1>8, <1>12, <2>1, <2>2 DEF CallbackOn
  <2>4. go'[K + 1].kind \in {"apply", "eval", "source"}
    BY <1>4, <1>8
  <2>5. QED
    BY <2>3, <2>4 DEF Recorded
<1>17. Recorded(K + 2)'
  <2>1. S.kind # "eval" => Result(c[2]) = <<Value>>
    BY <1>1 DEF Called
  <2>2. p = (IF S.kind = "apply" THEN Params(S.f) ELSE 0)
    BY DEF Called
  <2>3. R.data = S.data + (IF S.kind = "apply" THEN Params(S.f) ELSE 0)
    BY <1>7, <1>8, <2>2
  <2>4. IF S.kind = "source" THEN R.addr = S.addr ELSE R.addr = S.addr + 1
    BY <1>6, <1>8
  <2>5. RunOn(K + 2)'
    BY <1>1, <1>4, <1>8, <1>12, <2>1, <2>3, <2>4 DEF RunOn
  <2>6. go'[K + 2].kind = "run"
    BY <1>4, <1>8
  <2>7. QED
    BY <2>5, <2>6 DEF Recorded
<1>18. Runs(K + 2)'
  <2>1. PICK m : m = K + 1
    OBVIOUS
  <2>2. /\ m \in Nat /\ Len(go') = m + 1 /\ R = go'[m + 1] /\ S = go'[m] /\ m + 1 = K + 2
    BY <1>2, <1>4, <2>1
  <2>3. IF Owns(c) THEN addr' # <<>> /\ addr'[Len(addr')] = EntryOf(S) ELSE S.data = R.data
    <3>1. Owns(c) <=> S.kind # "source"
      BY <1>1 DEF Called
    <3>2. CASE S.kind = "source"
      <4>1. p = 0
        BY <3>2 DEF Called
      <4>2. QED
        BY <1>3, <1>7, <1>8, <3>1, <3>2, <4>1
    <3>3. CASE S.kind # "source"
      BY <1>3, <1>6, <3>1, <3>3
    <3>4. QED
      BY <3>2, <3>3
  <2>4. n \in Proper /\ Entry(n).ops = Values(p) /\ <<n, 0>> \in Loaded(c)'
    BY <1>1 DEF Called
  <2>5. /\ linear' \in Seq(Scopings) /\ L = Len(linear')
    BY <1>1, <1>3, <1>8
  <2>6. Began(m, R, S, c, n, p)
    BY <1>3, <1>6, <1>7, <1>8, <2>2, <2>3, <2>4, <2>5 DEF Began
  <2>7. QED
    BY <2>2, <2>6, RunBegins
<1>19. \A k \in 2..K + 2 : Recorded(k)'
  <2>1. \A k \in 2..K + 2 : k \in 2..K \/ k = K + 1 \/ k = K + 2
    BY <1>2
  <2>2. QED
    BY <1>10, <1>16, <1>17, <2>1
<1>20. \A i \in DOMAIN data' : data'[i] # Hole
  <2>1. DOMAIN data' = 1..Len(data')
    BY <1>7
  <2>2. ASSUME NEW i \in 1..Len(data') PROVE data'[i] # Hole
    <3>1. i \in 1..D \/ i \in D + 1..Len(data')
      BY <1>3, <1>7
    <3>2. i \in 1..D => i \in DOMAIN data
      BY <1>1, <1>3
    <3>3. QED
      BY <1>2, <1>7, <3>1, <3>2 DEF Value, Hole
  <2>3. QED
    BY <2>1, <2>2
<1>21. ret' \in {"none", "ok"} /\ (ret' = "ok" => FALSE) /\ K + 2 = Len(go')
  BY <1>4, <1>8
<1>22. QED
  BY <1>9, <1>15, <1>18, <1>19, <1>20, <1>21, Assemble

\* The frames of a callback.
CallFrames(S, R, kind, f, base, c, A, D) ==
    /\ S \in Acts /\ S.kind = kind /\ S.f = f /\ S.base = base /\ S.curfunc = curfunc
    /\ S.pc = pc /\ S.addr = Len(addr) /\ S.linear = Len(linear) /\ S.data = Len(data)
    /\ R \in Acts /\ R.kind = "run" /\ R.curfunc = c /\ R.addr = A
    /\ R.linear = Len(linear) /\ R.data = D

\* The two frames that Apply, EvalFunction and SourceExpressions put on the Go
\* stack.
LEMMA Calls ==
    ASSUME IInv, NEW kind \in {"apply", "eval", "source"}, NEW f \in Name, NEW base \in Int,
           NEW S, S = Frame(kind, f, <<>>, base), NEW c, c \in Fn,
           NEW A \in Nat, NEW D \in Nat,
           NEW R, R = [kind |-> "run", f |-> f, items |-> <<>>, i |-> 0, base |-> -1,
                       curfunc |-> c, pc |-> 0, addr |-> A, linear |-> Len(linear), data |-> D]
    PROVE  CallFrames(S, R, kind, f, base, c, A, D)
<1>1. PICK a, l, d, p, q : a = Len(addr) /\ l = Len(linear) /\ d = Len(data) /\ p = curfunc /\ q = pc
  OBVIOUS
<1>2. a \in Nat /\ l \in Nat /\ d \in Nat /\ p \in Fn /\ q \in Int /\ Within(p, q)
  BY <1>1, Types, TypesIn
<1>3. S = [kind |-> kind, f |-> f, items |-> <<>>, i |-> 0, base |-> base,
           curfunc |-> p, pc |-> q, addr |-> a, linear |-> l, data |-> d]
  BY <1>1 DEF Frame
<1>4. S \in FrameType
  <2>1. /\ f \in Name \cup Builtin \cup {"main"} /\ <<>> \in Seq(Name) /\ 0 \in Nat
        /\ kind \in {"run", "call", "user", "apply", "eval", "source"} /\ base \in Int
    OBVIOUS
  <2>2. [kind |-> kind, f |-> f, items |-> <<>>, i |-> 0, base |-> base,
         curfunc |-> p, pc |-> q, addr |-> a, linear |-> l, data |-> d] \in FrameType
    BY <1>2, <2>1 DEF FrameType
  <2>3. QED
    BY <1>3, <2>2
<1>5. S \in Acts
  <2>1. S.curfunc = p /\ S.pc = q
    BY <1>3
  <2>2. QED
    BY <1>2, <1>4, <2>1 DEF Acts
<1>6. R \in Acts /\ R.kind = "run" /\ R.curfunc = c /\ R.addr = A /\ R.linear = l /\ R.data = D
  <2>1. R = [kind |-> "run", f |-> f, items |-> <<>>, i |-> 0, base |-> -1,
             curfunc |-> c, pc |-> 0, addr |-> A, linear |-> l, data |-> D]
    BY <1>1
  <2>2. R \in Acts
    BY <1>2, <2>1, MadeRun
  <2>3. QED
    BY <2>1, <2>2
<1>7. QED
  BY <1>1, <1>3, <1>5, <1>6 DEF CallFrames

\* The entry of the code that is called back.
LEMMA CallbackEntry ==
    ASSUME IInv, NEW S, S.curfunc = curfunc, S.linear = Len(linear), S.data = Len(data),
           ReturnsTo(S) \in {-1, 0}
    PROVE  EntryOf(S) \in Entries
<1>1. PICK l, d, p, q : l = Len(linear) /\ d = Len(data) /\ p = curfunc /\ q = ReturnsTo(S)
  OBVIOUS
<1>2. l \in Nat /\ d \in Nat /\ p \in Fn /\ q \in {-1, 0} /\ Len(Body(p)) \in Nat
  BY <1>1, Types, BodyIsSeq
<1>3. EntryOf(S) = [fn |-> p, pc |-> q, operands |-> d, scopes |-> l]
  BY <1>1 DEF EntryOf
<1>4. EntryOf(S) \in AddressType
  BY <1>2, <1>3 DEF AddressType
<1>5. Within(EntryOf(S).fn, EntryOf(S).pc)
  BY <1>2, <1>3 DEF Within
<1>6. QED
  BY <1>4, <1>5 DEF Entries

\* What Go functions call back is code, and leaves a value wherever one is
\* taken.
LEMMA MayCallBack ==
    ASSUME IInv, At("user", "none") \/ At("user", "ok"), NEW how, NEW c \in MayCall(how)
    PROVE  /\ c[1] = how
           /\ how = "apply" => c[2] \in Function \ Void /\ c[3] \in Nat
           /\ how = "eval" => Runnable(c[2])
           /\ how = "source" => /\ Runnable(c[2]) /\ c[3] \in 0..1
                                /\ c[2] \notin Fails => Result(c[2]) = <<Value>>
<1>1. PICK K, F : K = Len(go) /\ F = go[K]
  OBVIOUS
<1>2. UserRuns(K, F)
  BY <1>1, UserThere
<1>3. Top.f \in Builtin
  BY <1>2 DEF UserRuns
<1>4. c \in Callback[Top.f] /\ c[1] = how
  BY DEF MayCall
<1>5. Callbacks(Top.f)
  BY <1>3, NamesAssumption
<1>6. QED
  BY <1>4, <1>5 DEF Callbacks

\* A file is code of its own that starts with nothing.
LEMMA SourceLoads ==
    ASSUME NEW n \in Proper \ Function
    PROVE  /\ <<n, 0>> \in Loaded(Sourced(n))' /\ ~Owns(Sourced(n)) /\ Sourced(n) \in Fn /\ n \in Name
           /\ Entry(n).ops = Values(0) /\ Sourced(n)[2] = n
<1>1. n \in Name /\ Sourced(n) = <<"source", n>>
  BY DEF Proper, Sourced
<1>2. Sourced(n)[1] = "source" /\ Sourced(n)[2] = n /\ Sourced(n) # MainFunc
  BY <1>1 DEF MainFunc
<1>3. <<n, 0>> \in Loaded(Sourced(n))'
  BY <1>2 DEF Loaded
<1>4. Values(0) = <<>>
  BY DEF Values
<1>5. Entry(n).ops = Values(0)
  BY <1>4, EntryIs
<1>6. QED
  BY <1>1, <1>2, <1>3, <1>5 DEF Owns, Fn

\* SourceExpressions begins a file.
LEMMA SourceStep ==
    ASSUME IInv, Source, main' = main
    PROVE  IInv'
<1>1. At("user", "none")
  BY DEF Source
<1>2. PICK K, F : K = Len(go) /\ F = go[K]
  OBVIOUS
<1>3. UserRuns(K, F)
  BY <1>1, <1>2, UserThere
<1>4. Steady /\ Top = F /\ F.i \in 0..1 /\ (pc = -1 \/ (pc = 0 /\ ret = "ok"))
  BY <1>3 DEF UserRuns
<1>5. pc = -1
  BY <1>1, <1>4 DEF At
<1>6. PICK c \in MayCall("source") :
        /\ Top.i < c[3]
        /\ \/ c[2] \in Fails /\ Fault("err")
           \/ /\ c[2] \notin Fails
              /\ curfunc' = Sourced(c[2])
              /\ pc' = 0
              /\ go' = go \o <<Frame("source", c[2], <<>>, -1),
                              [Frame("run", c[2], <<>>, -1) EXCEPT
                                 !.curfunc = Sourced(c[2]), !.pc = 0]>>
              /\ UNCHANGED <<addr, linear, data, ret>>
  BY DEF Source
<1>7. PICK n : n = c[2]
  OBVIOUS
<1>8. Runnable(n) /\ c[3] \in 0..1 /\ (n \notin Fails => Result(n) = <<Value>>)
  BY <1>1, <1>7, MayCallBack
<1>9. Top.i = 0
  BY <1>4, <1>6, <1>8
<1>10. CASE n \in Fails /\ Fault("err")
  BY <1>4, <1>10, FaultStep
<1>11. CASE /\ n \notin Fails /\ curfunc' = Sourced(n) /\ pc' = 0
            /\ go' = go \o <<Frame("source", n, <<>>, -1),
                            [Frame("run", n, <<>>, -1) EXCEPT !.curfunc = Sourced(n), !.pc = 0]>>
            /\ UNCHANGED <<addr, linear, data, ret>>
  <2>1. n \in Proper \ Function
    BY <1>8, <1>11 DEF Runnable
  <2>2. PICK S, R, A, D, k : /\ S = Frame("source", n, <<>>, -1) /\ A = Len(addr) /\ D = Len(data)
                             /\ R = [Frame("run", n, <<>>, -1) EXCEPT !.curfunc = Sourced(n), !.pc = 0]
                             /\ k = Sourced(n)
    OBVIOUS
  <2>3. S.kind = "source" /\ S.f = n
    BY <2>2 DEF Frame
  <2>4. Entered(S) = k
    BY <2>2, <2>3 DEF Entered
  <2>5. /\ <<n, 0>> \in Loaded(k)' /\ ~Owns(k) /\ k \in Fn /\ n \in Name
        /\ Entry(n).ops = Values(0) /\ k[2] = n
    BY <2>1, <2>2, SourceLoads
  <2>6. R = [kind |-> "run", f |-> n, items |-> <<>>, i |-> 0, base |-> -1,
             curfunc |-> k, pc |-> 0, addr |-> A, linear |-> Len(linear), data |-> D]
    BY <2>2 DEF Frame
  <2>7. A \in Nat /\ D \in Nat /\ data \in Seq(Slot)
    BY <2>2, Types
  <2>8. /\ S \in Acts /\ S.kind = "source" /\ S.f = n /\ S.curfunc = curfunc
        /\ S.pc = pc /\ S.addr = Len(addr) /\ S.linear = Len(linear) /\ S.data = Len(data)
        /\ R \in Acts /\ R.kind = "run" /\ R.curfunc = k /\ R.addr = A
        /\ R.linear = Len(linear) /\ R.data = D
    <3>1. CallFrames(S, R, "source", n, -1, k, A, D)
      <4>1. "source" \in {"apply", "eval", "source"} /\ -1 \in Int
        OBVIOUS
      <4>2. QED
        BY <2>2, <2>5, <2>6, <2>7, <4>1, Calls
    <3>2. QED
      BY <3>1 DEF CallFrames
  <2>9. EntryOf(S) \in Entries
    <3>1. ReturnsTo(S) = -1
      BY <2>3 DEF ReturnsTo
    <3>2. QED
      BY <2>8, <3>1, CallbackEntry
  <2>10. Grown(data, Len(data), data', 0) /\ data' \in Seq(Slot) /\ Len(data') = D
    BY <1>11, <2>2, <2>7 DEF Grown
  <2>11. /\ go' = go \o <<S, R>> /\ curfunc' = k /\ pc' = 0 /\ ret' = "none" /\ linear' = linear
         /\ addr' = addr /\ Len(addr') = A
    BY <1>1, <1>11, <2>2 DEF At
  <2>12. Called(K, S, R, n, 0)
    BY <1>2, <1>5, <1>8, <1>9, <1>11, <2>1, <2>4, <2>5, <2>8, <2>9, <2>10, <2>11 DEF Called
  <2>13. QED
    BY <1>1, <2>12, CalledRuns
<1>12. QED
  BY <1>6, <1>7, <1>10, <1>11

\* A function has code: where it ended at once it would return nothing.
LEMMA Answering ==
    ASSUME NEW f \in Function \ Void
    PROVE  Result(f) = <<Value>>
<1>1. f \in Proper /\ f \in Name
  BY NamesAssumption DEF Proper
<1>2. Entry(f) \in Reached[f] /\ Entry(f).at = 0
  BY <1>1, EntryIs
<1>3. Fine(f, Entry(f))
  BY <1>1, <1>2, CodeAssumption
<1>4. Code[f] # <<>>
  <2>1. SUFFICES ASSUME Code[f] = <<>> PROVE FALSE
    OBVIOUS
  <2>2. Len(Code[f]) = 0
    BY <2>1
  <2>3. QED
    BY <1>2, <1>3, <2>2 DEF Fine
<1>5. QED
  BY <1>4 DEF Result

\* Apply calls a compiled function from Go.
LEMMA ApplyStep ==
    ASSUME IInv, Apply, main' = main
    PROVE  IInv'
<1>1. At("user", "none") \/ At("user", "ok")
  BY DEF Apply
<1>2. PICK K, F : K = Len(go) /\ F = go[K]
  OBVIOUS
<1>3. UserRuns(K, F)
  BY <1>1, <1>2, UserThere
<1>4. PICK c \in MayCall("apply") :
         LET f == c[2]
             k == c[3]
             s == data \o [j \in 1..k |-> Value]
         IN  /\ Fits(f, k)
             /\ Len(addr) < MaxAddr
             /\ addr' = Append(addr, Address(curfunc, -1, 0))
             /\ curfunc' = Func(f)
             /\ pc' = 0
             /\ data' = Wrangled(f, k, s)
             /\ Entering(Frame("apply", f, <<>>, -1), Func(f), Len(Wrangled(f, k, s)) - Len(data))
             /\ ret' = "none"
             /\ UNCHANGED linear
  BY DEF Apply
<1>5. PICK f, m, s, D, A : /\ f = c[2] /\ m = c[3] /\ s = data \o [j \in 1..m |-> Value]
                           /\ D = Len(data) /\ A = Len(addr)
  OBVIOUS
<1>6. f \in Function /\ f \notin Void /\ m \in Nat
  BY <1>1, <1>5, MayCallBack
<1>7. /\ Fits(f, m) /\ addr' = Append(addr, Address(curfunc, -1, 0)) /\ curfunc' = Func(f)
      /\ pc' = 0 /\ data' = Wrangled(f, m, s) /\ ret' = "none" /\ linear' = linear
      /\ Entering(Frame("apply", f, <<>>, -1), Func(f), Len(data') - D)
  BY <1>4, <1>5
<1>8. D \in Nat /\ A \in Nat /\ data \in Seq(Slot) /\ addr \in Seq(AddressType) /\ Value \in Slot
  BY <1>5, Types, Slots
<1>9. /\ s \in Seq(Slot) /\ Len(s) = D + m
      /\ (\A i \in 1..D : s[i] = data[i]) /\ \A i \in D + 1..Len(s) : s[i] = Value
  <2>1. PICK v : v = [j \in 1..m |-> Value]
    OBVIOUS
  <2>2. v \in Seq(Slot) /\ Len(v) = m /\ \A i \in 1..m : v[i] = Value
    BY <1>6, <1>8, <2>1
  <2>3. s = data \o v
    BY <1>5, <2>1
  <2>4. /\ s \in Seq(Slot) /\ Len(s) = D + m
        /\ (\A i \in 1..D : s[i] = data[i]) /\ \A i \in D + 1..Len(s) : s[i] = v[i - D]
    <3>1. Len(data) = D
      BY <1>5
    <3>2. PICK e : e = data
      OBVIOUS
    <3>3. e \in Seq(Slot) /\ Len(e) = D /\ s = e \o v
      BY <1>8, <2>3, <3>1, <3>2
    <3>4. s \in Seq(Slot) /\ Len(s) = D + m
      <4>1. PICK B : B = Slot
        OBVIOUS
      <4>2. e \in Seq(B) /\ v \in Seq(B)
        BY <2>2, <3>3, <4>1
      <4>3. e \o v \in Seq(B)
        BY <4>2
      <4>4. Len(e \o v) = Len(e) + Len(v)
        BY <4>2
      <4>5. QED
        BY <2>2, <3>3, <4>1, <4>3, <4>4
    <3>5. \A i \in 1..D : s[i] = e[i]
      BY <2>2, <3>3
    <3>6. \A i \in D + 1..Len(s) : s[i] = v[i - D]
      BY <1>6, <1>8, <2>2, <3>3, <3>4
    <3>7. QED
      BY <3>2, <3>4, <3>5, <3>6
  <2>5. \A i \in D + 1..Len(s) : i - D \in 1..m
    BY <1>6, <1>8, <2>4
  <2>6. QED
    BY <2>2, <2>4, <2>5
<1>10. PICK z, p : z = data' /\ p = Params(f)
  OBVIOUS
<1>11. z \in Seq(Slot) /\ p \in Nat /\ Grown(s, D, z, p)
  BY <1>6, <1>7, <1>8, <1>9, <1>10, WrangledIs
<1>12. Grown(data, D, z, p) /\ Len(z) = D + p
  BY <1>9, <1>11 DEF Grown
<1>13. PICK S, R, k : /\ S = Frame("apply", f, <<>>, -1) /\ k = Func(f)
                      /\ R = [Frame("run", S.f, <<>>, -1) EXCEPT
                                !.curfunc = k, !.pc = 0, !.addr = A + 1, !.data = Len(data) + (Len(z) - D)]
  OBVIOUS
<1>14. S.kind = "apply" /\ S.f = f
  BY <1>13 DEF Frame
<1>15. Entered(S) = k
  BY <1>13, <1>14 DEF Entered
<1>16. go' = go \o <<S, R>>
  BY <1>5, <1>7, <1>10, <1>13 DEF Entering
<1>17. /\ <<f, 0>> \in Loaded(k)' /\ Owns(k) /\ k \in Fn /\ f \in Name
       /\ f \in Proper /\ Entry(f).ops = Values(p) /\ k[2] = f
  BY <1>6, <1>10, <1>13, FunctionLoads
<1>18. CallFrames(S, R, "apply", f, -1, k, A + 1, D + p)
  <2>1. PICK d : d = D + p
    OBVIOUS
  <2>2. Len(data) + (Len(z) - D) = d
    BY <1>5, <1>8, <1>11, <1>12, <2>1
  <2>3. R = [kind |-> "run", f |-> f, items |-> <<>>, i |-> 0, base |-> -1,
             curfunc |-> k, pc |-> 0, addr |-> A + 1, linear |-> Len(linear), data |-> d]
    BY <1>13, <1>14, <2>2 DEF Frame
  <2>4. "apply" \in {"apply", "eval", "source"} /\ -1 \in Int /\ A + 1 \in Nat /\ d \in Nat
    BY <1>8, <1>11, <2>1
  <2>5. CallFrames(S, R, "apply", f, -1, k, A + 1, d)
    BY <1>13, <1>17, <2>3, <2>4, Calls
  <2>6. QED
    BY <2>1, <2>5
<1>19. EntryOf(S) \in Entries
  <2>1. ReturnsTo(S) \in {-1, 0}
    BY <1>14 DEF ReturnsTo
  <2>2. QED
    BY <1>18, <2>1, CallbackEntry DEF CallFrames
<1>20. addr' = Append(addr, EntryOf(S)) /\ Len(addr') = A + 1
  <2>1. ReturnsTo(S) = -1
    BY <1>14 DEF ReturnsTo
  <2>2. D - 0 = D
    BY <1>8
  <2>3. EntryOf(S) = Address(curfunc, -1, 0)
    BY <1>5, <1>18, <2>1, <2>2 DEF CallFrames, EntryOf, Address
  <2>4. QED
    BY <1>5, <1>7, <1>8, <2>3
<1>21. Result(f) = <<Value>>
  BY <1>6, Answering
<1>22. Called(K, S, R, f, p)
  <2>1. /\ S \in Acts /\ R \in Acts /\ S.kind = "apply" /\ S.f = f /\ S.curfunc = curfunc /\ S.pc = pc
        /\ S.addr = Len(addr) /\ S.linear = Len(linear) /\ S.data = Len(data)
        /\ R.kind = "run" /\ R.curfunc = Entered(S) /\ R.addr = Len(addr') /\ R.linear = Len(linear)
    BY <1>15, <1>18, <1>20 DEF CallFrames
  <2>2. R.data = Len(data')
    BY <1>10, <1>12, <1>18 DEF CallFrames
  <2>3. data' \in Seq(Slot) /\ Grown(data, Len(data), data', p) /\ p \in Nat /\ p = Params(S.f)
    BY <1>5, <1>10, <1>11, <1>12, <1>14
  <2>4. /\ curfunc' = Entered(S) /\ Entered(S) \in Fn /\ pc' = 0 /\ ret' = "none" /\ linear' = linear
        /\ f \in Proper /\ Entry(f).ops = Values(p) /\ <<f, 0>> \in Loaded(Entered(S))'
        /\ Owns(Entered(S)) /\ Result(Entered(S)[2]) = <<Value>>
    BY <1>7, <1>13, <1>15, <1>17, <1>21
  <2>5. K = Len(go) /\ go' = go \o <<S, R>> /\ addr' = Append(addr, EntryOf(S)) /\ EntryOf(S) \in Entries
    BY <1>2, <1>16, <1>19, <1>20
  <2>6. QED
    BY <1>6, <2>1, <2>2, <2>3, <2>4, <2>5 DEF Called
<1>23. QED
  BY <1>1, <1>22, CalledRuns

\* EvalFunction runs code from Go.
LEMMA EvalStep ==
    ASSUME IInv, Eval, main' = main
    PROVE  IInv'
<1>1. At("user", "none")
  BY DEF Eval
<1>2. PICK K, F : K = Len(go) /\ F = go[K]
  OBVIOUS
<1>3. UserRuns(K, F)
  BY <1>1, <1>2, UserThere
<1>4. Steady /\ pc = -1
  BY <1>1, <1>3 DEF UserRuns, At
<1>5. PICK c \in MayCall("eval") :
         \/ c[2] \in Fails /\ Fault("err")
         \/ /\ c[2] \notin Fails /\ Code[c[2]] # <<>>
            /\ EnterFunction(Thunk(c[2]), pc + 1, 0)
            /\ Entering(Frame("eval", c[2], <<>>, Len(data)), Thunk(c[2]), 0)
            /\ UNCHANGED <<data, ret>>
  BY DEF Eval
<1>6. PICK n : n = c[2]
  OBVIOUS
<1>7. Runnable(n)
  BY <1>1, <1>6, MayCallBack
<1>8. CASE n \in Fails /\ Fault("err")
  BY <1>4, <1>8, FaultStep
<1>9. CASE /\ n \notin Fails /\ Code[n] # <<>>
           /\ EnterFunction(Thunk(n), pc + 1, 0)
           /\ Entering(Frame("eval", n, <<>>, Len(data)), Thunk(n), 0)
           /\ UNCHANGED <<data, ret>>
  <2>1. n \in Proper \ Function /\ Code[n] # <<>>
    BY <1>7, <1>9 DEF Runnable
  <2>2. PICK D, A, k : D = Len(data) /\ A = Len(addr) /\ k = Thunk(n)
    OBVIOUS
  <2>3. D \in Nat /\ A \in Nat /\ data \in Seq(Slot) /\ addr \in Seq(AddressType)
    BY <2>2, Types
  <2>4. /\ addr' = Append(addr, Address(curfunc, 0, 0)) /\ curfunc' = k /\ pc' = 0
        /\ linear' = linear /\ data' = data /\ ret' = "none"
    BY <1>1, <1>4, <1>9, <2>2 DEF EnterFunction, At
  <2>5. PICK S, R : /\ S = Frame("eval", n, <<>>, D)
                    /\ R = [Frame("run", S.f, <<>>, -1) EXCEPT
                              !.curfunc = k, !.pc = 0, !.addr = A + 1, !.data = Len(data) + 0]
    OBVIOUS
  <2>6. S.kind = "eval" /\ S.f = n
    BY <2>5 DEF Frame
  <2>7. Entered(S) = k
    BY <2>2, <2>6 DEF Entered
  <2>8. go' = go \o <<S, R>>
    BY <1>9, <2>2, <2>5 DEF Entering
  <2>9. /\ <<n, 0>> \in Loaded(k)' /\ Owns(k) /\ k \in Fn /\ n \in Name
        /\ Entry(n).ops = Values(0) /\ k[2] = n
    BY <2>1, <2>2, ThunkLoads
  <2>10. CallFrames(S, R, "eval", n, D, k, A + 1, D)
    <3>1. Len(data) + 0 = D
      BY <2>2, <2>3
    <3>2. R = [kind |-> "run", f |-> n, items |-> <<>>, i |-> 0, base |-> -1,
               curfunc |-> k, pc |-> 0, addr |-> A + 1, linear |-> Len(linear), data |-> D]
      BY <2>5, <2>6, <3>1 DEF Frame
    <3>3. "eval" \in {"apply", "eval", "source"} /\ D \in Int /\ A + 1 \in Nat
      BY <2>3
    <3>4. QED
      BY <2>3, <2>5, <2>7, <2>9, <3>2, <3>3, Calls
  <2>11. ReturnsTo(S) = 0
    <3>1. S.pc = -1
      BY <1>4, <2>10 DEF CallFrames
    <3>2. QED
      BY <2>6, <3>1 DEF ReturnsTo
  <2>12. EntryOf(S) \in Entries
    BY <2>10, <2>11, CallbackEntry DEF CallFrames
  <2>13. addr' = Append(addr, EntryOf(S)) /\ Len(addr') = A + 1
    <3>1. D - 0 = D
      BY <2>3
    <3>2. EntryOf(S) = Address(curfunc, 0, 0)
      BY <2>2, <2>10, <2>11, <3>1 DEF CallFrames, EntryOf, Address
    <3>3. QED
      BY <2>2, <2>3, <2>4, <3>2
  <2>14. Grown(data, Len(data), data', 0) /\ data' \in Seq(Slot) /\ Len(data') = D
    BY <2>2, <2>3, <2>4 DEF Grown
  <2>15. Called(K, S, R, n, 0)
    BY <1>2, <1>4, <2>1, <2>2, <2>4, <2>6, <2>7, <2>8, <2>9, <2>10, <2>12, <2>13, <2>14
       DEF Called, CallFrames
  <2>16. QED
    BY <1>1, <2>15, CalledRuns
<1>10. QED
  BY <1>5, <1>6, <1>8, <1>9

-----------------------------------------------------------------------------
(* Back in the Go function that called back *)

\* What is known when the code has ended: a is the callback, s the Go function.
Back(m, a, s) ==
    /\ m \in Nat /\ m > 1 /\ m \in DOMAIN go /\ Len(go) = m + 1 /\ a = go[m + 1] /\ s = go[m]
    /\ a \in Acts /\ s \in Acts /\ s.kind = "user" /\ Top = a
    /\ s.data \in Nat /\ s.i \in 0..1 /\ s.addr \in Nat /\ s.linear = Len(linear) /\ Depth(m) = s.data
    /\ Len(addr) = s.addr + 1 /\ addr[s.addr + 1].fn = s.curfunc /\ addr[s.addr + 1].pc = s.pc + 1
    /\ Len(data) = s.data + s.i /\ \A i \in 1..s.i : data[s.data + i] = Value
    /\ a.curfunc = Go(s.f) /\ (a.pc = -1 \/ (a.pc = 0 /\ a.kind = "apply"))
    /\ a.kind # "source" => curfunc = a.curfunc /\ pc = ReturnsTo(a)
    /\ a.kind = "source" => s.i = 0
    /\ a.kind = "eval" => a.base = Len(data)
    /\ \A k \in 2..m : Recorded(k)
    /\ \A i \in DOMAIN data : data[i] # Hole

\* A Run that Go code called has ended: what its caller captured is there
\* again.
LEMMA BackThere ==
    ASSUME IInv, Steady, ret = "ok", NEW K, K = Len(go),
           go[K].kind \in {"apply", "eval", "source"},
           NEW m, m = K - 1, NEW a, a = go[K], NEW s, s = go[m]
    PROVE  Back(m, a, s)
<1>1. /\ K \in Nat /\ K > 0 /\ K \in DOMAIN go /\ K \in 1..Len(go) /\ Top = a
      /\ \A k \in 1..Len(go) : Shape(k)
  BY TopFacts DEF Steady
<1>2. InOrder /\ \A k \in 2..K : Recorded(k)
  BY <1>1, InSteps
<1>3. Shape(K) /\ K > 1
  <2>1. Shape(K)
    BY <1>1
  <2>2. QED
    BY <1>1, <2>1 DEF Shape
<1>4. m \in Nat /\ m > 0 /\ m \in 1..Len(go) /\ m + 1 = K /\ Upon(K) = s
  BY <1>1, <1>3 DEF Upon
<1>5. s.kind = "user" /\ (a.kind = "eval" => a.base = a.data) /\ (a.kind = "source" => s.i = 0)
  BY <1>3, <1>4 DEF Shape
<1>6. s.i \in 0..1 /\ m > 1
  <2>1. Shape(m)
    BY <1>1, <1>4
  <2>2. QED
    BY <1>4, <1>5, <2>1 DEF Shape
<1>7. TopCallback(K)
  BY <1>1, <1>2 DEF InOrder, Runs
<1>8. /\ Len(addr) = a.addr /\ Len(linear) = a.linear /\ Len(data) = a.data
      /\ a.kind # "source" => curfunc = a.curfunc /\ pc = ReturnsTo(a)
  BY <1>7 DEF TopCallback
<1>9. CallbackOn(K)
  <2>1. Recorded(K)
    BY <1>1, <1>2, <1>3
  <2>2. QED
    BY <2>1 DEF Recorded
<1>10. /\ UserEntry(m, a.addr, a.linear) /\ a.data = s.data + s.i /\ a.curfunc = Go(s.f)
       /\ a.pc = -1 \/ (a.pc = 0 /\ a.kind = "apply")
  BY <1>4, <1>9 DEF CallbackOn
<1>11. go \in Seq(Acts)
  BY TypesIn
<1>12. a \in Acts /\ s \in Acts /\ m \in DOMAIN go
  BY <1>1, <1>4, <1>11
<1>13. s.data \in Nat /\ s.addr \in Nat
  BY <1>12 DEF Acts, FrameType
<1>14. /\ Len(addr) = s.addr + 1 /\ s.linear = Len(linear) /\ addr[s.addr + 1].fn = s.curfunc
       /\ addr[s.addr + 1].pc = s.pc + 1 /\ \A i \in 1..s.i : data[s.data + i] = Value
  <2>1. PICK n, l : n = a.addr /\ l = a.linear
    OBVIOUS
  <2>2. UserEntry(m, n, l) /\ Len(addr) = n /\ Len(linear) = l
    BY <1>8, <1>10, <2>1
  <2>3. /\ n = s.addr + 1 /\ l = s.linear /\ addr[n].fn = s.curfunc /\ addr[n].pc = s.pc + 1
        /\ \A i \in 1..s.i : data[s.data + i] = Value
    BY <2>2 DEF UserEntry
  <2>4. QED
    BY <2>2, <2>3
<1>15. Depth(m) = s.data
  BY <1>5 DEF Depth
<1>16. \A k \in 2..m : Recorded(k)
  BY <1>2, <1>4
<1>17. \A i \in DOMAIN data : data[i] # Hole
  BY <1>2 DEF InOrder
<1>18. QED
  BY <1>1, <1>4, <1>5, <1>6, <1>8, <1>10, <1>12, <1>13, <1>14, <1>15, <1>16, <1>17 DEF Back

\* The Go function goes on, with one file more or the same.
Resumed(m, s, t) ==
    /\ t \in Acts /\ SameFrame(s, t) /\ t.i \in 0..1 /\ t.data = s.data
    /\ go' \in Seq(Acts) /\ Len(go') = m /\ go'[m] = t /\ \A j \in 1..m - 1 : go'[j] = go[j]
    /\ main' = main /\ addr' = addr /\ linear' = linear /\ data' \in Seq(Slot)
    /\ curfunc' = Go(s.f) /\ ret' \in {"none", "ok"} /\ (pc' = -1 \/ (pc' = 0 /\ ret' = "ok"))
    /\ Len(data') = s.data + t.i /\ (\A i \in 1..s.data : data'[i] = data[i])
    /\ \A i \in 1..t.i : data'[s.data + i] = Value

\* The Go function that has called back goes on.
LEMMA Resumes ==
    ASSUME IInv, NEW m, NEW a, NEW s, NEW t, Back(m, a, s), Resumed(m, s, t)
    PROVE  IInv'
<1>1. /\ m \in Nat /\ m > 1 /\ m \in DOMAIN go /\ Len(go) = m + 1 /\ s = go[m] /\ s \in Acts
      /\ s.kind = "user" /\ s.data \in Nat /\ s.i \in 0..1 /\ s.addr \in Nat
      /\ s.linear = Len(linear) /\ Depth(m) = s.data
      /\ Len(addr) = s.addr + 1 /\ addr[s.addr + 1].fn = s.curfunc /\ addr[s.addr + 1].pc = s.pc + 1
      /\ Len(data) = s.data + s.i /\ (\A k \in 2..m : Recorded(k)) /\ \A i \in DOMAIN data : data[i] # Hole
  BY DEF Back
<1>2. /\ t \in Acts /\ SameFrame(s, t) /\ t.i \in 0..1 /\ t.data = s.data
      /\ go' \in Seq(Acts) /\ Len(go') = m /\ go'[m] = t /\ \A j \in 1..m - 1 : go'[j] = go[j]
      /\ main' = main /\ addr' = addr /\ linear' = linear /\ data' \in Seq(Slot)
      /\ curfunc' = Go(s.f) /\ ret' \in {"none", "ok"} /\ (pc' = -1 \/ (pc' = 0 /\ ret' = "ok"))
      /\ Len(data') = s.data + t.i /\ (\A i \in 1..s.data : data'[i] = data[i])
      /\ \A i \in 1..t.i : data'[s.data + i] = Value
  BY DEF Resumed
<1>3. /\ t.kind = "user" /\ t.f = s.f /\ t.base = s.base /\ t.curfunc = s.curfunc /\ t.pc = s.pc
      /\ t.addr = s.addr /\ t.linear = s.linear
  BY <1>1, <1>2 DEF SameFrame
<1>4. go # <<>> /\ go \in Seq(FrameType) /\ Shape(m) /\ Nested
  BY <1>1, TopFacts, Types
<1>5. s.f \in Builtin /\ s.base \in {-1, s.data} /\ go[m - 1].kind = "run"
  BY <1>1, <1>4 DEF Shape, Upon
<1>6. go' \in Seq(FrameType)
  BY <1>2 DEF Acts
<1>7. \A k \in 2..m : Recorded(k)'
  <2>1. PICK d, n, l : d = s.data /\ n = s.addr + 1 /\ l = s.linear
    OBVIOUS
  <2>2. addr \in Seq(AddressType) /\ Len(addr) \in Nat /\ Len(linear) \in Nat /\ Len(data') \in Nat
    BY <1>2, Types
  <2>3. /\ d \in Nat /\ n \in Nat /\ l \in Nat /\ Depth(m) <= d /\ go[m].addr <= n /\ go[m].linear <= l
        /\ d <= Len(data') /\ (\A i \in 1..d : data'[i] = data[i])
        /\ n <= Len(addr') /\ (\A i \in 1..n : addr'[i] = addr[i])
        /\ l <= Len(linear') /\ (\A i \in 1..l : linear'[i] = linear[i])
    BY <1>1, <1>2, <2>1, <2>2
  <2>4. addr' \in Seq(AddressType) /\ Len(linear') \in Nat /\ SameFrame(go[m], go'[m])
    BY <1>1, <1>2, <2>2
  <2>5. go[m].kind # "run"
    BY <1>1
  <2>6. QED
    BY <1>1, <1>2, <2>2, <2>3, <2>4, <2>5, LowerKept, ZenonT(30)
<1>8. Shape(m)'
  <2>1. go'[m - 1] = go[m - 1]
    BY <1>1, <1>2
  <2>2. QED
    BY <1>1, <1>2, <1>3, <1>5, <2>1 DEF Shape, Upon
<1>9. /\ go'[m].linear > 0
      /\ \A j \in 1..m - 1 : /\ go'[j].addr <= go'[m].addr /\ go'[j].linear <= go'[m].linear
                             /\ go'[j].kind # "run" => go'[j].data <= Depth(m)'
  <2>1. Depth(m)' = Depth(m)
    BY <1>1, <1>2, <1>3 DEF Depth
  <2>2. \A j \in 1..m - 1 : j \in DOMAIN go /\ j < m
    BY <1>1, <1>4
  <2>3. /\ go[m].linear > 0
        /\ \A j \in 1..m - 1 : /\ go[j].addr <= go[m].addr /\ go[j].linear <= go[m].linear
                               /\ go[j].kind # "run" => go[j].data <= Depth(m)
    BY <1>1, <1>4, <2>2 DEF Nested
  <2>4. go'[m].addr = go[m].addr /\ go'[m].linear = go[m].linear
    BY <1>1, <1>2, <1>3
  <2>5. QED
    BY <1>2, <2>1, <2>3, <2>4
<1>10. /\ go' # <<>> /\ Lowest' /\ Nested' /\ \A k \in DOMAIN go' : Shape(k)'
  <2>1. PICK r : r = m - 1
    OBVIOUS
  <2>2. r \in 1..Len(go) /\ r <= Len(go') /\ r + 1 = m
    BY <1>1, <1>2, <2>1
  <2>3. \A k \in r + 1..Len(go') :
              /\ Shape(k)' /\ go'[k].linear > 0
              /\ \A j \in 1..k - 1 :
                   /\ go'[j].addr <= go'[k].addr /\ go'[j].linear <= go'[k].linear
                   /\ go'[j].kind # "run" => go'[j].data <= Depth(k)'
    <3>1. \A k \in r + 1..Len(go') : k = m
      BY <1>1, <1>2, <2>2
    <3>2. QED
      BY <1>8, <1>9, <3>1
  <2>4. \A j \in 1..r : go'[j] = go[j]
    BY <1>2, <2>1
  <2>5. QED
    BY <1>6, <2>2, <2>3, <2>4, Frames
<1>11. Typed'
  <2>1. /\ addr' \in Seq(Entries) /\ linear' \in Seq(Scopings) /\ Len(linear') > 0
        /\ linear'[1] = "global"
    BY <1>2, Types, TypesIn
  <2>2. curfunc' \in Fn
    BY <1>2, <1>5 DEF Fn, Go
  <2>3. pc' \in Int /\ Within(curfunc', pc')
    <3>1. Len(Body(curfunc')) \in Nat
      BY <2>2, Types, BodyIsSeq
    <3>2. pc' \in -1..Len(Body(curfunc'))
      BY <1>2, <3>1
    <3>3. QED
      BY <3>2 DEF Within
  <2>4. ret' \in {"none", "ok", "err", "panic"}
    BY <1>2
  <2>5. QED
    BY <1>2, <2>1, <2>2, <2>3, <2>4, TypedNow
<1>12. \A i \in DOMAIN data' : data'[i] # Hole
  <2>1. DOMAIN data' = 1..Len(data') /\ DOMAIN data = 1..Len(data)
    BY <1>2, Types
  <2>2. ASSUME NEW i \in 1..Len(data') PROVE data'[i] # Hole
    <3>1. CASE i <= s.data
      <4>1. i \in 1..s.data /\ i \in DOMAIN data
        BY <1>1, <2>1, <3>1
      <4>2. QED
        BY <1>1, <1>2, <4>1
    <3>2. CASE ~(i <= s.data)
      <4>1. PICK e : e = i - s.data
        OBVIOUS
      <4>2. e \in 1..t.i /\ s.data + e = i
        BY <1>1, <1>2, <3>2, <4>1, SMTT(30)
      <4>3. QED
        BY <1>2, <4>2 DEF Value, Hole
    <3>3. QED
      BY <3>1, <3>2
  <2>3. QED
    BY <2>1, <2>2
<1>13. Runs(m)'
  <2>1. UserEntry(m, Len(addr), Len(linear))'
    <3>1. Len(linear) \in Nat
      BY Types
    <3>2. QED
      BY <1>1, <1>2, <1>3, <3>1, SMTT(30) DEF UserEntry
  <2>2. TopUser(m)'
    BY <1>2, <1>3, <2>1 DEF TopUser
  <2>3. QED
    BY <1>2, <1>3, <2>2 DEF Runs
<1>14. m = Len(go') /\ (ret' = "ok" => go'[m].kind # "eval" \/ ~(Len(data') < go'[m].data))
  BY <1>2, <1>3
<1>15. QED
  BY <1>2, <1>7, <1>10, <1>11, <1>12, <1>13, <1>14, Assemble

\* The Go function when nothing but the activation above it goes.
LEMMA GoesOn ==
    ASSUME IInv, NEW m, NEW a, NEW s, Back(m, a, s), a.kind # "source", main' = main, go' = Below,
           addr' = addr, linear' = linear, data' = data, curfunc' = curfunc, pc' = pc, ret' = "ok"
    PROVE  IInv'
<1>1. /\ m \in Nat /\ m > 1 /\ Len(go) = m + 1 /\ s = go[m] /\ s \in Acts /\ s.kind = "user"
      /\ s.data \in Nat /\ s.i \in 0..1 /\ Len(data) = s.data + s.i
      /\ (\A i \in 1..s.i : data[s.data + i] = Value)
      /\ a.curfunc = Go(s.f) /\ (a.pc = -1 \/ (a.pc = 0 /\ a.kind = "apply"))
      /\ curfunc = a.curfunc /\ pc = ReturnsTo(a)
  BY DEF Back
<1>2. pc = -1 \/ pc = 0
  BY <1>1 DEF ReturnsTo
<1>3. go # <<>> /\ (m + 1) - 1 = m
  BY <1>1, Types
<1>4. /\ Below \in Seq(Acts) /\ Len(Below) = m /\ \A j \in 1..m : Below[j] = go[j]
  BY <1>1, <1>3, TopFacts, BelowTyped
<1>5. /\ go' \in Seq(Acts) /\ Len(go') = m /\ go'[m] = s /\ \A j \in 1..m - 1 : go'[j] = go[j]
  BY <1>1, <1>4
<1>6. SameFrame(s, s) /\ data \in Seq(Slot)
  BY Types DEF SameFrame
<1>7. Resumed(m, s, s)
  BY <1>1, <1>2, <1>5, <1>6 DEF Resumed
<1>8. QED
  BY <1>7, Resumes

\* Apply returns the result,
LEMMA ApplyDoneStep ==
    ASSUME IInv, ApplyDone, main' = main
    PROVE  IInv'
<1>1. At("apply", "ok") /\ "apply" # "run" /\ "apply" # "eval" /\ "ok" \in {"none", "ok"}
  BY DEF ApplyDone
<1>2. PICK K, m, a, s : K = Len(go) /\ m = K - 1 /\ a = go[K] /\ s = go[m]
  OBVIOUS
<1>3. Steady /\ a.kind = "apply" /\ ret = "ok"
  BY <1>1, <1>2, AtTop
<1>4. Back(m, a, s)
  BY <1>2, <1>3, BackThere
<1>5. /\ go' = Below /\ addr' = addr /\ linear' = linear /\ data' = data /\ curfunc' = curfunc
      /\ pc' = pc /\ ret' = "ok"
  BY <1>3 DEF ApplyDone, env
<1>6. QED
  BY <1>3, <1>4, <1>5, GoesOn

\* EvalFunction as well, unless the code left none: then it panics and the
\* builtin recovers,
LEMMA EvalDoneStep ==
    ASSUME IInv, EvalDone, main' = main
    PROVE  IInv'
<1>1. At("eval", "ok") /\ "eval" # "run"
  BY DEF EvalDone
<1>2. PICK K, m, a, s : K = Len(go) /\ m = K - 1 /\ a = go[K] /\ s = go[m]
  OBVIOUS
<1>3. /\ a.kind = "eval" /\ ret = "ok" /\ go # <<>> /\ Top = a /\ K > 1 /\ K \in Nat /\ Shape(K)
      /\ a \in FrameType
  BY <1>1, <1>2, AtTop
<1>4. a.base = a.data /\ a.data \in Nat
  BY <1>2, <1>3 DEF Shape, FrameType
<1>5. /\ go' = Below /\ addr' = addr /\ linear' = linear /\ curfunc' = curfunc /\ pc' = pc
  BY DEF EvalDone
<1>6. CASE Short
  <2>1. Len(data) < a.base
    BY <1>3, <1>4, <1>6 DEF Short
  <2>2. ret' = "panic" /\ data' = data
    BY <1>3, <2>1 DEF EvalDone
  <2>3. /\ go' # <<>> /\ Lowest' /\ Nested' /\ (\A k \in DOMAIN go' : Shape(k)')
        /\ Len(go') = K - 1 /\ go'[K - 1] = go[K - 1]
    <3>1. K - 1 \in 1..K - 1
      BY <1>3
    <3>2. QED
      BY <1>2, <1>3, <1>5, <3>1, Pops
  <2>4. Typed'
    <3>1. go' \in Seq(Acts)
      BY <1>3, <1>5, BelowTyped
    <3>2. /\ curfunc' \in Fn /\ pc' \in Int /\ Within(curfunc', pc') /\ addr' \in Seq(Entries)
          /\ linear' \in Seq(Scopings) /\ Len(linear') > 0 /\ linear'[1] = "global" /\ data' \in Seq(Slot)
      <4>1. Within(curfunc, pc)
        BY TypesIn
      <4>2. Within(curfunc', pc')
        BY <1>5, <4>1
      <4>3. QED
        BY <1>5, <2>2, <4>2, Types, TypesIn
    <3>3. QED
      BY <2>2, <3>1, <3>2, TypedNow
  <2>5. Top'.kind = "user"
    <3>1. go[K - 1].kind = "user"
      BY <1>2, <1>3 DEF Shape, Upon
    <3>2. Top' = go'[Len(go')]
      BY DEF Top, Last
    <3>3. QED
      BY <2>3, <3>1, <3>2
  <2>6. QED
    BY <2>2, <2>3, <2>4, <2>5 DEF IInv, Steady, Short
<1>7. CASE ~Short
  <2>1. Steady
    BY <1>3, <1>7 DEF Steady
  <2>2. Back(m, a, s)
    BY <1>2, <1>3, <2>1, BackThere
  <2>3. a.base = Len(data)
    BY <1>3, <2>2 DEF Back
  <2>4. data' = Cut(Len(data)) /\ ret' = "ok"
    BY <1>3, <1>4, <2>3 DEF EvalDone
  <2>5. data' = data
    <3>1. PICK n : n = Len(data)
      OBVIOUS
    <3>2. data \in Seq(Slot) /\ n \in Nat /\ n <= Len(data)
      BY <3>1, Types
    <3>3. data' \in Seq(Slot) /\ Len(data') = n /\ \A i \in 1..n : data'[i] = data[i]
      BY <2>4, <3>1, <3>2, Restored
    <3>4. QED
      BY <3>1, <3>2, <3>3, SameSeq
  <2>6. QED
    BY <1>3, <1>5, <2>2, <2>4, <2>5, GoesOn
<1>8. QED
  BY <1>6, <1>7

\* and SourceExpressions pushes it and goes on with the next file.
LEMMA SourceDoneStep ==
    ASSUME IInv, SourceDone, main' = main
    PROVE  IInv'
<1>1. CASE ret # "ok"
  BY <1>1, SourceFails
<1>2. CASE ret = "ok"
  <2>1. At("source", "ok") /\ "source" # "run" /\ "source" # "eval" /\ "ok" \in {"none", "ok"}
    BY <1>2 DEF SourceDone, At
  <2>2. PICK K, m, a, s : K = Len(go) /\ m = K - 1 /\ a = go[K] /\ s = go[m]
    OBVIOUS
  <2>3. Steady /\ a.kind = "source" /\ Top = a /\ go # <<>>
    BY <2>1, <2>2, AtTop
  <2>4. Back(m, a, s)
    BY <1>2, <2>2, <2>3, BackThere
  <2>5. /\ m \in Nat /\ m > 1 /\ Len(go) = m + 1 /\ s = go[m] /\ s \in Acts /\ s.kind = "user"
        /\ s.data \in Nat /\ s.i = 0 /\ Len(data) = s.data + s.i /\ a.curfunc = Go(s.f) /\ a.pc = -1
    BY <2>3, <2>4 DEF Back
  <2>6. /\ curfunc' = Go(s.f) /\ pc' = -1 /\ addr' = addr /\ linear' = linear
        /\ data' = Append(data, Value) /\ go' = [Below EXCEPT ![Len(Below)].i = @ + 1] /\ ret' = "none"
    BY <1>2, <2>3, <2>5 DEF SourceDone
  <2>7. PICK t, G : t = [s EXCEPT !.i = @ + 1] /\ G = Below
    OBVIOUS
  <2>8. /\ G \in Seq(Acts) /\ Len(G) = m /\ \A j \in 1..m : G[j] = go[j]
    BY <2>2, <2>3, <2>5, <2>7, TopFacts, BelowTyped
  <2>9. t \in Acts /\ SameFrame(s, t) /\ t.i = 1 /\ t.data = s.data
    <3>1. s \in FrameType /\ Within(s.curfunc, s.pc)
      BY <2>5 DEF Acts
    <3>2. t = [s EXCEPT !.i = 1]
      <4>1. s.i + 1 = 1
        BY <2>5
      <4>2. QED
        BY <2>7, <4>1
    <3>3. t \in FrameType /\ SameFrame(s, t) /\ t.i = 1 /\ t.data = s.data /\ t.curfunc = s.curfunc /\ t.pc = s.pc
      BY <3>1, <3>2 DEF FrameType, SameFrame
    <3>4. QED
      BY <3>1, <3>3 DEF Acts
  <2>10. /\ go' \in Seq(Acts) /\ Len(go') = m /\ go'[m] = t /\ \A j \in 1..m - 1 : go'[j] = go[j]
    <3>1. go' = [G EXCEPT ![m] = t]
      <4>1. G[m] = s
        BY <2>5, <2>8
      <4>2. go' = [G EXCEPT ![m] = [G[m] EXCEPT !.i = @ + 1]]
        BY <2>6, <2>7, <2>8
      <4>3. QED
        BY <2>7, <4>1, <4>2
    <3>2. PICK A : A = Acts
      OBVIOUS
    <3>3. G \in Seq(A) /\ t \in A /\ m \in 1..Len(G) /\ DOMAIN G = 1..m
      BY <2>5, <2>8, <2>9, <3>2
    <3>4. [G EXCEPT ![m] = t] \in Seq(A) /\ Len([G EXCEPT ![m] = t]) = m
      BY <2>8, <3>3
    <3>5. go'[m] = t
      BY <2>5, <3>1, <3>3
    <3>6. \A j \in 1..m - 1 : j \in DOMAIN G /\ j # m
      BY <2>5, <3>3
    <3>7. \A j \in 1..m - 1 : go'[j] = G[j]
      BY <3>1, <3>6
    <3>8. \A j \in 1..m - 1 : j \in 1..m
      BY <2>5
    <3>9. QED
      BY <2>8, <3>1, <3>2, <3>4, <3>5, <3>7, <3>8
  <2>11. /\ data' \in Seq(Slot) /\ Len(data') = s.data + 1 /\ (\A i \in 1..s.data : data'[i] = data[i])
         /\ \A i \in 1..1 : data'[s.data + i] = Value
    <3>1. PICK d : d = s.data
      OBVIOUS
    <3>2. data \in Seq(Slot) /\ Value \in Slot /\ d \in Nat /\ Len(data) = d
      BY <2>5, <3>1, Types, Slots
    <3>3. /\ data' \in Seq(Slot) /\ Len(data') = d + 1 /\ (\A i \in 1..d : data'[i] = data[i])
          /\ data'[d + 1] = Value
      BY <2>6, <3>2
    <3>4. QED
      BY <3>1, <3>2, <3>3
  <2>12. Resumed(m, s, t)
    <3>1. t.i \in 0..1 /\ Len(data') = s.data + t.i /\ \A i \in 1..t.i : data'[s.data + i] = Value
      BY <2>9, <2>11
    <3>2. ret' \in {"none", "ok"} /\ (pc' = -1 \/ (pc' = 0 /\ ret' = "ok"))
      BY <2>6
    <3>3. QED
      BY <2>6, <2>9, <2>10, <2>11, <3>1, <3>2 DEF Resumed
  <2>13. QED
    BY <2>4, <2>12, Resumes
<1>3. QED
  BY <1>1, <1>2

-----------------------------------------------------------------------------
(* The host *)

\* The host may ask for anything; what compiles is proper code.
ProperPrograms == Program \ Fails \subseteq Proper

\* A machine at rest, whatever main holds.
Resting == main \in Seq(Instruction) /\ go = <<>> /\ ret \in {"none", "ok", "err"} /\ Clean

\* A machine at rest satisfies the invariant.
LEMMA AtRest == Resting => IInv
<1> SUFFICES ASSUME Resting PROVE IInv
  OBVIOUS
<1> USE DEF Resting
<1>1. MainFunc \in Fn /\ Body(MainFunc) = main /\ Len(main) \in Nat
  BY DEF Fn, Body, MainFunc
<1>2. Within(curfunc, pc) /\ pc \in Int /\ curfunc \in Fn
  BY <1>1 DEF Within, Clean
<1>3. addr \in Seq(AddressType) /\ DOMAIN addr = {} /\ data \in Seq(Slot)
  BY DEF Clean
<1>4. linear \in Seq({"global", Hole} \cup Scope) /\ Len(linear) > 0 /\ linear[1] = "global"
  BY DEF Clean
<1>5. go \in Seq(FrameType) /\ DOMAIN go = {}
  OBVIOUS
<1>6. Typed
  BY <1>2, <1>3, <1>4, <1>5 DEF Typed
<1>7. ~Steady /\ ~Short /\ Intact
  BY <1>5 DEF Steady, Short, Intact
<1>8. QED
  BY <1>6, <1>7 DEF IInv

\* So does the machine of NewZlisp,
LEMMA Starts0 ==
    ASSUME Init
    PROVE  IInv
<1>1. main \in Seq(Instruction) /\ Len(main) = 0
  BY DEF Init
<1>2. Clean /\ go = <<>> /\ ret \in {"none", "ok", "err"}
  BY <1>1 DEF Init, Clean
<1>3. QED
  BY <1>1, <1>2, AtRest DEF Resting

\* Why an idle machine is clean.
LEMMA IdleClean ==
    ASSUME IInv, Idle
    PROVE  /\ go = <<>> /\ Clean /\ Body(MainFunc) = main /\ ReachedEnd /\ main \in Seq(Instruction)
           /\ Len(main) \in Nat
<1>1. go = <<>> /\ Clean
  BY DEF IInv, Idle
<1>2. main \in Seq(Instruction) /\ Len(main) \in Nat
  BY Types
<1>3. Body(MainFunc) = main
  BY DEF Body, MainFunc
<1>4. ReachedEnd
  BY <1>1, <1>2, <1>3 DEF ReachedEnd, Clean
<1>5. QED
  BY <1>1, <1>2, <1>3, <1>4

\* and the one Clear leaves.
LEMMA ClearStep ==
    ASSUME IInv, Clear
    PROVE  IInv'
<1>1. go = <<>> /\ Clean
  BY IdleClean DEF Clear
<1>2. linear = <<"global">>
  BY <1>1 DEF Clean
<1>3. linear' = <<"global">>
  <2>1. linear' = [k \in 1..1 |-> IF k <= Len(linear) THEN linear[k] ELSE Hole]
    BY DEF Clear, TruncateToSize
  <2>2. \A k \in 1..1 : k <= Len(linear) /\ linear[k] = "global"
    BY <1>2
  <2>3. linear' = [k \in 1..1 |-> "global"]
    BY <2>1, <2>2
  <2>4. QED
    BY <2>3
<1>4. /\ main' = <<>> /\ curfunc' = MainFunc /\ pc' = 0 /\ addr' = <<>> /\ data' = <<>>
      /\ ret' = "none" /\ go' = <<>>
  BY <1>1 DEF Clear
<1>5. main' \in Seq(Instruction) /\ Len(main') = 0
  BY <1>4
<1>6. Clean' /\ ret' \in {"none", "ok", "err"}
  BY <1>3, <1>4, <1>5 DEF Clean
<1>7. Resting'
  BY <1>4, <1>5, <1>6 DEF Resting
<1>8. (Resting => IInv)'
  BY AtRest, PTL
<1>9. QED
  BY <1>7, <1>8

\* LoadExpressions puts the code behind all of main that has been run, and Run
\* goes on there.
LEMMA EvalStringStep ==
    ASSUME IInv, ProperPrograms, EvalString
    PROVE  IInv'
<1>1. /\ go = <<>> /\ Clean /\ Body(MainFunc) = main /\ ReachedEnd /\ main \in Seq(Instruction)
      /\ Len(main) \in Nat
  BY IdleClean DEF EvalString
<1>2. PICK p \in Program \ Fails :
        main' = main \o (IF ReachedEnd THEN <<>> ELSE <<[op |-> "pop"]>>) \o Code[p]
  BY DEF EvalString
<1>3. p \in Proper /\ p \in Program /\ p \in Name /\ p \notin Function
  BY <1>2, NamesAssumption DEF ProperPrograms, Proper
<1>4. PICK L, C : L = Len(main) /\ C = Code[p]
  OBVIOUS
<1>5. C \in Seq(Instruction) /\ L \in Nat /\ Len(C) \in Nat
  BY <1>1, <1>3, <1>4, CodeAssumption
<1>6. main' = main \o C
  <2>1. main' = main \o <<>> \o C
    BY <1>1, <1>2, <1>4
  <2>2. main \o <<>> = main
    BY <1>1
  <2>3. QED
    BY <2>1, <2>2
<1>7. /\ main' \in Seq(Instruction) /\ Len(main') = L + Len(C)
      /\ \A i \in 1..Len(C) : main'[L + i] = C[i]
  BY <1>1, <1>4, <1>5, <1>6
<1>8. /\ curfunc = MainFunc /\ pc = L /\ addr = <<>> /\ linear = <<"global">> /\ data = <<>>
  BY <1>1, <1>4 DEF Clean
<1>9. /\ curfunc' = MainFunc /\ pc' = L /\ addr' = <<>> /\ linear' = <<"global">> /\ data' = <<>>
      /\ ret' = "none" /\ go' = <<[Frame("run", "main", <<>>, -1) EXCEPT !.curfunc = MainFunc]>>
  BY <1>8 DEF EvalString
<1>10. PICK R : R = [Frame("run", "main", <<>>, -1) EXCEPT !.curfunc = MainFunc]
  OBVIOUS
<1>11. R = [kind |-> "run", f |-> "main", items |-> <<>>, i |-> 0, base |-> -1,
            curfunc |-> MainFunc, pc |-> L, addr |-> 0, linear |-> 1, data |-> 0]
  <2>1. Len(addr) = 0 /\ Len(linear) = 1 /\ Len(data) = 0
    BY <1>8
  <2>2. QED
    BY <1>8, <1>10, <2>1 DEF Frame
<1>12. MainFunc \in Fn /\ Body(MainFunc)' = main' /\ ~Owns(MainFunc)
  BY DEF Fn, Body, MainFunc, Owns
<1>13. R \in FrameType
  <2>1. "main" \in Name \cup Builtin \cup {"main"} /\ <<>> \in Seq(Name) /\ -1 \in Int /\ L \in Int
    BY <1>5
  <2>2. QED
    BY <1>11, <1>12, <2>1 DEF FrameType
<1>14. go' = <<R>> /\ Len(go') = 1 /\ go'[1] = R /\ DOMAIN go' = {1} /\ go' \in Seq(FrameType)
  BY <1>9, <1>10, <1>13
<1>15. Within(MainFunc, L)'
  BY <1>5, <1>7, <1>12 DEF Within
<1>16. Typed'
  <2>1. /\ addr' \in Seq(AddressType) /\ DOMAIN addr' = {} /\ data' \in Seq(Slot)
        /\ linear' \in Seq({"global", Hole} \cup Scope) /\ Len(linear') > 0 /\ linear'[1] = "global"
    BY <1>9
  <2>2. \A k \in DOMAIN go' : Within(go[k].curfunc, go[k].pc)'
    BY <1>11, <1>14, <1>15 DEF Within, Body
  <2>3. Within(curfunc, pc)'
    BY <1>9, <1>15 DEF Within, Body
  <2>4. curfunc' \in Fn /\ pc' \in Int /\ ret' \in {"none", "ok", "err", "panic"}
    BY <1>5, <1>9, <1>12
  <2>5. QED
    BY <1>7, <1>14, <2>1, <2>2, <2>3, <2>4 DEF Typed
<1>17. Lowest' /\ (\A k \in DOMAIN go : Shape(k))' /\ Nested'
  <2>1. Lowest'
    BY <1>11, <1>14 DEF Lowest
  <2>2. Shape(1)'
    BY <1>11, <1>14 DEF Shape
  <2>3. Nested'
    BY <1>11, <1>14 DEF Nested
  <2>4. QED
    BY <1>14, <2>1, <2>2, <2>3
<1>18. Chain(1, 0, MainFunc)'
  <2>1. /\ R.addr = 0 /\ R.curfunc = MainFunc /\ Len(addr') = 0
    BY <1>9, <1>11
  <2>2. 0 \in 0..0 /\ 0 + 1..0 = {}
    OBVIOUS
  <2>3. QED
    BY <1>12, <1>14, <2>1, <2>2 DEF Chain, Callee, Owns
<1>19. Stands(MainFunc, L, 0, 1, 0, 1, 0)'
  <2>1. PICK w, x : w = <<p, L>> /\ x = Entry(p)
    OBVIOUS
  <2>2. w[1] = p /\ w[2] = L /\ w \in Loaded(MainFunc)'
    <3>1. w \in (Program \cap Proper) \X (0..Len(main'))
      BY <1>3, <1>5, <1>7, <2>1
    <3>2. DOMAIN C = 1..Len(C)
      BY <1>5
    <3>3. w[1] = p /\ w[2] = L
      BY <2>1
    <3>4. QED
      BY <1>4, <1>7, <3>1, <3>2, <3>3 DEF Loaded, MainFunc
  <2>3. x \in Reached[w[1]] /\ x.at = 0 /\ x.scopes = <<>> /\ x.ops = <<>>
    BY <1>3, <2>1, <2>2, EntryIs
  <2>4. OperandBase(MainFunc, 0, 1)' = 0 /\ ScopeBase(MainFunc, 0, 1)' = 1
    <3>1. R.data = 0 /\ R.linear = 1
      BY <1>11
    <3>2. QED
      BY <1>12, <1>14, <3>1 DEF OperandBase, ScopeBase, Owns
  <2>5. Holds(data', 0, 0, x.ops, 0) /\ Holds(linear', 1, 1, x.scopes, 0)
    BY <1>9, <2>3 DEF Holds
  <2>6. StandsAt(w, x, MainFunc, L, 0, 1, 0, 1, 0)'
    <3>1. x.at = L - w[2]
      BY <1>5, <2>2, <2>3
    <3>2. QED
      BY <2>4, <2>5, <3>1 DEF StandsAt
  <2>7. QED
    BY <2>2, <2>3, <2>6 DEF Stands
<1>20. Runs(1)'
  <2>1. R.kind = "run"
    BY <1>11
  <2>2. Len(addr') = 0 /\ Len(data') = 0 /\ Len(linear') = 1
    BY <1>9
  <2>3. InCode(1)'
    BY <1>9, <1>18, <1>19, <2>2 DEF InCode
  <2>4. QED
    BY <1>9, <1>14, <2>1, <2>3 DEF Runs, TopRun
<1>21. /\ go' # <<>> /\ ret' \in {"none", "ok"} /\ (\A i \in DOMAIN data' : data'[i] # Hole)
       /\ (\A k \in 2..1 : Recorded(k)') /\ (ret' = "ok" => FALSE)
  BY <1>9, <1>14
<1>22. QED
  BY <1>14, <1>16, <1>17, <1>20, <1>21, Assemble

-----------------------------------------------------------------------------
(* Every step *)

\* Every instruction keeps the invariant,
LEMMA ExecuteStep ==
    ASSUME IInv, Execute
    PROVE  IInv'
<1>1. main' = main
  BY DEF Execute
<1>2. CASE Push
  BY <1>1, <1>2, PushStep
<1>3. CASE Skip \/ LoopStart
  BY <1>1, <1>3, SkipStep
<1>4. CASE Pop
  BY <1>1, <1>4, PopStep
<1>5. CASE Dup
  BY <1>1, <1>5, DupStep
<1>6. CASE EnvToStack
  BY <1>1, <1>6, EnvToStackStep
<1>7. CASE Bind
  BY <1>1, <1>7, BindStep
<1>8. CASE Branch
  BY <1>1, <1>8, BranchStep
<1>9. CASE Jump
  BY <1>1, <1>9, JumpStep
<1>10. CASE AddScope
  BY <1>1, <1>10, AddScopeStep
<1>11. CASE RemoveScope
  BY <1>1, <1>11, RemoveScopeStep
<1>12. CASE Unmark
  BY <1>1, <1>12, UnmarkStep
<1>13. CASE LeaveLoop
  BY <1>1, <1>13, LeaveLoopStep
<1>14. CASE PrepareCall
  BY <1>1, <1>14, PrepareCallStep
<1>15. CASE CallGo
  BY <1>1, <1>15, CallGoStep
<1>16. CASE CallExpr
  BY <1>1, <1>16, CallExprStep
<1>17. CASE Return
  BY <1>1, <1>17, ReturnStep
<1>18. CASE OperandFault
  BY <1>18, NoOperandFault
<1>19. QED
  BY <1>2, <1>3, <1>4, <1>5, <1>6, <1>7, <1>8, <1>9, <1>10, <1>11, <1>12, <1>13, <1>14, <1>15,
     <1>16, <1>17, <1>18 DEF Execute

\* so does every step between activations,
LEMMA ActivationsStep ==
    ASSUME IInv, Activations
    PROVE  IInv'
<1>1. main' = main
  BY DEF Activations
<1>2. CASE RunFails
  BY <1>1, <1>2, RunFailsStep
<1>3. CASE RunEnds
  BY <1>1, <1>3, RunEndsStep
<1>4. CASE EvalItem
  BY <1>1, <1>4, EvalItemStep
<1>5. CASE ItemDone
  BY <1>1, <1>5, ItemDoneStep
<1>6. CASE ItemFails \/ BuiltinFails \/ ApplyFails
  BY <1>1, <1>6, OthersFail
<1>7. CASE CallResolved
  BY <1>1, <1>7, CallResolvedStep
<1>8. CASE BuiltinReturns
  BY <1>1, <1>8, BuiltinReturnsStep
<1>9. CASE Apply
  BY <1>1, <1>9, ApplyStep
<1>10. CASE ApplyRefused
  BY <1>1, <1>10, ApplyRefusedStep
<1>11. CASE ApplyDone
  BY <1>1, <1>11, ApplyDoneStep
<1>12. CASE Eval
  BY <1>1, <1>12, EvalStep
<1>13. CASE EvalDone
  BY <1>1, <1>13, EvalDoneStep
<1>14. CASE EvalFails
  BY <1>1, <1>14, EvalFailsStep
<1>15. CASE Source
  BY <1>1, <1>15, SourceStep
<1>16. CASE SourceDone
  BY <1>1, <1>16, SourceDoneStep
<1>17. CASE Unwind
  BY <1>17, NoUnwind
<1>18. QED
  BY <1>2, <1>3, <1>4, <1>5, <1>6, <1>7, <1>8, <1>9, <1>10, <1>11, <1>12, <1>13, <1>14, <1>15,
     <1>16, <1>17 DEF Activations

\* and no step at all.
LEMMA Stutters ==
    ASSUME IInv, UNCHANGED vars
    PROVE  IInv'
<1>1. /\ main' = main /\ curfunc' = curfunc /\ pc' = pc /\ addr' = addr /\ linear' = linear
      /\ data' = data /\ go' = go /\ ret' = ret
  BY DEF vars, env
<1>2. \A fn, at : Within(fn, at)' = Within(fn, at)
  BY <1>1 DEF Within, Body
<1>3. Typed'
  <2>1. Typed
    BY DEF IInv
  <2>2. QED
    BY <1>1, <1>2, <2>1 DEF Typed, Within, Body
<1>4. Intact' = Intact /\ Steady' = Steady /\ Short' = Short /\ Clean' = Clean
  BY <1>1 DEF Intact, Steady, Short, Clean, Top
<1>5. go # <<>> => (Lowest /\ (\A k \in DOMAIN go : Shape(k)) /\ Nested)'
  BY <1>1, FramesSame
<1>6. InOrder => InOrder'
  <2>1. \A fn, at, a, r, d, l, n : Stands(fn, at, a, r, d, l, n)' <=> Stands(fn, at, a, r, d, l, n)
    <3>1. \A fn : Loaded(fn)' = Loaded(fn)
      BY <1>1 DEF Loaded
    <3>2. \A w, x, fn, at, a, r, d, l, n :
            StandsAt(w, x, fn, at, a, r, d, l, n)' <=> StandsAt(w, x, fn, at, a, r, d, l, n)
      BY <1>1 DEF StandsAt, OperandBase, ScopeBase, Owns
    <3>3. QED
      BY <3>1, <3>2 DEF Stands
  <2>2. \A k : Depth(k)' = Depth(k) /\ Upon(k)' = Upon(k)
    BY <1>1 DEF Depth, Upon
  <2>3. \A s : EntryOf(s)' = EntryOf(s)
    BY <1>1 DEF EntryOf, ReturnsTo
  <2>4. \A j, n, c : Callee(j, n, c)' = Callee(j, n, c)
    BY <1>1 DEF Callee
  <2>5. \A r, n, c : Chain(r, n, c)' <=> Chain(r, n, c)
    <3>1. SUFFICES ASSUME NEW r, NEW n, NEW c PROVE Chain(r, n, c)' <=> Chain(r, n, c)
      OBVIOUS
    <3>2. EntryOf(Upon(r))' = EntryOf(Upon(r))
      BY <1>1 DEF EntryOf, ReturnsTo, Upon
    <3>3. ASSUME NEW j PROVE
            Stands(addr[j].fn, addr[j].pc, j - 1, r,
                   addr[j].operands, addr[j].scopes, Answers(Callee(j, n, c)))'
            <=> Stands(addr[j].fn, addr[j].pc, j - 1, r,
                       addr[j].operands, addr[j].scopes, Answers(Callee(j, n, c)))
      <4>1. PICK fn, at, o, p, v : /\ fn = addr[j].fn /\ at = addr[j].pc /\ o = addr[j].operands
                                   /\ p = addr[j].scopes /\ v = Answers(Callee(j, n, c))
        OBVIOUS
      <4>2. v = Answers(Callee(j, n, c))'
        BY <2>4, <4>1 DEF Answers
      <4>3. Stands(fn, at, j - 1, r, o, p, v)' <=> Stands(fn, at, j - 1, r, o, p, v)
        BY <2>1
      <4>4. QED
        BY <1>1, <4>1, <4>2, <4>3 DEF Stands, StandsAt, OperandBase, ScopeBase
    <3>4. QED
      BY <1>1, <2>2, <2>4, <3>2, <3>3 DEF Chain
  <2>6. \A k : Recorded(k)' <=> Recorded(k)
    BY <1>1, <2>1, <2>2, <2>5 DEF Recorded, RunOn, CallOn, CallbackOn, UserEntry
  <2>7. \A k : Runs(k)' <=> Runs(k)
    BY <1>1, <2>1, <2>2, <2>5 DEF Runs, TopRun, TopCall, TopUser, TopCallback, InCode, Finished,
       UserEntry, AllValues
  <2>8. QED
    BY <1>1, <2>6, <2>7 DEF InOrder
<1>7. QED
  BY <1>1, <1>3, <1>4, <1>5, <1>6 DEF IInv, Top

\* IInv is kept by every step, for all code VmCode asks for.
THEOREM Inductive ==
    ASSUME ProperPrograms
    PROVE  Spec => []IInv
<1>1. Init => IInv
  BY Starts0
<1>2. IInv /\ [Next]_vars => IInv'
  <2>1. SUFFICES ASSUME IInv, [Next]_vars PROVE IInv'
    OBVIOUS
  <2>2. CASE Execute
    BY <2>1, <2>2, ExecuteStep
  <2>3. CASE Activations
    BY <2>1, <2>3, ActivationsStep
  <2>4. CASE EvalString
    BY <2>1, <2>4, EvalStringStep
  <2>5. CASE Clear
    BY <2>1, <2>5, ClearStep
  <2>6. CASE UNCHANGED vars
    BY <2>1, <2>6, Stutters
  <2>7. QED
    BY <2>1, <2>2, <2>3, <2>4, <2>5, <2>6 DEF Next
<1>3. QED
  BY <1>1, <1>2, PTL DEF Spec

-----------------------------------------------------------------------------
(* What follows *)

\* What the invariant says of types.
LEMMA WellTyped ==
    ASSUME IInv
    PROVE  TypeOK
<1>1. Typed
  BY DEF IInv
<1>2. ToSet(linear) \subseteq {"global", "addscope", "addfunc", Hole}
  <2>1. \A k \in DOMAIN linear : linear[k] \in {"global", Hole} \cup Scope
    BY <1>1 DEF Typed
  <2>2. QED
    BY <2>1 DEF ToSet, Scope
<1>3. \A k \in DOMAIN go : go[k].kind \in {"run", "call", "user", "apply", "eval", "source"}
  <2>1. \A k \in DOMAIN go : go[k] \in FrameType
    BY <1>1 DEF Typed
  <2>2. QED
    BY <2>1 DEF FrameType
<1>4. QED
  BY <1>1, <1>2, <1>3 DEF Typed, Within, TypeOK

\* What it says of a function that returns.
LEMMA Balanced ==
    ASSUME IInv
    PROVE  ReturnBalanced
<1>1. SUFFICES ASSUME Running, Instr.op = "ret", addr # <<>>
               PROVE  /\ Len(data) = Last(addr).operands + (IF curfunc[2] \in Void THEN 0 ELSE 1)
                      /\ Len(linear) = Last(addr).scopes
  BY DEF ReturnBalanced
<1>2. PICK n : n = Len(addr)
  OBVIOUS
<1>3. Last(addr) = addr[n]
  BY <1>2 DEF Last
<1>4. /\ Code[curfunc[2]] # <<>> /\ Len(data) = addr[n].operands + Len(Result(curfunc[2]))
      /\ Len(linear) = addr[n].scopes
  BY <1>1, <1>2, Returning
<1>5. Len(Result(curfunc[2])) = IF curfunc[2] \in Void THEN 0 ELSE 1
  BY <1>4 DEF Result
<1>6. QED
  BY <1>3, <1>4, <1>5

\* What it says of a call that becomes a jump.
LEMMA InTail ==
    ASSUME IInv
    PROVE  TailPosition
<1>1. SUFFICES ASSUME Running, Instr.op = "precall", addr # <<>>
               PROVE  /\ Len(data) = Last(addr).operands + Instr.nargs
                      /\ Len(linear) = Last(addr).scopes + 1
  BY DEF TailPosition, Is
<1>2. PICK K, n, m : K = Len(go) /\ n = Len(addr) /\ m = Instr.nargs
  OBVIOUS
<1>3. PICK w \in Loaded(curfunc) : \E x \in Reached[w[1]] : AtPlace(w, x, K)
  BY <1>1, <1>2, SomePlace
<1>4. PICK x \in Reached[w[1]] : AtPlace(w, x, K)
  BY <1>3
<1>5. StandsAt(w, x, curfunc, pc, n, K, Len(data), Len(linear), 0)
      /\ Instr = Code[w[1]][x.at + 1] /\ Instr \in Instruction /\ Fed(w[1], x)
  BY <1>2, <1>4 DEF AtPlace
<1>6. w[1] \in Function /\ x.ops = Values(m) /\ x.scopes = <<"addfunc">>
  BY <1>1, <1>2, <1>5 DEF Fed
<1>7. m \in Nat
  BY <1>1, <1>2, <1>5 DEF Instruction
<1>8. Owns(curfunc)
  BY <1>6, LoadedCode, Types
<1>9. addr[n] \in AddressType /\ n \in 1..Len(addr)
  BY <1>1, <1>2, Types
<1>10. PICK b, s : b = addr[n].operands /\ s = addr[n].scopes
  OBVIOUS
<1>11. b \in Nat /\ s \in Nat
  BY <1>9, <1>10 DEF AddressType
<1>12. /\ Holds(data, b, Len(data), x.ops, 0) /\ Holds(linear, s, Len(linear), x.scopes, 0)
  BY <1>5, <1>8, <1>10 DEF StandsAt, OperandBase, ScopeBase
<1>13. Len(x.ops) = m /\ Len(x.scopes) = 1
  BY <1>6, <1>7 DEF Values
<1>14. Len(data) = b + m /\ Len(linear) = s + 1
  <2>1. PICK d, l : d = Len(data) /\ l = Len(linear)
    OBVIOUS
  <2>2. d \in Nat /\ l \in Nat
    BY <2>1, Types
  <2>3. m = d - b + 0 /\ 1 = l - s + 0
    BY <1>12, <1>13, <2>1 DEF Holds
  <2>4. d = b + m /\ l = s + 1
    BY <1>7, <1>11, <2>2, <2>3
  <2>5. QED
    BY <2>1, <2>4
<1>15. QED
  BY <1>2, <1>10, <1>14 DEF Last

\* No instruction pops an operand, or reads one, that is not there or is nil.
NeverUnderflows == Running => Ready /\ (Instr.op = "pop" => data # <<>>)

\* The instructions find what they take.
LEMMA Supplied ==
    ASSUME IInv
    PROVE  NeverUnderflows
<1>1. Running => Ready
  BY AlwaysReady
<1>2. ASSUME Running, Instr.op = "pop" PROVE data # <<>>
  <2>1. PICK K : K = Len(go)
    OBVIOUS
  <2>2. PICK w \in Loaded(curfunc) : \E x \in Reached[w[1]] : AtPlace(w, x, K)
    BY <1>2, <2>1, SomePlace
  <2>3. PICK x \in Reached[w[1]] : AtPlace(w, x, K)
    BY <2>2
  <2>4. PICK ops, b : ops = x.ops /\ b = OperandBase(curfunc, Len(addr), K)
    OBVIOUS
  <2>5. ops \in Seq(Own)
    <3>1. w[1] \in Proper
      BY Types, LoadedCode
    <3>2. QED
      BY <2>4, <3>1, PlaceFacts
  <2>6. Instr = Code[w[1]][x.at + 1] /\ Fed(w[1], x) /\ Holds(data, b, Len(data), ops, 0)
    BY <2>3, <2>4 DEF AtPlace, StandsAt
  <2>7. Len(ops) >= 1
    BY <1>2, <2>4, <2>6 DEF Fed, Takes
  <2>8. Len(data) >= 1
    <3>1. Len(data) \in Nat /\ Len(ops) \in Nat
      BY <2>5, Types
    <3>2. QED
      BY <2>6, <2>7, <3>1 DEF Holds
  <2>9. QED
    BY <2>8
<1>3. QED
  BY <1>1, <1>2 DEF NeverUnderflows

\* What it says of the sizes that Go activations captured.
LEMMA Unharmed ==
    ASSUME IInv
    PROVE  CallersIntact
<1>1. SUFFICES ASSUME ret # "panic", ~(go # <<>> /\ Top.kind = "eval" /\ Top.f \in Void), go # <<>>
               PROVE  Intact
  <2>1. go = <<>> => DOMAIN go = {}
    OBVIOUS
  <2>2. QED
    BY <2>1 DEF CallersIntact, Intact
<1>2. ret = "err" => Intact
  BY DEF IInv
<1>3. ret \in {"none", "ok"} => Steady
  BY <1>1 DEF Steady, Short, IInv
<1>4. ret \in {"none", "ok", "err"}
  BY <1>1 DEF IInv, Typed
<1>5. QED
  BY <1>2, <1>3, <1>4, SteadyIntact

\* Every stack holds what belongs on it, whatever code has been compiled.
THEOREM VmTypes ==
    ASSUME ProperPrograms
    PROVE  Spec => []TypeOK
<1>1. IInv => TypeOK
  BY WellTyped
<1>2. QED
  BY <1>1, Inductive, PTL

\* EvalString and Run leave nothing behind, after an error no more than after
\* a value.
THEOREM VmClean ==
    ASSUME ProperPrograms
    PROVE  Spec => []QuiescentClean
<1>1. IInv => QuiescentClean
  BY DEF IInv, Clean, Idle, QuiescentClean
<1>2. QED
  BY <1>1, Inductive, PTL

\* What is run on behalf of a Go function, an argument or a call that calls
\* back never pops what was there before, however deep Run is re-entered.
THEOREM VmCallersIntact ==
    ASSUME ProperPrograms
    PROVE  Spec => []CallersIntact
<1>1. IInv => CallersIntact
  BY Unharmed
<1>2. QED
  BY <1>1, Inductive, PTL

\* ReturnInstr finds the operands and scopes its caller expects.
THEOREM VmReturnBalanced ==
    ASSUME ProperPrograms
    PROVE  Spec => []ReturnBalanced
<1>1. IInv => ReturnBalanced
  BY Balanced
<1>2. QED
  BY <1>1, Inductive, PTL

\* The tail call that becomes a jump has only its arguments on the stack.
THEOREM VmTailPosition ==
    ASSUME ProperPrograms
    PROVE  Spec => []TailPosition
<1>1. IInv => TailPosition
  BY InTail
<1>2. QED
  BY <1>1, Inductive, PTL

\* No panic of the machine reaches the host.
THEOREM VmNoCrash ==
    ASSUME ProperPrograms
    PROVE  Spec => []NoCrash
<1>1. IInv => NoCrash
  BY DEF IInv, NoCrash
<1>2. QED
  BY <1>1, Inductive, PTL

\* Stack.Pop and DupInstr never meet the bottom of the operands or a slot that
\* TruncateToSize has added, in any code that is as VmCode asks for.
THEOREM VmNeverUnderflows ==
    ASSUME ProperPrograms
    PROVE  Spec => []NeverUnderflows
<1>1. IInv => NeverUnderflows
  BY Supplied
<1>2. QED
  BY <1>1, Inductive, PTL
=============================================================================
