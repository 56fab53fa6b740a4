---------------------------- MODULE VmInvariant -----------------------------
(***************************************************************************)
(* For all code that is as module VmCode asks for, however deep Run is     *)
(* re-entered: the stacks come back as they were, whatever fails.          *)
(*                                                                         *)
(* The inductive invariant has two parts.  As long as nothing has failed,  *)
(* each activation of code stands at one of its places: what it has put on *)
(* the stacks is what the place says, above the sizes that its caller has  *)
(* recorded; that holds of the code that runs, of the callers on the       *)
(* address stack and of those that wait below a Go activation.  While an   *)
(* error travels down only the sizes matter: each Go activation cuts the   *)
(* stacks to the sizes it captured, which are never below those captured   *)
(* by the activations under it.                                            *)
(***************************************************************************)
EXTENDS VmCode, Lemmas, TLAPS

Fn == {MainFunc} \cup ({"func", "thunk", "source"} \X Name)
                 \cup ({"go"} \X (Builtin \cup {"nil"}))

FrameType == [kind : {"run", "call", "user", "apply", "eval", "source"},
              f : Name \cup Builtin \cup {"main"}, items : Seq(Name), i : Nat, base : Int,
              curfunc : Fn, pc : Int, addr : Nat, linear : Nat, data : Nat]

AddressType == [fn : Fn, pc : Int, operands : Nat, scopes : Nat]

Within(fn, at) == at \in -1..Len(Body(fn))

Typed ==
    /\ main \in Seq(Instruction)
    /\ curfunc \in Fn /\ pc \in Int /\ Within(curfunc, pc)
    /\ addr \in Seq(AddressType) /\ \A k \in DOMAIN addr : Within(addr[k].fn, addr[k].pc)
    /\ linear \in Seq({"global", Hole} \cup Scope) /\ Len(linear) > 0 /\ linear[1] = "global"
    /\ data \in Seq(Slot)
    /\ go \in Seq(FrameType) /\ \A k \in DOMAIN go : Within(go[k].curfunc, go[k].pc)
    /\ ret \in {"none", "ok", "err", "panic"}

-----------------------------------------------------------------------------
(* The Go activations *)

Upon(k) == go[k - 1]

\* The operands that activation k leaves alone, and goes back to when it fails.
Depth(k) ==
    CASE go[k].kind = "run"  -> IF k = 1 THEN 0 ELSE Upon(k).data
      [] go[k].kind = "call" -> go[k].base
      [] OTHER               -> go[k].data

\* Which activation stands on which, and what each of them is.
Shape(k) ==
    LET a == go[k]
    IN  /\ a.kind = "run" /\ k > 1 => /\ Upon(k).kind \in {"call", "apply", "eval", "source"}
                                      /\ Upon(k).data <= a.data
        /\ a.kind # "run" => k > 1
        /\ a.kind \in {"call", "user"} => Upon(k).kind = "run"
        /\ a.kind \in {"apply", "eval", "source"} => Upon(k).kind = "user"
        /\ a.kind = "call" => /\ a.base >= 0 /\ a.base <= a.data
                              /\ a.items # <<>> /\ a.i <= Len(a.items)
                              /\ \A j \in DOMAIN a.items :
                                    Runnable(a.items[j]) /\ a.items[j] \notin Void
        /\ a.kind = "user" => a.f \in Builtin /\ a.base \in {-1, a.data} /\ a.i \in 0..1
        /\ a.kind = "apply" => a.f \in Function
        /\ a.kind = "eval" => a.base = a.data /\ Code[a.f] # <<>>
        /\ a.kind = "source" => Upon(k).i = 0

Lowest ==
    LET a == go[1]
    IN  a.kind = "run" /\ a.curfunc = MainFunc /\ a.addr = 0 /\ a.linear = 1 /\ a.data = 0

\* What an activation captured is no more than those above it go back to.
Nested ==
    /\ \A k \in DOMAIN go : go[k].linear > 0
    /\ \A j, k \in DOMAIN go : j < k =>
          /\ go[j].addr <= go[k].addr /\ go[j].linear <= go[k].linear
          /\ go[j].kind # "run" => go[j].data <= Depth(k)

Intact == \A k \in DOMAIN go : go[k].kind # "run" =>
    go[k].data <= Len(data) /\ go[k].addr <= Len(addr) /\ go[k].linear <= Len(linear)

-----------------------------------------------------------------------------
(* Activations of code *)

\* What fn has been compiled from, and where its code begins: main has the
\* code of what the host evaluates now at its end.
Loaded(fn) ==
    CASE fn = MainFunc ->
           {w \in (Program \cap Proper) \X (0..Len(main)) :
              /\ Len(main) = w[2] + Len(Code[w[1]])
              /\ \A i \in DOMAIN Code[w[1]] : main[w[2] + i] = Code[w[1]][i]}
      [] fn[1] = "func"   -> (Function \cap {fn[2]}) \X {0}
      [] fn[1] = "thunk"  -> {n \in Proper \cap {fn[2]} : Code[n] # <<>>} \X {0}
      [] fn[1] = "source" -> ((Proper \ Function) \cap {fn[2]}) \X {0}
      [] OTHER            -> {}

\* Code that is entered by an entry on the address stack returns to it; the
\* other is run by a Run of its own, to its end.
Owns(fn) == fn[1] \in {"func", "thunk"}

OperandBase(fn, a, r) == IF Owns(fn) THEN addr[a].operands ELSE go[r].data
ScopeBase(fn, a, r)   == IF Owns(fn) THEN addr[a].scopes   ELSE go[r].linear

\* From b to t a stack holds what is left of list without its last n members.
Holds(s, b, t, list, n) ==
    /\ t \in 0..Len(s) /\ b \in 0..t /\ Len(list) = t - b + n
    /\ \A i \in 1..t - b : s[b + i] = list[i]

\* fn, entered with addr[a] in Run r, stands at place x of its code w when the
\* stacks have d operands and l scopes, and n more values have been put on top.
StandsAt(w, x, fn, at, a, r, d, l, n) ==
    /\ x.at = at - w[2]
    /\ Holds(data, OperandBase(fn, a, r), d, x.ops, n)
    /\ \A i \in 1..n : x.ops[Len(x.ops) - n + i] = Value
    /\ Holds(linear, ScopeBase(fn, a, r), l, x.scopes, 0)

Stands(fn, at, a, r, d, l, n) ==
    \E w \in Loaded(fn) : \E x \in Reached[w[1]] : StandsAt(w, x, fn, at, a, r, d, l, n)

\* The function that entry j of the address stack was made for, the last of
\* them for the function c, and how many values it will put there.
Callee(j, n, c) == IF j = n THEN c ELSE addr[j + 1].fn
Answers(fn) == Len(Answer(fn[2]))

\* The function a Go caller of Run has entered, and the pc it returns to.
Entered(s) == CASE s.kind = "call"   -> Thunk(s.items[s.i + 1])
                [] s.kind = "apply"  -> Func(s.f)
                [] s.kind = "eval"   -> Thunk(s.f)
                [] OTHER             -> Sourced(s.f)
ReturnsTo(s) == IF s.kind = "eval" THEN s.pc + 1 ELSE -1

EntryOf(s) == [fn |-> s.curfunc, pc |-> ReturnsTo(s), operands |-> s.data, scopes |-> s.linear]

\* The callers in Run r, up to the one that called c with addr[n]: each waits
\* behind its call for what is called.  The first of them, or c, is what the
\* Run was started for; Go callers have made an entry for it.
Chain(r, n, c) ==
    /\ n \in go[r].addr..Len(addr)
    /\ Owns(go[r].curfunc) => go[r].addr > 0 /\ addr[go[r].addr] = EntryOf(Upon(r))
    /\ Callee(go[r].addr, n, c) = go[r].curfunc
    /\ \A j \in go[r].addr + 1..n :
          /\ Callee(j, n, c)[1] = "func"
          /\ addr[j].operands >= Depth(r) /\ addr[j].scopes >= go[r].linear
          /\ Stands(addr[j].fn, addr[j].pc, j - 1, r,
                    addr[j].operands, addr[j].scopes, Answers(Callee(j, n, c)))
    /\ \A i, j \in go[r].addr + 1..n : i < j =>
          addr[i].operands <= addr[j].operands /\ addr[i].scopes <= addr[j].scopes

-----------------------------------------------------------------------------
(* What a Go activation has recorded of the one below *)

\* How many items of a call have left a value on the stack.
Pushed(i) == IF i = 0 THEN 0 ELSE i - 1

RunOn(k) ==
    LET a == go[k]
        s == Upon(k)
    IN  /\ s.kind = "call" => /\ s.i < Len(s.items)
                              /\ s.data = s.base + Pushed(s.i) /\ s.data <= Len(data)
                              /\ \A i \in s.base + 1..s.data : data[i] = Value
        /\ a.curfunc = Entered(s)
        /\ s.kind # "eval" => Result(a.curfunc[2]) = <<Value>>
        /\ a.linear = s.linear
        /\ a.data = s.data + (IF s.kind = "apply" THEN Params(s.f) ELSE 0)
        /\ IF s.kind = "source" THEN a.addr = s.addr ELSE a.addr = s.addr + 1

\* A call, or a Go function, upon the code that calls it.
CallOn(k) ==
    LET a == go[k]
    IN  /\ Chain(k - 1, a.addr, a.curfunc)
        /\ Stands(a.curfunc, a.pc + 1, a.addr, k - 1, Depth(k), a.linear,
                  IF a.kind = "call" THEN Len(Answer(a.f)) ELSE 1)

\* The entry of a Go function, and results of files above its arguments.
UserEntry(k, n, l) ==
    LET a == go[k]
    IN  /\ n = a.addr + 1 /\ n <= Len(addr) /\ l = a.linear /\ l <= Len(linear)
        /\ addr[n].fn = a.curfunc /\ addr[n].pc = a.pc + 1
        /\ a.data + a.i <= Len(data)
        /\ \A i \in 1..a.i : data[a.data + i] = Value

\* Apply, EvalFunction or SourceExpressions upon the Go function.
CallbackOn(k) ==
    LET a == go[k]
        s == Upon(k)
    IN  /\ UserEntry(k - 1, a.addr, a.linear)
        /\ a.data = s.data + s.i
        /\ a.curfunc = Go(s.f)
        /\ a.pc = -1 \/ (a.pc = 0 /\ a.kind = "apply")

Recorded(k) ==
    CASE go[k].kind = "run"              -> RunOn(k)
      [] go[k].kind \in {"call", "user"} -> CallOn(k)
      [] OTHER                           -> CallbackOn(k)

-----------------------------------------------------------------------------
(* The running activation *)

AllValues(b) == \A i \in b + 1..Len(data) : data[i] = Value

InCode(k) ==
    /\ Chain(k, Len(addr), curfunc)
    /\ Stands(curfunc, pc, Len(addr), k, Len(data), Len(linear), 0)

\* The first function of a Run has returned to the Go caller.
Finished(k) ==
    LET s == Upon(k)
    IN  /\ k > 1 /\ s.kind # "source"
        /\ curfunc = s.curfunc /\ pc = ReturnsTo(s)
        /\ Len(addr) = s.addr /\ Len(linear) = s.linear
        /\ Len(data) = s.data + Len(Result(go[k].curfunc[2]))
        /\ AllValues(s.data)

TopRun(k) == ret = "none" /\ (InCode(k) \/ Finished(k))

TopCall(k) ==
    LET a == go[k]
    IN  /\ Len(addr) = a.addr /\ Len(linear) = a.linear
        /\ Len(data) = a.base + Pushed(a.i) /\ AllValues(a.base) /\ a.data <= Len(data)
        /\ ret = "none" => curfunc = a.curfunc /\ pc = a.pc
        /\ ret = "ok" => a.i < Len(a.items) /\ a.data = Len(data)

TopUser(k) ==
    LET a == go[k]
    IN  /\ UserEntry(k, Len(addr), Len(linear)) /\ Len(data) = a.data + a.i
        /\ curfunc = Go(a.f)
        /\ pc = -1 \/ (pc = 0 /\ ret = "ok")

TopCallback(k) ==
    LET a == go[k]
    IN  /\ ret = "ok"
        /\ Len(addr) = a.addr /\ Len(linear) = a.linear /\ Len(data) = a.data
        /\ a.kind # "source" => curfunc = a.curfunc /\ pc = ReturnsTo(a)

Runs(k) ==
    CASE go[k].kind = "run"  -> TopRun(k)
      [] go[k].kind = "call" -> TopCall(k)
      [] go[k].kind = "user" -> TopUser(k)
      [] OTHER               -> TopCallback(k)

\* eval has taken the result of code without one from its caller's operands.
Short == go # <<>> /\ Top.kind = "eval" /\ ret = "ok" /\ Len(data) < Top.data

Steady == go # <<>> /\ ret \in {"none", "ok"} /\ ~Short

InOrder ==
    /\ \A k \in DOMAIN data : data[k] # Hole
    /\ \A k \in 2..Len(go) : Recorded(k)
    /\ Runs(Len(go))

Clean == /\ data = <<>> /\ addr = <<>> /\ linear = <<"global">>
         /\ curfunc = MainFunc /\ pc = Len(main)

IInv ==
    /\ Typed
    /\ go = <<>> => Clean
    /\ go # <<>> => Lowest /\ (\A k \in DOMAIN go : Shape(k)) /\ Nested
    /\ Steady => InOrder
    /\ ret = "err" => Intact
    /\ ret = "panic" => go # <<>> /\ Top.kind = "user"
    /\ Short => Top.f \in Void
-----------------------------------------------------------------------------
(* Facts of the definitions *)

\* Whatever curfunc points at has instructions.
LEMMA BodyIsSeq ==
    ASSUME main \in Seq(Instruction), NEW fn \in Fn
    PROVE  Body(fn) \in Seq(Instruction) /\ Len(Body(fn)) \in Nat
<1>1. RetInstr \in Instruction
  BY DEF RetInstr, Instruction
<1>2. \A n \in Name : Code[n] \in Seq(Instruction)
  BY CodeAssumption
<1>3. CASE fn = MainFunc
  BY <1>3 DEF Body, MainFunc
<1>4. CASE fn \in {"func", "thunk", "source"} \X Name
  <2>1. fn[1] \in {"func", "thunk", "source"} /\ fn[2] \in Name
    BY <1>4
  <2>2. Append(Code[fn[2]], RetInstr) \in Seq(Instruction)
    BY <1>1, <1>2, <2>1, AppendSeq
  <2>3. QED
    BY <1>2, <2>1, <2>2 DEF Body
<1>5. CASE fn \in {"go"} \X (Builtin \cup {"nil"})
  <2>1. fn[1] = "go"
    BY <1>5
  <2>2. QED
    BY <2>1 DEF Body
<1>6. QED
  BY <1>3, <1>4, <1>5 DEF Fn

\* What frames and entries are made of.
LEMMA FrameFields ==
    ASSUME NEW g \in Seq(FrameType), NEW k \in DOMAIN g
    PROVE  /\ k \in 1..Len(g) /\ Len(g) \in Nat /\ g[k] \in FrameType
           /\ g[k].addr \in Nat /\ g[k].linear \in Nat /\ g[k].data \in Nat
           /\ g[k].base \in Int /\ g[k].i \in Nat /\ g[k].pc \in Int
           /\ g[k].curfunc \in Fn /\ g[k].items \in Seq(Name)
           /\ g[k].kind \in {"run", "call", "user", "apply", "eval", "source"}
           /\ g[k].f \in Name \cup Builtin \cup {"main"}
<1>1. k \in 1..Len(g) /\ Len(g) \in Nat /\ g[k] \in FrameType
  OBVIOUS
<1>2. QED
  BY <1>1 DEF FrameType

\* The fields of what is on the address stack.
LEMMA EntryFields ==
    ASSUME NEW a \in Seq(AddressType), NEW k \in 1..Len(a)
    PROVE  /\ a[k] \in AddressType /\ a[k].fn \in Fn /\ a[k].pc \in Int
           /\ a[k].operands \in Nat /\ a[k].scopes \in Nat
<1>1. a[k] \in AddressType
  OBVIOUS
<1>2. QED
  BY <1>1 DEF AddressType

\* What a stack holds up to t stays when the stack stays up to t.
LEMMA HoldsKept ==
    ASSUME NEW s, NEW z, NEW b, NEW t, NEW list, NEW n, Holds(s, b, t, list, n),
           Len(s) \in Nat, Len(z) \in Nat, t <= Len(z), \A i \in 1..t : z[i] = s[i]
    PROVE  Holds(z, b, t, list, n)
<1>1. t \in Nat /\ b \in Nat /\ b <= t
  BY DEF Holds
<1>2. \A i \in 1..t - b : b + i \in 1..t
  BY <1>1
<1>3. QED
  BY <1>1, <1>2 DEF Holds

\* What code has put on the stacks stays as it is where they do.
LEMMA StandsKept ==
    ASSUME NEW fn, NEW at, NEW a, NEW r, NEW d, NEW l, NEW n,
           Stands(fn, at, a, r, d, l, n),
           main' = main, go'[r].data = go[r].data, go'[r].linear = go[r].linear,
           Owns(fn) => addr'[a] = addr[a],
           d <= Len(data'), \A i \in 1..d : data'[i] = data[i], Len(data) \in Nat, Len(data') \in Nat,
           l <= Len(linear'), \A i \in 1..l : linear'[i] = linear[i], Len(linear) \in Nat, Len(linear') \in Nat
    PROVE  Stands(fn, at, a, r, d, l, n)'
<1>1. PICK w \in Loaded(fn) : \E x \in Reached[w[1]] : StandsAt(w, x, fn, at, a, r, d, l, n)
  BY DEF Stands
<1>0. PICK x \in Reached[w[1]] : StandsAt(w, x, fn, at, a, r, d, l, n)
  BY <1>1
<1>2. w \in Loaded(fn)'
  BY <1>1 DEF Loaded
<1>3. OperandBase(fn, a, r)' = OperandBase(fn, a, r) /\ ScopeBase(fn, a, r)' = ScopeBase(fn, a, r)
  BY DEF OperandBase, ScopeBase, Owns
<1>4. StandsAt(w, x, fn, at, a, r, d, l, n)'
  <2>1. Holds(data', OperandBase(fn, a, r), d, x.ops, n)
    BY <1>0, HoldsKept DEF StandsAt
  <2>2. Holds(linear', ScopeBase(fn, a, r), l, x.scopes, 0)
    BY <1>0, HoldsKept DEF StandsAt
  <2>3. QED
    BY <1>0, <1>3, <2>1, <2>2 DEF StandsAt
<1>5. QED
  BY <1>0, <1>2, <1>4 DEF Stands

\* The same for callers, as long as the stacks stay up to d and l.
LEMMA ChainKept ==
    ASSUME NEW r \in DOMAIN go, NEW n, NEW c, NEW d \in Nat, NEW l \in Nat, Chain(r, n, c),
           go \in Seq(FrameType), addr \in Seq(AddressType), addr' \in Seq(AddressType),
           main' = main, go'[r] = go[r],
           IF r = 1 THEN ~Owns(go[r].curfunc) ELSE go'[r - 1] = go[r - 1],
           n <= Len(addr'), \A i \in 1..n : addr'[i] = addr[i],
           \A j \in go[r].addr + 1..n : addr[j].operands <= d /\ addr[j].scopes <= l,
           d <= Len(data'), \A i \in 1..d : data'[i] = data[i],
           Len(data) \in Nat, Len(data') \in Nat,
           l <= Len(linear'), \A i \in 1..l : linear'[i] = linear[i],
           Len(linear) \in Nat, Len(linear') \in Nat
    PROVE  Chain(r, n, c)'
<1>1. go[r].addr \in Nat /\ n \in go[r].addr..Len(addr) /\ Len(addr) \in Nat /\ Len(addr') \in Nat
  <2>1. go[r].addr \in Nat
    BY FrameFields
  <2>2. QED
    BY <2>1 DEF Chain
<1>2. Depth(r)' = Depth(r)
  BY DEF Depth, Upon
<1>3. \A j \in go[r].addr..n : Callee(j, n, c)' = Callee(j, n, c)
  <2>1. SUFFICES ASSUME NEW j \in go[r].addr..n, j # n PROVE addr'[j + 1] = addr[j + 1]
    BY DEF Callee
  <2>2. j + 1 \in 1..n
    <3>1. PICK a : a = go[r].addr
      OBVIOUS
    <3>2. a \in Nat /\ n \in Nat /\ j \in a..n /\ j # n
      BY <1>1, <2>1, <3>1
    <3>3. QED
      BY <3>2
  <2>3. QED
    BY <2>2
<1>4. Owns(go[r].curfunc)' => go'[r].addr > 0 /\ addr'[go'[r].addr] = EntryOf(Upon(r))'
  <2>1. SUFFICES ASSUME Owns(go[r].curfunc) PROVE go'[r].addr > 0 /\ addr'[go'[r].addr] = EntryOf(Upon(r))'
    BY DEF Owns
  <2>2. r # 1 /\ addr[go[r].addr] = EntryOf(Upon(r)) /\ go[r].addr > 0
    BY <2>1 DEF Chain
  <2>3. EntryOf(Upon(r))' = EntryOf(Upon(r))
    BY <2>2 DEF EntryOf, Upon, ReturnsTo
  <2>4. go[r].addr \in 1..n
    BY <1>1, <2>2
  <2>5. QED
    BY <2>2, <2>3, <2>4
<1>5. ASSUME NEW j \in go[r].addr + 1..n
      PROVE  /\ Callee(j, n, c)'[1] = "func"
             /\ addr'[j].operands >= Depth(r)' /\ addr'[j].scopes >= go'[r].linear
             /\ Stands(addr[j].fn, addr[j].pc, j - 1, r,
                       addr[j].operands, addr[j].scopes, Answers(Callee(j, n, c)))'
  <2>1. /\ j \in 1..n /\ j \in 1..Len(addr) /\ j - 1 \in 0..n
        /\ j \in go[r].addr..n
        /\ addr'[j] = addr[j]
    <3>1. j \in 1..n /\ j \in 1..Len(addr) /\ j - 1 \in 0..n /\ j \in go[r].addr..n
      BY <1>1, SMTT(30)
    <3>2. QED
      BY <3>1
  <2>2. addr[j].operands \in Nat /\ addr[j].scopes \in Nat
    BY <1>1, <2>1, EntryFields
  <2>3. Stands(addr[j].fn, addr[j].pc, j - 1, r,
                       addr[j].operands, addr[j].scopes, Answers(Callee(j, n, c)))
    BY DEF Chain
  <2>4. \A fn, at, o, p, k : /\ fn = addr[j].fn /\ at = addr[j].pc /\ o = addr[j].operands
                           /\ p = addr[j].scopes /\ k = Answers(Callee(j, n, c))
                           => Stands(fn, at, j - 1, r, o, p, k)'
    <3>1. SUFFICES ASSUME NEW fn, NEW at, NEW o, NEW p, NEW k,
                          fn = addr[j].fn, at = addr[j].pc, o = addr[j].operands,
                          p = addr[j].scopes, k = Answers(Callee(j, n, c))
                   PROVE  Stands(fn, at, j - 1, r, o, p, k)'
      OBVIOUS
    <3>2. Owns(fn) => addr'[j - 1] = addr[j - 1]
      <4>1. CASE j - 1 > 0
        BY <2>1, <4>1, SMTT(30)
      <4>2. CASE j - 1 = 0
        <5>1. go[r].addr = 0 /\ j # n + 1 /\ j = 1 /\ n # 0
          BY <1>1, <1>5, <2>1, <4>2, SMTT(30)
        <5>2. addr[1].fn = go[r].curfunc
          BY <5>1 DEF Chain, Callee
        <5>3. QED
          BY <3>1, <5>1, <5>2 DEF Chain
      <4>3. QED
        BY <2>1, <4>1, <4>2
    <3>3. QED
      <4>1. o \in Nat /\ o <= d /\ p \in Nat /\ p <= l
        BY <2>2, <3>1
      <4>2. o <= Len(data') /\ \A i \in 1..o : data'[i] = data[i]
        BY <4>1
      <4>3. p <= Len(linear') /\ \A i \in 1..p : linear'[i] = linear[i]
        BY <4>1
      <4>4. Stands(fn, at, j - 1, r, o, p, k)
        BY <2>3, <3>1
      <4>5. QED
        BY <3>2, <4>2, <4>3, <4>4, StandsKept
  <2>5. QED
    BY <1>2, <1>3, <2>1, <2>4 DEF Chain
<1>6. n \in go'[r].addr..Len(addr') /\ go'[r].addr = go[r].addr
  BY <1>1
<1>7. Callee(go[r].addr, n, c)' = go'[r].curfunc
  <2>1. go[r].addr \in go[r].addr..n
    BY <1>1
  <2>2. QED
    BY <1>3, <1>6, <2>1 DEF Chain
<1>8. \A i, j \in go[r].addr + 1..n : i < j =>
        addr'[i].operands <= addr'[j].operands /\ addr'[i].scopes <= addr'[j].scopes
  <2>1. \A i \in go[r].addr + 1..n : i \in 1..n
    BY <1>1, SMTT(30)
  <2>2. QED
    BY <2>1 DEF Chain
<1>9. QED
  BY <1>4, <1>5, <1>6, <1>7, <1>8 DEF Chain

\* What the callers have on the stacks lies below what they called.
LEMMA ChainBelow ==
    ASSUME go \in Seq(FrameType), addr \in Seq(AddressType),
           Len(data) \in Nat, Len(linear) \in Nat,
           NEW r \in DOMAIN go, NEW n, NEW c, NEW at, NEW d, NEW l, NEW v,
           Chain(r, n, c), Stands(c, at, n, r, d, l, v)
    PROVE  /\ d \in 0..Len(data) /\ l \in 0..Len(linear)
           /\ OperandBase(c, n, r) \in 0..d /\ ScopeBase(c, n, r) \in 0..l
           /\ \A j \in go[r].addr + 1..n :
                 /\ addr[j].operands <= OperandBase(c, n, r)
                 /\ addr[j].scopes <= ScopeBase(c, n, r)
<1>1. PICK w \in Loaded(c) : \E x \in Reached[w[1]] : StandsAt(w, x, c, at, n, r, d, l, v)
  BY DEF Stands
<1>2. PICK x \in Reached[w[1]] : StandsAt(w, x, c, at, n, r, d, l, v)
  BY <1>1
<1>3. /\ d \in 0..Len(data) /\ l \in 0..Len(linear)
      /\ OperandBase(c, n, r) \in 0..d /\ ScopeBase(c, n, r) \in 0..l
  BY <1>2 DEF StandsAt, Holds
<1>4. go[r].addr \in Nat /\ n \in go[r].addr..Len(addr) /\ Len(addr) \in Nat
  <2>1. go[r].addr \in Nat
    BY FrameFields
  <2>2. QED
    BY <2>1 DEF Chain
<1>5. ASSUME NEW j \in go[r].addr + 1..n
      PROVE  /\ addr[j].operands <= OperandBase(c, n, r)
             /\ addr[j].scopes <= ScopeBase(c, n, r)
  <2>1. n \in go[r].addr + 1..n /\ n \in 1..Len(addr) /\ j \in 1..Len(addr)
    BY <1>4
  <2>2. c[1] = "func"
    BY <2>1 DEF Chain, Callee
  <2>3. OperandBase(c, n, r) = addr[n].operands /\ ScopeBase(c, n, r) = addr[n].scopes
    BY <2>2 DEF OperandBase, ScopeBase, Owns
  <2>4. j = n \/ j < n
    BY <1>4
  <2>5. addr[n].operands \in Nat /\ addr[n].scopes \in Nat
    BY <2>1, EntryFields
  <2>6. QED
    BY <2>1, <2>3, <2>4, <2>5 DEF Chain
<1>6. QED
  BY <1>3, <1>5

\* Code that stands where it stood, and its callers.
LEMMA WaitingKept ==
    ASSUME go \in Seq(FrameType), addr \in Seq(AddressType), addr' \in Seq(AddressType),
           Len(data) \in Nat, Len(data') \in Nat, Len(linear) \in Nat, Len(linear') \in Nat,
           main' = main, NEW r \in DOMAIN go, go'[r] = go[r],
           IF r = 1 THEN ~Owns(go[r].curfunc) ELSE go'[r - 1] = go[r - 1],
           NEW n, NEW c, NEW at, NEW d, NEW l, NEW v,
           Chain(r, n, c), Stands(c, at, n, r, d, l, v),
           n <= Len(addr'), \A i \in 1..n : addr'[i] = addr[i],
           d <= Len(data'), \A i \in 1..d : data'[i] = data[i],
           l <= Len(linear'), \A i \in 1..l : linear'[i] = linear[i]
    PROVE  Chain(r, n, c)' /\ Stands(c, at, n, r, d, l, v)'
<1>1. /\ d \in 0..Len(data) /\ l \in 0..Len(linear)
      /\ OperandBase(c, n, r) \in 0..d /\ ScopeBase(c, n, r) \in 0..l
      /\ \A j \in go[r].addr + 1..n :
            /\ addr[j].operands <= OperandBase(c, n, r)
            /\ addr[j].scopes <= ScopeBase(c, n, r)
  BY ChainBelow
<1>2. go[r].addr \in Nat /\ n \in go[r].addr..Len(addr) /\ Len(addr) \in Nat
  <2>1. go[r].addr \in Nat
    BY FrameFields
  <2>2. QED
    BY <2>1 DEF Chain
<1>3. \A j \in go[r].addr + 1..n : addr[j].operands <= d /\ addr[j].scopes <= l
  <2>1. \A j \in go[r].addr + 1..n : j \in 1..Len(addr)
    BY <1>2
  <2>2. ASSUME NEW j \in go[r].addr + 1..n PROVE addr[j].operands \in Nat /\ addr[j].scopes \in Nat
    BY <2>1, EntryFields
  <2>3. QED
    BY <1>1, <2>2, SMTT(30)
<1>4. Chain(r, n, c)'
  <2>1. d \in Nat /\ l \in Nat
    BY <1>1
  <2>2. QED
    BY <1>3, <2>1, ChainKept
<1>5. Owns(c) => addr'[n] = addr[n]
  <2>1. CASE n = 0
    <3>1. go[r].addr = 0
      BY <1>2, <2>1
    <3>2. c = go[r].curfunc
      BY <2>1, <3>1 DEF Chain, Callee
    <3>3. QED
      BY <3>1, <3>2 DEF Chain
  <2>2. CASE n # 0
    BY <1>2, <2>2, SMTT(30)
  <2>3. QED
    BY <2>1, <2>2
<1>6. Stands(c, at, n, r, d, l, v)'
  BY <1>5, StandsKept
<1>7. QED
  BY <1>4, <1>6

SameFrame(a, b) ==
    /\ b.kind = a.kind /\ b.f = a.f /\ b.base = a.base /\ b.curfunc = a.curfunc /\ b.pc = a.pc
    /\ b.addr = a.addr /\ b.linear = a.linear /\ (a.kind # "call" => b.data = a.data)

\* A Go function in progress finds its entry on the address stack, and its
\* operands, as long as both stay.
LEMMA UserEntryKept ==
    ASSUME NEW r, NEW n, NEW l, UserEntry(r, n, l), go'[r] = go[r], addr'[n] = addr[n],
           n <= Len(addr'), l <= Len(linear'),
           go[r].data \in Nat, go[r].i \in Nat, NEW d, d = go[r].data + go[r].i,
           d <= Len(data'), \A i \in 1..d : data'[i] = data[i]
    PROVE  UserEntry(r, n, l)'
<1>1. \A i \in 1..go[r].i : go[r].data + i \in 1..d
  BY SMTT(30)
<1>2. QED
  BY <1>1 DEF UserEntry

\* What activation k has recorded stays true while the stacks are left alone
\* up to the sizes that k goes back to.
LEMMA RecordedKept ==
    ASSUME go \in Seq(FrameType), addr \in Seq(AddressType), addr' \in Seq(AddressType),
           Len(data) \in Nat, Len(data') \in Nat, Len(linear) \in Nat, Len(linear') \in Nat,
           main' = main, Lowest, NEW k \in 2..Len(go), Shape(k), Shape(k - 1), Recorded(k),
           \A j \in 1..k - 1 : go'[j] = go[j], SameFrame(go[k], go'[k]),
           Depth(k) \in Nat, Depth(k) <= Len(data'), \A i \in 1..Depth(k) : data'[i] = data[i],
           go[k].kind # "run" =>
             /\ go[k].addr <= Len(addr') /\ \A i \in 1..go[k].addr : addr'[i] = addr[i]
             /\ go[k].linear <= Len(linear') /\ \A i \in 1..go[k].linear : linear'[i] = linear[i]
    PROVE  Recorded(k)'
<1>1. /\ k \in DOMAIN go /\ k - 1 \in DOMAIN go /\ k - 1 \in 1..k - 1 /\ k # 1 /\ k \in Nat
      /\ go'[k - 1] = go[k - 1]
  BY SMTT(30)
<1>2. Upon(k)' = Upon(k)
  BY <1>1 DEF Upon
<1>3. /\ go[k].addr \in Nat /\ go[k].linear \in Nat /\ go[k].data \in Nat
      /\ go[k].kind \in {"run", "call", "user", "apply", "eval", "source"}
  BY <1>1, FrameFields
<1>4. CASE go[k].kind = "run"
  <2>1. RunOn(k)
    BY <1>4 DEF Recorded
  <2>2. Depth(k) = Upon(k).data
    BY <1>1, <1>4 DEF Depth
  <2>3. Upon(k).kind = "call" =>
          Upon(k).data <= Len(data') /\ \A i \in Upon(k).base + 1..Upon(k).data : data'[i] = Value
    <3>1. SUFFICES ASSUME Upon(k).kind = "call"
                   PROVE  /\ Upon(k).data <= Len(data')
                          /\ \A i \in Upon(k).base + 1..Upon(k).data : data'[i] = Value
      OBVIOUS
    <3>2. Upon(k).base >= 0 /\ Upon(k).base \in Int
      <4>1. k - 1 # 1
        BY <3>1 DEF Lowest, Upon
      <4>2. Shape(k - 1)
        BY <1>1
      <4>3. go[k - 1].base \in Int
        BY <1>1, FrameFields
      <4>4. QED
        BY <3>1, <4>2, <4>3 DEF Shape, Upon
    <3>3. \A i \in Upon(k).base + 1..Upon(k).data : i \in 1..Depth(k)
      BY <2>2, <3>2
    <3>4. QED
      BY <2>1, <2>2, <3>1, <3>3 DEF RunOn
  <2>4. RunOn(k)'
    BY <1>2, <1>4, <2>1, <2>3 DEF RunOn, SameFrame, Entered
  <2>5. QED
    BY <1>4, <2>4 DEF Recorded, SameFrame
<1>5. CASE go[k].kind \in {"call", "user"}
  <2>1. Depth(k)' = Depth(k) /\ go'[k].kind = go[k].kind
    BY <1>5 DEF Depth, SameFrame
  <2>3. PICK n, c, at, v, d, l :
          /\ n = go[k].addr /\ c = go[k].curfunc /\ at = go[k].pc + 1
          /\ v = IF go[k].kind = "call" THEN Len(Answer(go[k].f)) ELSE 1
          /\ d = Depth(k) /\ l = go[k].linear
    OBVIOUS
  <2>2. Chain(k - 1, n, c) /\ Stands(c, at, n, k - 1, d, l, v)
    BY <1>5, <2>3 DEF Recorded, CallOn
  <2>4. IF k - 1 = 1 THEN ~Owns(go[k - 1].curfunc) ELSE go'[k - 1 - 1] = go[k - 1 - 1]
    <3>1. k - 1 = 1 => ~Owns(go[k - 1].curfunc)
      BY DEF Lowest, Owns, MainFunc
    <3>2. k - 1 # 1 => k - 1 - 1 \in 1..k - 1
      OBVIOUS
    <3>3. QED
      BY <3>1, <3>2
  <2>5. /\ d <= Len(data') /\ \A i \in 1..d : data'[i] = data[i]
        /\ l <= Len(linear') /\ \A i \in 1..l : linear'[i] = linear[i]
        /\ n <= Len(addr') /\ \A i \in 1..n : addr'[i] = addr[i]
    BY <1>5, <2>3
  <2>6. Chain(k - 1, n, c)' /\ Stands(c, at, n, k - 1, d, l, v)'
    BY <1>1, <2>2, <2>4, <2>5, WaitingKept
  <2>7. CallOn(k)'
    BY <2>1, <2>3, <2>6 DEF CallOn, SameFrame
  <2>8. QED
    BY <1>5, <2>1, <2>7 DEF Recorded
<1>6. CASE go[k].kind \in {"apply", "eval", "source"}
  <2>1. Depth(k) = go[k].data
    BY <1>6 DEF Depth
  <2>2. CallbackOn(k)
    BY <1>6 DEF Recorded
  <2>3. go[k - 1].data \in Nat /\ go[k - 1].i \in Nat /\ go[k - 1].addr \in Nat
    BY <1>1, FrameFields
  <2>4. UserEntry(k - 1, go[k].addr, go[k].linear)'
    <3>1. go[k].addr \in 1..go[k].addr /\ addr'[go[k].addr] = addr[go[k].addr]
      <4>1. go[k].addr = go[k - 1].addr + 1
        BY <2>2 DEF CallbackOn, UserEntry
      <4>2. go[k].addr \in Nat /\ go[k - 1].addr \in Nat
        BY <1>3, <2>3
      <4>3. \A i \in Nat : i + 1 \in 1..i + 1
        OBVIOUS
      <4>4. go[k].addr \in 1..go[k].addr
        BY <4>1, <4>2, <4>3
      <4>5. QED
        BY <1>6, <4>4
    <3>2. go[k - 1].data + go[k - 1].i = go[k].data
      BY <2>2 DEF CallbackOn, Upon
    <3>4. PICK n, l, d : n = go[k].addr /\ l = go[k].linear /\ d = go[k].data
      OBVIOUS
    <3>5. /\ go'[k - 1] = go[k - 1] /\ addr'[n] = addr[n] /\ n <= Len(addr') /\ l <= Len(linear')
          /\ d <= Len(data') /\ \A i \in 1..d : data'[i] = data[i]
      BY <1>1, <1>6, <2>1, <3>1, <3>4
    <3>6. UserEntry(k - 1, n, l)
      BY <2>2, <3>4 DEF CallbackOn
    <3>7. UserEntry(k - 1, n, l)'
      BY <2>3, <3>2, <3>4, <3>5, <3>6, UserEntryKept
    <3>8. go'[k].addr = n /\ go'[k].linear = l
      BY <3>4 DEF SameFrame
    <3>9. QED
      BY <3>7, <3>8
  <2>5. CallbackOn(k)'
    BY <1>2, <1>6, <2>2, <2>4 DEF CallbackOn, SameFrame
  <2>6. QED
    BY <1>6, <2>5 DEF Recorded, SameFrame
<1>7. QED
  BY <1>3, <1>4, <1>5, <1>6
-----------------------------------------------------------------------------
(* What the invariant says, taken apart *)

\* The types of the machine's state, as the invariant has them.
LEMMA Types ==
    ASSUME IInv
    PROVE  /\ main \in Seq(Instruction) /\ curfunc \in Fn /\ pc \in Int
           /\ addr \in Seq(AddressType) /\ Len(addr) \in Nat
           /\ linear \in Seq({"global", Hole} \cup Scope) /\ Len(linear) \in Nat
           /\ Len(linear) > 0 /\ linear[1] = "global"
           /\ data \in Seq(Slot) /\ Len(data) \in Nat
           /\ go \in Seq(FrameType) /\ Len(go) \in Nat
<1>1. Typed
  BY DEF IInv
<1>2. QED
  BY <1>1 DEF Typed

\* The activation that runs.
LEMMA TopFacts ==
    ASSUME IInv, go # <<>>, NEW K, K = Len(go)
    PROVE  /\ K \in Nat /\ K > 0 /\ K \in DOMAIN go /\ K \in 1..Len(go) /\ Top = go[K]
           /\ Below \in Seq(FrameType) /\ Len(Below) = K - 1
           /\ \A j \in 1..K - 1 : Below[j] = go[j]
           /\ Lowest /\ Nested /\ \A k \in 1..Len(go) : Shape(k)
<1>1. go \in Seq(FrameType) /\ Lowest /\ Nested /\ \A k \in DOMAIN go : Shape(k)
  BY Types DEF IInv
<1>2. K \in Nat /\ K > 0 /\ DOMAIN go = 1..Len(go)
  BY <1>1
<1>3. Below \in Seq(FrameType) /\ Len(Below) = K - 1 /\ \A j \in 1..K - 1 : Below[j] = go[j]
  BY <1>1, <1>2 DEF Below, Front
<1>4. QED
  BY <1>1, <1>2, <1>3 DEF Top, Last

\* What the activations under another captured is no more than it goes back to.
LEMMA Beneath ==
    ASSUME IInv, NEW m \in DOMAIN go
    PROVE  /\ Depth(m) \in Nat
           /\ \A k \in 1..m : Depth(k) \in Nat /\ Depth(k) <= go[k].data /\ Depth(k) <= Depth(m)
           /\ \A k \in 1..m : go[k].addr <= go[m].addr /\ go[k].linear <= go[m].linear
<1>1. go \in Seq(FrameType) /\ Lowest /\ Nested /\ \A k \in DOMAIN go : Shape(k)
  <2>1. go # <<>>
    OBVIOUS
  <2>2. QED
    BY <2>1, Types DEF IInv
<1>2. m \in Nat /\ m > 0 /\ DOMAIN go = 1..Len(go) /\ Len(go) \in Nat /\ m <= Len(go)
  BY <1>1
<1>3. ASSUME NEW k \in 1..m PROVE k \in DOMAIN go
  BY <1>2
<1>4. ASSUME NEW k \in 1..m
      PROVE  Depth(k) \in Nat /\ Depth(k) <= go[k].data
  <2>1. go[k].data \in Nat /\ go[k].base \in Int /\ k \in Nat /\ k > 0
    BY <1>1, <1>3, FrameFields
  <2>2. Shape(k)
    BY <1>1, <1>3
  <2>3. CASE go[k].kind = "run"
    <3>1. CASE k = 1
      BY <2>1, <2>3, <3>1 DEF Depth
    <3>2. CASE k # 1
      <4>1. k - 1 \in DOMAIN go /\ k > 1
        BY <1>2, <1>3, <2>1, <3>2
      <4>2. go[k - 1].data \in Nat
        BY <1>1, <4>1, FrameFields
      <4>3. Depth(k) = go[k - 1].data /\ go[k - 1].data <= go[k].data
        BY <2>2, <2>3, <3>2, <4>1 DEF Depth, Shape, Upon
      <4>4. QED
        BY <4>2, <4>3
    <3>3. QED
      BY <3>1, <3>2
  <2>4. CASE go[k].kind = "call"
    BY <2>1, <2>2, <2>4 DEF Depth, Shape
  <2>5. CASE go[k].kind \notin {"run", "call"}
    BY <2>1, <2>5 DEF Depth
  <2>6. QED
    BY <2>3, <2>4, <2>5
<1>6. m \in 1..m
  BY <1>2
<1>7. Depth(m) \in Nat
  BY <1>4, <1>6
<1>8. ASSUME NEW k \in 1..m PROVE Depth(k) <= Depth(m)
  <2>1. Depth(k) \in Nat /\ k \in Nat /\ k <= m /\ k >= 1
    BY <1>2, <1>4
  <2>2. CASE k = m
    BY <1>7, <2>2
  <2>3. CASE k < m /\ go[k].kind # "run"
    <3>1. go[k].data <= Depth(m)
      BY <1>1, <1>3, <2>3 DEF Nested
    <3>2. go[k].data \in Nat /\ Depth(k) <= go[k].data
      BY <1>1, <1>3, <1>4, FrameFields
    <3>3. QED
      BY <1>7, <2>1, <3>1, <3>2
  <2>4. CASE k < m /\ go[k].kind = "run"
    <3>1. CASE k = 1
      BY <1>7, <2>4, <3>1 DEF Depth
    <3>2. CASE k # 1
      <4>1. k - 1 \in DOMAIN go /\ k - 1 < m /\ k > 1
        BY <1>2, <2>1, <2>4, <3>2
      <4>2. Shape(k) /\ go[k - 1].kind # "run"
        <5>1. Shape(k)
          BY <1>1, <1>3
        <5>2. QED
          BY <2>4, <4>1, <5>1 DEF Shape, Upon
      <4>3. Depth(k) = go[k - 1].data /\ go[k - 1].data <= Depth(m)
        BY <1>1, <2>4, <3>2, <4>1, <4>2 DEF Nested, Depth, Upon
      <4>4. QED
        BY <4>3
    <3>3. QED
      BY <3>1, <3>2
  <2>5. QED
    BY <1>2, <2>1, <2>2, <2>3, <2>4
<1>9. ASSUME NEW k \in 1..m
      PROVE  go[k].addr <= go[m].addr /\ go[k].linear <= go[m].linear
  <2>1. CASE k = m
    BY <1>1, <2>1, FrameFields
  <2>2. CASE k < m
    BY <1>1, <1>3, <2>2 DEF Nested
  <2>3. QED
    BY <1>2, <2>1, <2>2
<1>10. QED
  BY <1>4, <1>7, <1>8, <1>9

\* All that activations up to m have recorded stays true while the stacks are
\* left alone up to d, a and l.
LEMMA LowerKept ==
    ASSUME IInv, NEW m \in DOMAIN go, \A k \in 2..m : Recorded(k),
           addr' \in Seq(AddressType), Len(data') \in Nat, Len(linear') \in Nat,
           main' = main, \A j \in 1..m - 1 : go'[j] = go[j], SameFrame(go[m], go'[m]),
           NEW d \in Nat, NEW a \in Nat, NEW l \in Nat, Depth(m) <= d,
           go[m].kind # "run" => go[m].addr <= a /\ go[m].linear <= l,
           go[m].kind = "run" /\ m > 1 => go[m - 1].addr <= a /\ go[m - 1].linear <= l,
           d <= Len(data'), \A i \in 1..d : data'[i] = data[i],
           a <= Len(addr'), \A i \in 1..a : addr'[i] = addr[i],
           l <= Len(linear'), \A i \in 1..l : linear'[i] = linear[i]
    PROVE  \A k \in 2..m : Recorded(k)'
<1>1. /\ addr \in Seq(AddressType) /\ Len(linear) \in Nat /\ Len(data) \in Nat
      /\ go \in Seq(FrameType) /\ Len(go) \in Nat
  BY Types
<1>2. Lowest /\ \A k \in 1..Len(go) : Shape(k)
  <2>1. go # <<>>
    OBVIOUS
  <2>2. QED
    BY <2>1, TopFacts
<1>3. m \in Nat /\ m > 0 /\ m <= Len(go)
  BY <1>1
<1>4. SUFFICES ASSUME NEW k \in 2..m PROVE Recorded(k)'
  OBVIOUS
<1>5. /\ k \in 1..m /\ k \in 2..Len(go) /\ k \in DOMAIN go /\ \A j \in 1..k - 1 : j \in 1..m - 1
      /\ k \in Nat
  BY <1>1, <1>3, SMTT(30)
<1>6. \A j \in 1..k - 1 : go'[j] = go[j]
  BY <1>5
<1>7. SameFrame(go[k], go'[k])
  <2>1. CASE k = m
    BY <2>1
  <2>2. CASE k # m
    <3>1. k \in 1..m - 1
      BY <1>3, <2>2
    <3>2. QED
      BY <3>1 DEF SameFrame
  <2>3. QED
    BY <2>1, <2>2
<1>8. /\ Depth(k) \in 0..d
      /\ go[k].kind # "run" => go[k].addr \in 0..a /\ go[k].linear \in 0..l
  <2>1. go[k].addr \in Nat /\ go[k].linear \in Nat
    BY <1>1, <1>5, FrameFields
  <2>2. Depth(k) \in Nat
    BY <1>5, Beneath
  <2>3. Depth(m) \in Nat /\ Depth(k) <= Depth(m)
    BY <1>5, Beneath
  <2>4. ASSUME go[k].kind # "run" PROVE go[k].addr <= a /\ go[k].linear <= l
    <3>1. CASE go[m].kind # "run"
      <4>1. go[k].addr <= go[m].addr /\ go[k].linear <= go[m].linear
        BY <1>5, Beneath
      <4>2. go[m].addr \in Nat /\ go[m].linear \in Nat
        BY <1>1, FrameFields
      <4>3. QED
        BY <2>1, <3>1, <4>1, <4>2, SMTT(30)
    <3>2. CASE go[m].kind = "run"
      <4>1. k # m
        BY <2>4, <3>2
      <4>2. k \in 1..m - 1 /\ m - 1 \in DOMAIN go /\ m > 1
        BY <1>1, <1>3, <1>5, <4>1, SMTT(30)
      <4>3. go[k].addr <= go[m - 1].addr /\ go[k].linear <= go[m - 1].linear
        BY <4>2, Beneath
      <4>4. go[m - 1].addr \in Nat /\ go[m - 1].linear \in Nat
        BY <1>1, <4>2, FrameFields
      <4>5. QED
        BY <2>1, <3>2, <4>2, <4>3, <4>4, SMTT(30)
    <3>3. QED
      BY <3>1, <3>2
  <2>5. QED
    BY <2>1, <2>2, <2>3, <2>4
<1>9. /\ Depth(k) <= Len(data') /\ \A i \in 1..Depth(k) : data'[i] = data[i]
      /\ go[k].kind # "run" =>
           /\ go[k].addr <= Len(addr') /\ \A i \in 1..go[k].addr : addr'[i] = addr[i]
           /\ go[k].linear <= Len(linear') /\ \A i \in 1..go[k].linear : linear'[i] = linear[i]
  <2>1. Depth(k) <= Len(data') /\ \A i \in 1..Depth(k) : data'[i] = data[i]
    <3>1. Depth(k) \in 0..d
      BY <1>8
    <3>2. \A i \in 1..Depth(k) : i \in 1..d
      BY <3>1
    <3>3. QED
      BY <3>1, <3>2
  <2>2. ASSUME go[k].kind # "run"
        PROVE  /\ go[k].addr <= Len(addr') /\ \A i \in 1..go[k].addr : addr'[i] = addr[i]
               /\ go[k].linear <= Len(linear') /\ \A i \in 1..go[k].linear : linear'[i] = linear[i]
    <3>1. go[k].addr \in 0..a /\ go[k].linear \in 0..l
      BY <1>8, <2>2
    <3>2. (\A i \in 1..go[k].addr : i \in 1..a) /\ (\A i \in 1..go[k].linear : i \in 1..l)
      BY <3>1, SMTT(30)
    <3>3. Len(addr') \in Nat
      OBVIOUS
    <3>4. go[k].addr <= Len(addr') /\ go[k].linear <= Len(linear')
      BY <3>1, <3>3, SMTT(30)
    <3>5. QED
      BY <3>2, <3>4
  <2>3. QED
    BY <2>1, <2>2
<1>10. Shape(k) /\ Shape(k - 1) /\ Recorded(k) /\ Depth(k) \in Nat
  <2>1. k \in 1..Len(go) /\ k - 1 \in 1..Len(go)
    BY <1>1, <1>3
  <2>2. Depth(k) \in Nat
    BY <1>5, Beneath
  <2>3. QED
    BY <1>2, <2>1, <2>2
<1>11. k \in 2..Len(go)
  BY <1>5
<1>12. QED
  BY <1>1, <1>2, <1>6, <1>7, <1>9, <1>10, <1>11, RecordedKept
-----------------------------------------------------------------------------
(* Run executing code *)

\* As long as Run has instructions to execute, the code is where it should be.
LEMMA RunningInCode ==
    ASSUME IInv, Running, NEW K, K = Len(go)
    PROVE  InCode(K) /\ ret = "none" /\ go # <<>> /\ go[K].kind = "run"
<1>1. At("run", "none") /\ pc # -1 /\ ~ReachedEnd
  BY DEF Running
<1>2. ret = "none" /\ go # <<>> /\ go[K].kind = "run"
  BY <1>1, TopFacts DEF At
<1>3. InOrder
  <2>1. ~Short
    BY <1>2, TopFacts DEF Short
  <2>2. QED
    BY <1>2, <2>1 DEF IInv, Steady
<1>4. TopRun(K)
  BY <1>2, <1>3 DEF InOrder, Runs
<1>5. ASSUME Finished(K) PROVE FALSE
  <2>1. K > 1 /\ curfunc = Upon(K).curfunc /\ pc = ReturnsTo(Upon(K))
    BY <1>5 DEF Finished
  <2>2. Upon(K).kind = "eval"
    BY <1>1, <2>1 DEF ReturnsTo
  <2>3. K - 1 \in 2..Len(go) /\ K - 1 \in 1..Len(go)
    <3>1. K - 1 \in 1..Len(go)
      BY <1>2, <2>1, TopFacts
    <3>2. Shape(K - 1)
      BY <1>2, <3>1, TopFacts
    <3>3. K - 1 > 1
      BY <2>2, <3>2 DEF Shape, Upon
    <3>4. QED
      BY <3>1, <3>3
  <2>4. CallbackOn(K - 1)
    BY <1>3, <2>2, <2>3 DEF InOrder, Recorded, Upon
  <2>5. curfunc[1] = "go" /\ pc = 0
    BY <2>1, <2>2, <2>4 DEF CallbackOn, Upon, ReturnsTo, Go
  <2>6. QED
    BY <1>1, <2>5 DEF ReachedEnd, Body
<1>6. QED
  BY <1>2, <1>4, <1>5 DEF TopRun

\* Where code runs or waits, its operands and scopes lie above those of all
\* that called it.
LEMMA WaitingAbove ==
    ASSUME IInv, NEW r \in DOMAIN go, go[r].kind = "run", \A k \in 2..r : Recorded(k),
           NEW n, NEW c, NEW at, NEW d, NEW l, NEW v, Chain(r, n, c), Stands(c, at, n, r, d, l, v),
           NEW b, NEW s, b = OperandBase(c, n, r), s = ScopeBase(c, n, r)
    PROVE  /\ go[r].addr \in 0..n /\ n \in 0..Len(addr)
           /\ Depth(r) \in 0..b /\ b \in 0..d /\ d \in 0..Len(data)
           /\ go[r].linear \in 1..s /\ s \in 1..l /\ l \in 1..Len(linear)
           /\ r > 1 => go[r - 1].addr <= n /\ go[r - 1].linear <= s
           /\ Owns(c) => n > 0
           /\ \A j \in go[r].addr + 1..n : addr[j].operands <= b /\ addr[j].scopes <= s
<1>4. Chain(r, n, c) /\ Stands(c, at, n, r, d, l, v)
  OBVIOUS
<1>5. /\ r \in DOMAIN go /\ r \in Nat /\ r > 0 /\ Lowest /\ r \in 1..Len(go)
      /\ Nested /\ \A k \in 1..Len(go) : Shape(k)
  <2>1. go # <<>> /\ go \in Seq(FrameType)
    BY Types
  <2>2. QED
    BY <2>1, TopFacts
<1>6. /\ addr \in Seq(AddressType) /\ Len(linear) \in Nat /\ Len(data) \in Nat
      /\ go \in Seq(FrameType) /\ Len(go) \in Nat /\ Len(addr) \in Nat
  BY Types
<1>3. n \in go[r].addr..Len(addr)
  BY DEF Chain
<1>7. /\ b \in 0..d /\ s \in 0..l /\ d \in 0..Len(data) /\ l \in 0..Len(linear)
      /\ \A j \in go[r].addr + 1..n : addr[j].operands <= b /\ addr[j].scopes <= s
  BY <1>4, <1>5, <1>6, ChainBelow
<1>8. /\ go[r].addr \in Nat /\ go[r].linear \in Nat /\ go[r].data \in Nat
      /\ go[r].addr <= n /\ n \in Nat /\ n \in 0..Len(addr)
  <2>1. go[r].addr \in Nat /\ go[r].linear \in Nat /\ go[r].data \in Nat
    BY <1>5, <1>6, FrameFields
  <2>2. QED
    BY <1>3, <1>6, <2>1
<1>9. go[r].linear > 0
  BY <1>5, TopFacts DEF Nested
<1>10. Depth(r) \in Nat
  BY <1>5, Beneath
<1>11. r > 1 => /\ RunOn(r) /\ r - 1 \in DOMAIN go
                /\ Depth(r) = go[r - 1].data /\ go[r - 1].data \in Nat /\ go[r - 1].linear \in Nat
  <2>1. SUFFICES ASSUME r > 1
                 PROVE  /\ RunOn(r) /\ r - 1 \in DOMAIN go
                        /\ Depth(r) = go[r - 1].data /\ go[r - 1].data \in Nat
                        /\ go[r - 1].linear \in Nat
    OBVIOUS
  <2>2. r \in 2..r /\ r - 1 \in DOMAIN go
    BY <1>5, <1>6, <2>1
  <2>3. QED
    <3>1. RunOn(r) /\ Depth(r) = go[r - 1].data
      BY <2>1, <2>2 DEF Recorded, Depth, Upon
    <3>2. QED
      BY <1>6, <2>2, <3>1, FrameFields
<1>12. r = 1 => Depth(r) = 0
  BY DEF Depth
<1>13. Depth(r) <= go[r].data
  <2>1. CASE r = 1
    BY <1>8, <1>12, <2>1
  <2>2. CASE r > 1
    <3>1. go[r].data = go[r - 1].data + (IF go[r - 1].kind = "apply" THEN Params(go[r - 1].f) ELSE 0)
      BY <1>11, <2>2 DEF RunOn, Upon
    <3>2. CASE go[r - 1].kind = "apply"
      <4>1. r - 1 \in 1..Len(go)
        BY <1>5, <2>2
      <4>2. Shape(r - 1)
        BY <4>1, TopFacts
      <4>3. go[r - 1].f \in Function
        BY <3>2, <4>2 DEF Shape
      <4>4. Params(go[r - 1].f) \in Nat
        BY <4>3, NamesAssumption DEF Params
      <4>5. QED
        BY <1>11, <2>2, <3>1, <3>2, <4>4
    <3>3. CASE go[r - 1].kind # "apply"
      BY <1>11, <2>2, <3>1, <3>3
    <3>4. QED
      BY <3>2, <3>3
  <2>3. QED
    BY <1>5, <2>1, <2>2
<1>14. ASSUME Owns(c) PROVE Depth(r) <= b /\ go[r].linear <= s /\ n > 0
  <2>1. b = addr[n].operands /\ s = addr[n].scopes
    BY <1>3, <1>14 DEF OperandBase, ScopeBase
  <2>2. CASE n = go[r].addr
    <3>1. c = go[r].curfunc
      BY <1>4, <2>2 DEF Chain, Callee
    <3>2. go[r].addr > 0 /\ addr[go[r].addr] = EntryOf(Upon(r))
      BY <1>4, <1>14, <3>1 DEF Chain
    <3>3. r > 1
      BY <1>5, <1>14, <3>1 DEF Lowest, Owns, MainFunc
    <3>4. b = go[r - 1].data /\ s = go[r - 1].linear
      BY <2>1, <2>2, <3>2 DEF EntryOf, Upon
    <3>5. go[r].linear = go[r - 1].linear
      BY <1>11, <3>3 DEF RunOn, Upon
    <3>6. QED
      BY <1>8, <1>11, <2>2, <3>2, <3>3, <3>4, <3>5
  <2>3. CASE n # go[r].addr
    <3>1. n \in go[r].addr + 1..n /\ n > 0
      BY <1>6, <1>8, <2>3
    <3>2. addr[n].operands >= Depth(r) /\ addr[n].scopes >= go[r].linear
      BY <1>4, <3>1 DEF Chain
    <3>3. QED
      BY <1>7, <1>8, <1>10, <2>1, <3>1, <3>2
  <2>4. QED
    BY <2>2, <2>3
<1>15. ASSUME ~Owns(c) PROVE Depth(r) <= b /\ go[r].linear <= s
  BY <1>3, <1>8, <1>13, <1>15 DEF OperandBase, ScopeBase
<1>16. Depth(r) \in 0..b /\ go[r].linear \in 1..s /\ s \in 1..l /\ l \in 1..Len(linear)
  BY <1>7, <1>8, <1>9, <1>10, <1>14, <1>15
<1>17. r > 1 => go[r - 1].addr <= n /\ go[r - 1].linear <= s
  <2>1. SUFFICES ASSUME r > 1 PROVE go[r - 1].addr <= n /\ go[r - 1].linear <= s
    OBVIOUS
  <2>2. r - 1 \in 1..r /\ r - 1 \in DOMAIN go
    BY <1>5, <1>11, <2>1
  <2>3. go[r - 1].addr <= go[r].addr /\ go[r - 1].linear <= go[r].linear
    BY <1>5, <2>2, Beneath
  <2>4. go[r - 1].addr \in Nat /\ go[r - 1].linear \in Nat
    BY <1>6, <2>2, FrameFields
  <2>5. /\ s \in Nat /\ n \in Nat /\ go[r].addr \in Nat /\ go[r].linear \in Nat
        /\ go[r].addr <= n /\ go[r].linear <= s
    BY <1>7, <1>8, <1>16
  <2>6. QED
    BY <2>3, <2>4, <2>5
<1>18. QED
  BY <1>7, <1>8, <1>14, <1>16, <1>17

\* The code that runs has its operands and scopes above what is recorded, in
\* this order: what the activation below leaves alone, the base of the code,
\* the stack's end.
LEMMA CodeAbove ==
    ASSUME IInv, go # <<>>, NEW K, K = Len(go), go[K].kind = "run", ret = "none", InCode(K)
    PROVE  /\ \A k \in 2..K : Recorded(k)
           /\ \A i \in DOMAIN data : data[i] # Hole
           /\ go[K].addr \in 0..Len(addr)
           /\ Depth(K) \in 0..OperandBase(curfunc, Len(addr), K)
           /\ OperandBase(curfunc, Len(addr), K) \in 0..Len(data)
           /\ go[K].linear \in 1..ScopeBase(curfunc, Len(addr), K)
           /\ ScopeBase(curfunc, Len(addr), K) \in 1..Len(linear)
           /\ K > 1 => go[K - 1].addr <= Len(addr)
                       /\ go[K - 1].linear <= ScopeBase(curfunc, Len(addr), K)
           /\ Owns(curfunc) => Len(addr) > 0
<1>1. InOrder
  <2>1. ~Short
    BY TopFacts DEF Short
  <2>2. QED
    BY <2>1 DEF IInv, Steady
<1>2. (\A k \in 2..K : Recorded(k)) /\ (\A i \in DOMAIN data : data[i] # Hole)
  BY <1>1 DEF InOrder
<1>3. PICK n, b, s, c, d, l, at :
        /\ n = Len(addr) /\ c = curfunc /\ d = Len(data) /\ l = Len(linear) /\ at = pc
        /\ b = OperandBase(c, n, K) /\ s = ScopeBase(c, n, K)
  OBVIOUS
<1>4. Chain(K, n, c) /\ Stands(c, at, n, K, d, l, 0)
  BY <1>3 DEF InCode
<1>5. K \in DOMAIN go
  BY TopFacts
<1>6. /\ go[K].addr \in 0..n
      /\ Depth(K) \in 0..b /\ b \in 0..d
      /\ go[K].linear \in 1..s /\ s \in 1..l
      /\ K > 1 => go[K - 1].addr <= n /\ go[K - 1].linear <= s
      /\ Owns(c) => n > 0
  <2>1. b = OperandBase(c, n, K) /\ s = ScopeBase(c, n, K) /\ \A k \in 2..K : Recorded(k)
    BY <1>2, <1>3
  <2>2. QED
    BY <1>4, <1>5, <2>1, WaitingAbove, SMTT(40)
<1>7. QED
  BY <1>2, <1>3, <1>6

\* The code that has been loaded lies in the body that is run.
LEMMA LoadedCode ==
    ASSUME main \in Seq(Instruction), NEW fn \in Fn, NEW w \in Loaded(fn)
    PROVE  /\ w[1] \in Proper /\ w[1] \in Name /\ w[2] \in Nat
           /\ Code[w[1]] \in Seq(Instruction) /\ Len(Code[w[1]]) \in Nat
           /\ Len(Body(fn)) = w[2] + Len(Code[w[1]]) + (IF fn[1] = "thunk" THEN 1 ELSE 0)
           /\ \A i \in 1..Len(Code[w[1]]) : Body(fn)[w[2] + i] = Code[w[1]][i]
           /\ fn[1] = "thunk" => Body(fn)[w[2] + Len(Code[w[1]]) + 1] = RetInstr
           /\ fn[1] \in {"func", "thunk", "source"} => fn[2] = w[1] /\ w[2] = 0
           /\ fn[1] = "func" => w[1] \in Function
           /\ fn[1] = "thunk" => Code[w[1]] # <<>>
           /\ ~Owns(fn) => w[1] \notin Function /\ fn[1] \in {"main", "source"}
           /\ fn[1] # "go"
<1>1. \A n \in Proper : n \in Name /\ Code[n] \in Seq(Instruction) /\ Len(Code[n]) \in Nat
  BY CodeAssumption DEF Proper
<1>2. Function \subseteq Proper /\ Function \cap Program = {}
  BY NamesAssumption
<1>3. CASE fn = MainFunc
  <2>1. /\ w[1] \in Program \cap Proper /\ w[2] \in Nat
        /\ Len(main) = w[2] + Len(Code[w[1]])
        /\ \A i \in DOMAIN Code[w[1]] : main[w[2] + i] = Code[w[1]][i]
    <3>1. /\ w \in (Program \cap Proper) \X (0..Len(main))
          /\ Len(main) = w[2] + Len(Code[w[1]])
          /\ \A i \in DOMAIN Code[w[1]] : main[w[2] + i] = Code[w[1]][i]
      BY <1>3 DEF Loaded, MainFunc
    <3>2. w[1] \in Program \cap Proper /\ w[2] \in 0..Len(main)
      BY <3>1
    <3>3. QED
      BY <3>1, <3>2
  <2>2. Body(fn) = main /\ fn[1] = "main"
    BY <1>3 DEF Body, MainFunc
  <2>3. QED
    BY <1>1, <1>2, <2>1, <2>2 DEF Owns
<1>4. CASE fn \in {"func", "thunk", "source"} \X Name
  <2>1. fn # MainFunc /\ fn[1] \in {"func", "thunk", "source"}
    BY <1>4 DEF MainFunc
  <2>2. CASE fn[1] = "func"
    <3>1. w[1] \in Function /\ w[1] = fn[2] /\ w[2] = 0
      BY <2>1, <2>2 DEF Loaded
    <3>2. Body(fn) = Code[fn[2]]
      BY <2>2 DEF Body
    <3>3. QED
      BY <1>1, <1>2, <2>2, <3>1, <3>2 DEF Owns
  <2>3. CASE fn[1] = "thunk"
    <3>1. w[1] \in Proper /\ w[1] = fn[2] /\ w[2] = 0 /\ Code[w[1]] # <<>>
      BY <2>1, <2>3 DEF Loaded
    <3>2. Body(fn) = Append(Code[fn[2]], RetInstr)
      BY <2>3 DEF Body
    <3>3. /\ Len(Body(fn)) = Len(Code[w[1]]) + 1
          /\ \A i \in 1..Len(Code[w[1]]) : Body(fn)[i] = Code[w[1]][i]
          /\ Body(fn)[Len(Code[w[1]]) + 1] = RetInstr
      BY <1>1, <3>1, <3>2
    <3>4. QED
      BY <1>1, <2>3, <3>1, <3>3 DEF Owns
  <2>4. CASE fn[1] = "source"
    <3>1. w[1] \in Proper /\ w[1] \notin Function /\ w[1] = fn[2] /\ w[2] = 0
      BY <2>1, <2>4 DEF Loaded
    <3>2. Body(fn) = Code[fn[2]]
      BY <2>4 DEF Body
    <3>3. QED
      BY <1>1, <2>4, <3>1, <3>2 DEF Owns
  <2>5. QED
    BY <2>1, <2>2, <2>3, <2>4
<1>5. CASE fn \in {"go"} \X (Builtin \cup {"nil"})
  BY <1>5 DEF Loaded, MainFunc
<1>6. QED
  BY <1>3, <1>4, <1>5 DEF Fn

\* Nothing about the Go activations changes when they do not.
LEMMA FramesSame ==
    ASSUME go' = go, IInv, go # <<>>
    PROVE  (go # <<>> => Lowest /\ (\A k \in DOMAIN go : Shape(k)) /\ Nested)'
<1>1. Lowest /\ (\A k \in DOMAIN go : Shape(k)) /\ Nested
  BY DEF IInv
<1>2. Lowest'
  BY <1>1 DEF Lowest
<1>3. \A k \in DOMAIN go : Depth(k)' = Depth(k)
  BY DEF Depth, Upon
<1>4. Nested'
  BY <1>1, <1>3 DEF Nested
<1>5. \A k \in DOMAIN go : Shape(k)'
  BY <1>1 DEF Shape, Upon
<1>6. QED
  BY <1>2, <1>4, <1>5

\* What the places of proper code are.
LEMMA PlaceFacts ==
    ASSUME NEW n \in Proper, NEW x \in Reached[n]
    PROVE  /\ Fine(n, x) /\ Successors(n, x) \subseteq Reached[n]
           /\ x.at \in 0..Len(Code[n]) /\ x.ops \in Seq(Own) /\ x.scopes \in Seq(Scope)
           /\ Len(x.ops) \in Nat /\ Len(x.scopes) \in Nat
<1>1. Fine(n, x) /\ Successors(n, x) \subseteq Reached[n]
  BY CodeAssumption
<1>2. x.at \in 0..Len(Code[n]) /\ x.ops \in Seq(Own) /\ x.scopes \in Seq(Scope)
  BY <1>1 DEF Fine
<1>3. QED
  BY <1>1, <1>2

\* When code that runs gets to another of its places, and has left alone what
\* lies below its own operands and scopes, all is well.
LEMMA Advance ==
    ASSUME IInv, go # <<>>, NEW K, K = Len(go), go[K].kind = "run", ret = "none", InCode(K),
           main' = main, curfunc' = curfunc, addr' = addr, go' = go, ret' = ret,
           NEW w \in Loaded(curfunc), NEW y \in Reached[w[1]], pc' = w[2] + y.at,
           NEW b, NEW s,
           b = OperandBase(curfunc, Len(addr), K), s = ScopeBase(curfunc, Len(addr), K),
           data' \in Seq(Own), Holds(data', b, Len(data'), y.ops, 0),
           \A i \in 1..b : data'[i] = data[i],
           linear' \in Seq({"global", Hole} \cup Scope),
           Holds(linear', s, Len(linear'), y.scopes, 0),
           \A i \in 1..s : linear'[i] = linear[i]
    PROVE  IInv'
<1>1. /\ main \in Seq(Instruction) /\ curfunc \in Fn
      /\ addr \in Seq(AddressType) /\ Len(addr) \in Nat /\ Len(linear) \in Nat /\ Len(data) \in Nat
      /\ linear[1] = "global" /\ go \in Seq(FrameType)
  BY Types
<1>2. /\ K \in DOMAIN go /\ K \in Nat /\ K > 0 /\ K \in 1..Len(go)
      /\ Lowest /\ \A k \in 1..Len(go) : Shape(k)
  BY TopFacts
<1>3. /\ \A k \in 2..K : Recorded(k)
      /\ go[K].addr \in 0..Len(addr)
      /\ Depth(K) \in 0..b /\ b \in 0..Len(data)
      /\ go[K].linear \in 1..s /\ s \in 1..Len(linear)
      /\ K > 1 => go[K - 1].addr <= Len(addr) /\ go[K - 1].linear <= s
      /\ Owns(curfunc) => Len(addr) > 0
  BY CodeAbove
<1>4. b \in Nat /\ s \in Nat /\ 1 \in 1..s /\ s > 0
  BY <1>1, <1>3, SMTT(30)
<1>5. Len(data') \in Nat /\ Len(linear') \in Nat /\ b <= Len(data') /\ s <= Len(linear')
  BY <1>4 DEF Holds
<1>6. w[1] \in Proper /\ w[2] \in Nat /\ Len(Code[w[1]]) \in Nat
      /\ w[2] + Len(Code[w[1]]) <= Len(Body(curfunc))
  <2>1. /\ w[1] \in Proper /\ w[2] \in Nat /\ Len(Code[w[1]]) \in Nat
        /\ Len(Body(curfunc)) = w[2] + Len(Code[w[1]]) + (IF curfunc[1] = "thunk" THEN 1 ELSE 0)
    BY <1>1, LoadedCode
  <2>2. QED
    BY <2>1, SMTT(30)
<1>7. y.at \in 0..Len(Code[w[1]])
  BY <1>6, PlaceFacts
<1>8. pc' \in Int /\ Body(curfunc)' = Body(curfunc) /\ pc' \in -1..Len(Body(curfunc)')
  <2>1. Body(curfunc)' = Body(curfunc)
    BY DEF Body
  <2>2. Len(Body(curfunc)) \in Nat
    BY <1>1, BodyIsSeq
  <2>3. QED
    BY <1>6, <1>7, <2>1, <2>2, SMTT(30)
<1>9. Typed'
  <2>1. Typed
    BY DEF IInv
  <2>2. linear'[1] = "global" /\ Len(linear') > 0
    BY <1>1, <1>4, <1>5
  <2>3. data' \in Seq(Slot)
    BY DEF Own
  <2>4. \A fn, at : Within(fn, at)' <=> Within(fn, at)
    BY DEF Within, Body
  <2>5. QED
    BY <1>8, <2>1, <2>2, <2>3, <2>4 DEF Typed, Within
<1>10. \A k \in 2..K : Recorded(k)'
  <2>1. K > 1 => go[K - 1].addr <= Len(addr) /\ go[K - 1].linear <= s
    BY <1>3
  <2>2. SameFrame(go[K], go'[K]) /\ \A j \in 1..K - 1 : go'[j] = go[j]
    BY DEF SameFrame
  <2>3. \A i \in 1..Len(addr) : addr'[i] = addr[i]
    OBVIOUS
  <2>4. Depth(K) <= b /\ addr' \in Seq(AddressType) /\ Len(addr) <= Len(addr')
    BY <1>1, <1>3
  <2>5. QED
    BY <1>1, <1>2, <1>3, <1>4, <1>5, <2>1, <2>2, <2>3, <2>4, LowerKept
<1>11. InCode(K)'
  <2>1. PICK n, c, l, at : n = Len(addr) /\ c = curfunc /\ l = ScopeBase(curfunc, Len(addr), K) /\ at = pc'
    OBVIOUS
  <2>2. Chain(K, n, c)'
    <3>1. Chain(K, n, c) /\ Stands(c, pc, n, K, Len(data), Len(linear), 0)
      BY <2>1 DEF InCode
    <3>2. \A j \in go[K].addr + 1..n : addr[j].operands <= b /\ addr[j].scopes <= s
      BY <1>1, <1>2, <2>1, <3>1, ChainBelow
    <3>3. IF K = 1 THEN ~Owns(go[K].curfunc) ELSE go'[K - 1] = go[K - 1]
      BY <1>2 DEF Lowest, Owns, MainFunc
    <3>4. n <= Len(addr') /\ (\A i \in 1..n : addr'[i] = addr[i]) /\ addr' \in Seq(AddressType)
      BY <1>1, <2>1
    <3>5. QED
      BY <1>1, <1>2, <1>4, <1>5, <3>1, <3>2, <3>3, <3>4, ChainKept
  <2>3. OperandBase(c, n, K)' = b /\ ScopeBase(c, n, K)' = s
    BY <2>1 DEF OperandBase, ScopeBase
  <2>4. w \in Loaded(c)'
    BY <2>1 DEF Loaded
  <2>5. y.at = at - w[2]
    BY <1>6, <1>7, <2>1
  <2>6. PICK d, e : d = Len(data') /\ e = Len(linear')
    OBVIOUS
  <2>7. StandsAt(w, y, c, at, n, K, d, e, 0)'
    BY <2>3, <2>5, <2>6 DEF StandsAt
  <2>8. Stands(c, at, n, K, d, e, 0)'
    BY <2>4, <2>7 DEF Stands
  <2>9. QED
    BY <2>1, <2>2, <2>6, <2>8 DEF InCode
<1>12. InOrder'
  <2>1. \A k \in DOMAIN data' : data'[k] # Hole
    BY DEF Own
  <2>2. Runs(Len(go))'
    BY <1>11 DEF Runs, TopRun
  <2>3. QED
    BY <1>10, <2>1, <2>2 DEF InOrder
<1>13. ~Short'
  BY TopFacts DEF Short, Top, Last
<1>14. (go # <<>> => Lowest /\ (\A k \in DOMAIN go : Shape(k)) /\ Nested)'
  BY FramesSame
<1>15. QED
  BY <1>9, <1>12, <1>13, <1>14 DEF IInv, Steady

\* z is s with its last t members replaced by v.
Replaced(s, z, t, v) ==
    /\ Len(z) = Len(s) - t + Len(v)
    /\ \A i \in 1..Len(s) - t : z[i] = s[i]
    /\ \A i \in 1..Len(v) : z[Len(s) - t + i] = v[i]

\* Append replaces nothing by one member,
LEMMA ReplacedAppend ==
    ASSUME NEW S, NEW s \in Seq(S), NEW e
    PROVE  Replaced(s, Append(s, e), 0, <<e>>)
BY DEF Replaced

\* no change replaces nothing by nothing,
LEMMA ReplacedSame ==
    ASSUME NEW S, NEW s \in Seq(S)
    PROVE  Replaced(s, s, 0, <<>>)
BY DEF Replaced

\* a cut replaces the last t members by nothing,
LEMMA ReplacedCut ==
    ASSUME NEW S, NEW s \in Seq(S), NEW t \in 0..Len(s)
    PROVE  Replaced(s, SubSeq(s, 1, Len(s) - t), t, <<>>)
BY DEF Replaced

\* or by one member,
LEMMA ReplacedLast ==
    ASSUME NEW S, NEW s \in Seq(S), NEW t \in 0..Len(s), NEW e
    PROVE  Replaced(s, Append(SubSeq(s, 1, Len(s) - t), e), t, <<e>>)
<1>1. SubSeq(s, 1, Len(s) - t) \in Seq(S) /\ Len(SubSeq(s, 1, Len(s) - t)) = Len(s) - t
      /\ \A i \in 1..Len(s) - t : SubSeq(s, 1, Len(s) - t)[i] = s[i]
  OBVIOUS
<1>2. QED
  BY <1>1 DEF Replaced

\* or by any others.
LEMMA ReplacedConcat ==
    ASSUME NEW S, NEW s \in Seq(S), NEW t \in 0..Len(s), NEW v \in Seq(S)
    PROVE  /\ SubSeq(s, 1, Len(s) - t) \o v \in Seq(S)
           /\ Replaced(s, SubSeq(s, 1, Len(s) - t) \o v, t, v)
<1>1. SubSeq(s, 1, Len(s) - t) \in Seq(S) /\ Len(SubSeq(s, 1, Len(s) - t)) = Len(s) - t
      /\ \A i \in 1..Len(s) - t : SubSeq(s, 1, Len(s) - t)[i] = s[i]
  OBVIOUS
<1>2. PICK f \in Seq(S) : f = SubSeq(s, 1, Len(s) - t)
  BY <1>1
<1>3. /\ f \o v \in Seq(S) /\ Len(f \o v) = Len(f) + Len(v)
      /\ \A i \in 1..Len(f) + Len(v) : (f \o v)[i] = IF i <= Len(f) THEN f[i] ELSE v[i - Len(f)]
  BY <1>2, ConcatProperties
<1>4. Len(f) = Len(s) - t /\ Len(f) \in Nat /\ Len(v) \in Nat
  BY <1>1, <1>2
<1>5. \A i \in 1..Len(s) - t : (f \o v)[i] = s[i]
  BY <1>1, <1>2, <1>3, <1>4
<1>6. \A i \in 1..Len(v) : (f \o v)[Len(s) - t + i] = v[i]
  <2>1. TAKE i \in 1..Len(v)
  <2>2. Len(f) + i \in 1..Len(f) + Len(v) /\ ~(Len(f) + i <= Len(f)) /\ Len(f) + i - Len(f) = i
    BY <1>4
  <2>3. QED
    BY <1>3, <1>4, <2>2
<1>7. QED
  BY <1>2, <1>3, <1>4, <1>5, <1>6 DEF Replaced

\* A stack and its description stay in step when the same is replaced in both.
LEMMA HoldsReplaced ==
    ASSUME NEW s, NEW z, NEW b, NEW list, NEW q, NEW t \in 0..Len(list), NEW v,
           Holds(s, b, Len(s), list, 0), Replaced(s, z, t, v), Replaced(list, q, t, v),
           Len(s) \in Nat, Len(z) \in Nat, Len(list) \in Nat, Len(v) \in Nat
    PROVE  Holds(z, b, Len(z), q, 0) /\ \A i \in 1..b : z[i] = s[i]
<1>1. b \in 0..Len(s) /\ Len(list) = Len(s) - b /\ \A i \in 1..Len(s) - b : s[b + i] = list[i]
  BY DEF Holds
<1>2. Len(z) = Len(s) - t + Len(v) /\ Len(q) = Len(list) - t + Len(v)
  BY DEF Replaced
<1>3. Len(q) = Len(z) - b /\ b \in 0..Len(z)
  BY <1>1, <1>2
<1>4. ASSUME NEW i \in 1..Len(z) - b PROVE z[b + i] = q[i]
  <2>1. CASE i <= Len(list) - t
    <3>1. b + i \in 1..Len(s) - t /\ i \in 1..Len(list) - t /\ i \in 1..Len(s) - b
      BY <1>1, <2>1
    <3>2. QED
      BY <1>1, <3>1 DEF Replaced
  <2>2. CASE ~(i <= Len(list) - t)
    <3>0. i - (Len(list) - t) \in Int
      BY <1>1
    <3>1. PICK j \in Int : j = i - (Len(list) - t)
      BY <3>0
    <3>2. j \in 1..Len(v) /\ i = Len(list) - t + j /\ b + i = Len(s) - t + j
      BY <1>1, <1>2, <2>2, <3>1
    <3>3. QED
      BY <3>2 DEF Replaced
  <2>3. QED
    BY <2>1, <2>2
<1>5. \A i \in 1..b : z[i] = s[i]
  <2>1. \A i \in 1..b : i \in 1..Len(s) - t
    BY <1>1
  <2>2. QED
    BY <2>1 DEF Replaced
<1>6. QED
  BY <1>3, <1>4, <1>5 DEF Holds
-----------------------------------------------------------------------------
(* Single instructions *)

\* Run is about to execute the instruction at place x of w.
AtPlace(w, x, K) ==
    /\ StandsAt(w, x, curfunc, pc, Len(addr), K, Len(data), Len(linear), 0)
    /\ pc = w[2] + x.at
    /\ x.at < Len(Code[w[1]])
    /\ Instr = Code[w[1]][x.at + 1] /\ Instr \in Instruction
    /\ Fed(w[1], x)

\* It is at one, or has evaluated an argument and is about to return.
LEMMA Somewhere ==
    ASSUME IInv, Running, NEW K, K = Len(go)
    PROVE  \E w \in Loaded(curfunc) : \E x \in Reached[w[1]] :
             /\ StandsAt(w, x, curfunc, pc, Len(addr), K, Len(data), Len(linear), 0)
             /\ \/ AtPlace(w, x, K)
                \/ /\ x.at = Len(Code[w[1]]) /\ curfunc[1] = "thunk" /\ Instr = RetInstr
                   /\ x.ops = Result(w[1]) /\ x.scopes = <<>>
<1>1. main \in Seq(Instruction) /\ curfunc \in Fn /\ pc \in Int
  BY Types
<1>2. Stands(curfunc, pc, Len(addr), K, Len(data), Len(linear), 0)
  BY RunningInCode DEF InCode
<1>3. PICK w \in Loaded(curfunc) : \E x \in Reached[w[1]] :
        StandsAt(w, x, curfunc, pc, Len(addr), K, Len(data), Len(linear), 0)
  BY <1>2 DEF Stands
<1>4. PICK x \in Reached[w[1]] :
        StandsAt(w, x, curfunc, pc, Len(addr), K, Len(data), Len(linear), 0)
  BY <1>3
<1>5. /\ w[1] \in Proper /\ w[1] \in Name /\ w[2] \in Nat /\ Len(Code[w[1]]) \in Nat
      /\ Code[w[1]] \in Seq(Instruction)
      /\ Len(Body(curfunc)) = w[2] + Len(Code[w[1]]) + (IF curfunc[1] = "thunk" THEN 1 ELSE 0)
      /\ \A i \in 1..Len(Code[w[1]]) : Body(curfunc)[w[2] + i] = Code[w[1]][i]
      /\ curfunc[1] = "thunk" => Body(curfunc)[w[2] + Len(Code[w[1]]) + 1] = RetInstr
  BY <1>1, LoadedCode
<1>6. Fine(w[1], x) /\ x.at \in 0..Len(Code[w[1]])
  BY <1>5, PlaceFacts
<1>7. pc = w[2] + x.at
  BY <1>1, <1>4, <1>5, <1>6 DEF StandsAt
<1>8. pc < Len(Body(curfunc))
  BY <1>1, <1>5 DEF Running, ReachedEnd
<1>9. CASE x.at < Len(Code[w[1]])
  <2>0. w[2] \in Nat /\ x.at \in Nat /\ Len(Code[w[1]]) \in Nat
    BY <1>5, <1>6
  <2>1. x.at + 1 \in 1..Len(Code[w[1]]) /\ pc + 1 = w[2] + (x.at + 1)
    BY <1>7, <1>9, <2>0
  <2>2. Instr = Code[w[1]][x.at + 1]
    BY <1>5, <2>1 DEF Instr
  <2>3. Instr \in Instruction
    BY <1>5, <2>1, <2>2
  <2>4. Fed(w[1], x)
    BY <1>6, <1>9 DEF Fine
  <2>5. QED
    BY <1>4, <1>7, <1>9, <2>2, <2>3, <2>4 DEF AtPlace
<1>10. CASE x.at = Len(Code[w[1]])
  <2>1. curfunc[1] = "thunk"
    BY <1>5, <1>7, <1>8, <1>10
  <2>2. Instr = RetInstr
    BY <1>5, <1>7, <1>10, <2>1 DEF Instr
  <2>3. x.ops = Result(w[1]) /\ x.scopes = <<>>
    BY <1>6, <1>10 DEF Fine
  <2>4. QED
    BY <1>4, <1>10, <2>1, <2>2, <2>3
<1>11. QED
  BY <1>5, <1>6, <1>9, <1>10

\* Code that runs, and does not return, stands at one of its places.
LEMMA SomePlace ==
    ASSUME IInv, Running, Instr.op # "ret", NEW K, K = Len(go)
    PROVE  \E w \in Loaded(curfunc) : \E x \in Reached[w[1]] : AtPlace(w, x, K)
<1>1. RetInstr.op = "ret"
  BY DEF RetInstr
<1>2. QED
  BY <1>1, Somewhere

\* What Run executes was emitted by the compiler.
LEMMA IsInstruction ==
    ASSUME IInv, Running, Instr.op # "ret"
    PROVE  Instr \in Instruction
BY SomePlace DEF AtPlace

\* While code runs no slot of the operands is nil.
LEMMA OnlyOwn ==
    ASSUME IInv, Running
    PROVE  data \in Seq(Own)
<1>1. data \in Seq(Slot) /\ go # <<>>
  BY Types, RunningInCode
<1>2. \A i \in DOMAIN data : data[i] # Hole
  BY <1>1, RunningInCode, CodeAbove
<1>3. QED
  BY <1>1, <1>2 DEF Own

\* An instruction that does to the stacks what the places of the code say,
\* and goes to one of the next places.
LEMMA StepTo ==
    ASSUME IInv, Running, NEW K, K = Len(go),
           NEW w \in Loaded(curfunc), NEW x \in Reached[w[1]], AtPlace(w, x, K),
           main' = main, curfunc' = curfunc, addr' = addr, go' = go, ret' = ret,
           NEW to \in Targets(w[1], x.at), pc' = w[2] + to,
           NEW t \in Nat, NEW v \in Seq(Own), t = Takes(Instr, x.ops), v = Gives(Instr, x.ops),
           data' \in Seq(Own), Replaced(data, data', t, v),
           NEW u \in Nat, NEW e \in Seq(Scope), u <= Len(x.scopes),
           linear' \in Seq({"global", Hole} \cup Scope), Replaced(linear, linear', u, e),
           NEW q \in Seq(Scope), q = Scopes(Instr, x.scopes), Replaced(x.scopes, q, u, e)
    PROVE  IInv'
<1>1. InCode(K) /\ ret = "none" /\ go # <<>> /\ go[K].kind = "run"
  BY RunningInCode
<1>2. PICK b, s : b = OperandBase(curfunc, Len(addr), K) /\ s = ScopeBase(curfunc, Len(addr), K)
  OBVIOUS
<1>3. w[1] \in Proper
  <2>1. main \in Seq(Instruction) /\ curfunc \in Fn
    BY Types
  <2>2. QED
    BY <2>1, LoadedCode
<1>4. /\ Successors(w[1], x) \subseteq Reached[w[1]]
      /\ x.ops \in Seq(Own) /\ x.scopes \in Seq(Scope)
      /\ Len(x.ops) \in Nat /\ Len(x.scopes) \in Nat
      /\ x.at \in 0..Len(Code[w[1]])
  BY <1>3, PlaceFacts
<1>5. Instr = Code[w[1]][x.at + 1] /\ t \in 0..Len(x.ops) /\ ~(x.at >= Len(Code[w[1]]))
  <2>1. Instr = Code[w[1]][x.at + 1] /\ x.at < Len(Code[w[1]]) /\ Fed(w[1], x)
    BY DEF AtPlace
  <2>2. Len(Code[w[1]]) \in Nat
    BY <1>3, CodeAssumption DEF Proper
  <2>3. t <= Len(x.ops)
    BY <2>1 DEF Fed
  <2>4. QED
    BY <1>4, <2>1, <2>2, <2>3
<1>6. PICK p : p = SubSeq(x.ops, 1, Len(x.ops) - t) \o v
  OBVIOUS
<1>7. p \in Seq(Own) /\ Replaced(x.ops, p, t, v)
  BY <1>4, <1>5, <1>6, ReplacedConcat
<1>8. PICK y : y = Place(to, p, q)
  OBVIOUS
<1>9. y \in Reached[w[1]] /\ y.at = to /\ y.ops = p /\ y.scopes = q
  <2>1. y \in Successors(w[1], x)
    BY <1>5, <1>6, <1>8 DEF Successors
  <2>2. QED
    BY <1>4, <1>8, <2>1 DEF Place
<1>10. Holds(data, b, Len(data), x.ops, 0) /\ Holds(linear, s, Len(linear), x.scopes, 0)
  BY <1>2 DEF AtPlace, StandsAt
<1>11. Len(data) \in Nat /\ Len(data') \in Nat /\ Len(linear) \in Nat /\ Len(linear') \in Nat
       /\ Len(v) \in Nat /\ Len(e) \in Nat
  <2>1. Len(data) \in Nat /\ Len(linear) \in Nat
    BY Types
  <2>2. Len(data') \in Nat /\ Len(linear') \in Nat /\ Len(v) \in Nat /\ Len(e) \in Nat
    OBVIOUS
  <2>3. QED
    BY <2>1, <2>2
<1>12. Holds(data', b, Len(data'), y.ops, 0) /\ \A i \in 1..b : data'[i] = data[i]
  <2>1. t \in 0..Len(x.ops)
    BY <1>5
  <2>2. Holds(data', b, Len(data'), p, 0) /\ \A i \in 1..b : data'[i] = data[i]
    BY <1>4, <1>7, <1>10, <1>11, <2>1, HoldsReplaced, SMTT(30)
  <2>3. QED
    BY <1>9, <2>2
<1>13. Holds(linear', s, Len(linear'), y.scopes, 0) /\ \A i \in 1..s : linear'[i] = linear[i]
  <2>1. u \in 0..Len(x.scopes)
    BY <1>4
  <2>2. Holds(linear', s, Len(linear'), q, 0) /\ \A i \in 1..s : linear'[i] = linear[i]
    BY <1>4, <1>10, <1>11, <2>1, HoldsReplaced, SMTT(30)
  <2>3. QED
    BY <1>9, <2>2
<1>14. y \in Reached[w[1]] /\ pc' = w[2] + y.at
  BY <1>9
<1>15. QED
  BY <1>1, <1>2, <1>12, <1>13, <1>14, Advance, SMTT(30)

\* One that leaves the scopes alone.
LEMMA StepOperands ==
    ASSUME IInv, Running, NEW K, K = Len(go),
           NEW w \in Loaded(curfunc), NEW x \in Reached[w[1]], AtPlace(w, x, K), main' = main,
           NEW s, NEW next, Operands(s, next),
           NEW to \in Targets(w[1], x.at), next = w[2] + to,
           NEW t \in Nat, NEW v \in Seq(Own), t = Takes(Instr, x.ops), v = Gives(Instr, x.ops),
           s \in Seq(Own), Replaced(data, s, t, v), Scopes(Instr, x.scopes) = x.scopes
    PROVE  IInv'
<1>1. /\ data' = s /\ pc' = next /\ curfunc' = curfunc /\ addr' = addr /\ linear' = linear
      /\ go' = go /\ ret' = ret
  BY DEF Operands
<1>2. x.scopes \in Seq(Scope) /\ Len(x.scopes) \in Nat
  <2>1. main \in Seq(Instruction) /\ curfunc \in Fn
    BY Types
  <2>2. w[1] \in Proper
    BY <2>1, LoadedCode
  <2>3. QED
    BY <2>2, PlaceFacts
<1>3. linear \in Seq({"global", Hole} \cup Scope)
  BY Types
<1>4. Replaced(linear, linear', 0, <<>>) /\ Replaced(x.scopes, x.scopes, 0, <<>>)
  BY <1>1, <1>2, <1>3, ReplacedSame
<1>5. <<>> \in Seq(Scope) /\ 0 \in Nat /\ 0 <= Len(x.scopes)
  BY <1>2
<1>6. QED
  BY <1>1, <1>2, <1>3, <1>4, <1>5, StepTo

\* One that leaves the operands alone.
LEMMA StepScopes ==
    ASSUME IInv, Running, NEW K, K = Len(go),
           NEW w \in Loaded(curfunc), NEW x \in Reached[w[1]], AtPlace(w, x, K), main' = main,
           UNCHANGED <<curfunc, addr, data, go, ret>>,
           NEW to \in Targets(w[1], x.at), pc' = w[2] + to,
           Takes(Instr, x.ops) = 0, Gives(Instr, x.ops) = <<>>,
           NEW u \in Nat, NEW e \in Seq(Scope), u <= Len(x.scopes),
           linear' \in Seq({"global", Hole} \cup Scope), Replaced(linear, linear', u, e),
           NEW q \in Seq(Scope), q = Scopes(Instr, x.scopes), Replaced(x.scopes, q, u, e)
    PROVE  IInv'
<1>1. /\ data' = data /\ curfunc' = curfunc /\ addr' = addr /\ go' = go /\ ret' = ret
      /\ data \in Seq(Own)
  BY OnlyOwn
<1>2. Replaced(data, data', 0, <<>>) /\ data' \in Seq(Own)
  BY <1>1, ReplacedSame
<1>3. <<>> \in Seq(Own) /\ 0 \in Nat
  OBVIOUS
<1>4. QED
  BY <1>1, <1>2, <1>3, StepTo

\* What the instructions carry.
LEMMA InstructionFields ==
    ASSUME NEW i \in Instruction
    PROVE  /\ i.op = "push" => i.what \in Own
           /\ i.op \in {"branch", "jump"} => i.by \in Int
           /\ i.op = "goto" => i.to \in Nat
           /\ i.op = "loopstart" => i.loop \in LoopId /\ i.bottom \in Nat /\ i.again \in Nat
           /\ i.op \in {"break", "continue"} => i.loop \in LoopId /\ i.scopes \in Nat
           /\ i.op \in {"popuntil", "clearmark", "vectorize"} => i.mark \in {Marker} \cup LoopId
           /\ i.op = "precall" => i.f \in Function /\ i.nargs \in Nat
           /\ i.op \in {"call", "dispatch"} => i.f \in Builtin /\ i.nargs \in Nat
           /\ i.op = "callexpr" => i.f \in Name \cup Builtin /\ i.items \in Seq(Name)
BY DEF Instruction

\* Every instruction finds the operands it pops.
LEMMA AlwaysReady ==
    ASSUME IInv, Running
    PROVE  Ready /\ Popped \in Nat /\ Popped <= Len(data)
<1>1. data \in Seq(Own) /\ Len(data) \in Nat
  BY OnlyOwn
<1>2. Popped \in Nat /\ Popped <= Len(data)
  <2>1. CASE Instr.op = "ret"
    BY <1>1, <2>1 DEF Popped
  <2>2. CASE Instr.op # "ret"
    <3>1. PICK K : K = Len(go)
      OBVIOUS
    <3>2. PICK w \in Loaded(curfunc) : \E x \in Reached[w[1]] : AtPlace(w, x, K)
      BY <2>2, <3>1, SomePlace
    <3>3. PICK x \in Reached[w[1]] : AtPlace(w, x, K)
      BY <3>2
    <3>4. Instr \in Instruction /\ Fed(w[1], x) /\ Instr = Code[w[1]][x.at + 1]
      BY <3>3 DEF AtPlace
    <3>5. Len(x.ops) \in Nat /\ Len(x.ops) <= Len(data) /\ (x.ops # <<>> => Len(x.ops) > 0)
      <4>1. main \in Seq(Instruction) /\ curfunc \in Fn
        BY Types
      <4>2. w[1] \in Proper
        BY <4>1, LoadedCode
      <4>3. x.ops \in Seq(Own)
        BY <4>2, PlaceFacts
      <4>4. Holds(data, OperandBase(curfunc, Len(addr), K), Len(data), x.ops, 0)
        BY <3>3 DEF AtPlace, StandsAt
      <4>5. QED
        BY <1>1, <4>3, <4>4 DEF Holds
    <3>6. Takes(Instr, x.ops) <= Len(x.ops) /\ (Instr.op = "dup" => x.ops # <<>>)
      BY <3>4 DEF Fed
    <3>7. CASE Instr.op \in {"branch", "bind", "update"}
      BY <3>5, <3>6, <3>7, <1>1 DEF Popped, Takes
    <3>8. CASE Instr.op = "dispatch"
      BY <3>4, <3>5, <3>6, <3>8, <1>1, InstructionFields DEF Popped, Takes
    <3>9. CASE Instr.op = "dup"
      BY <3>5, <3>6, <3>9, <1>1 DEF Popped
    <3>10. CASE Instr.op = "assign"
      BY <3>5, <3>6, <3>10, <1>1 DEF Popped, Takes
    <3>11. CASE Instr.op = "pop"
      BY <1>1, <3>11 DEF Popped
    <3>12. CASE Instr.op \notin {"branch", "bind", "update", "dispatch", "dup", "assign", "pop"}
      BY <1>1, <3>12 DEF Popped
    <3>13. QED
      BY <3>7, <3>8, <3>9, <3>10, <3>11, <3>12
  <2>3. QED
    BY <2>1, <2>2
<1>3. Enough(Popped) /\ Solid(Popped)
  <2>1. ASSUME NEW k \in (Len(data) - Popped + 1)..Len(data) PROVE data[k] # Hole
    <3>1. k \in 1..Len(data)
      BY <1>1, <1>2
    <3>2. QED
      BY <1>1, <3>1 DEF Own
  <2>2. QED
    BY <1>1, <1>2, <2>1 DEF Enough, Solid
<1>4. QED
  BY <1>2, <1>3 DEF Ready

\* So popping never fails.
LEMMA NoOperandFault ==
    ASSUME IInv, OperandFault
    PROVE  FALSE
BY AlwaysReady DEF OperandFault

\* What is known of the instruction at a place, and of the stacks there.
LEMMA PlaceHere ==
    ASSUME IInv, Running, NEW K, K = Len(go),
           NEW w \in Loaded(curfunc), NEW x \in Reached[w[1]], AtPlace(w, x, K)
    PROVE  /\ w[1] \in Proper /\ w[2] \in Nat /\ x.at \in Nat /\ pc = w[2] + x.at
           /\ x.at \in 0..Len(Code[w[1]]) - 1 /\ Len(Code[w[1]]) \in Nat
           /\ Instr = Code[w[1]][x.at + 1] /\ Instr \in Instruction /\ Fed(w[1], x)
           /\ data \in Seq(Own) /\ Len(data) \in Nat
           /\ x.ops \in Seq(Own) /\ Len(x.ops) \in Nat /\ Len(x.ops) <= Len(data)
           /\ x.scopes \in Seq(Scope) /\ Len(x.scopes) \in Nat /\ Len(x.scopes) <= Len(linear)
           /\ linear \in Seq({"global", Hole} \cup Scope) /\ Len(linear) \in Nat
<1>1. main \in Seq(Instruction) /\ curfunc \in Fn /\ Len(linear) \in Nat
      /\ linear \in Seq({"global", Hole} \cup Scope)
  BY Types
<1>2. w[1] \in Proper /\ w[2] \in Nat /\ Len(Code[w[1]]) \in Nat
  BY <1>1, LoadedCode
<1>3. /\ x.ops \in Seq(Own) /\ Len(x.ops) \in Nat /\ x.scopes \in Seq(Scope)
      /\ Len(x.scopes) \in Nat /\ x.at \in 0..Len(Code[w[1]])
  BY <1>2, PlaceFacts
<1>4. data \in Seq(Own) /\ Len(data) \in Nat
  BY OnlyOwn
<1>5. /\ Holds(data, OperandBase(curfunc, Len(addr), K), Len(data), x.ops, 0)
      /\ Holds(linear, ScopeBase(curfunc, Len(addr), K), Len(linear), x.scopes, 0)
  BY DEF AtPlace, StandsAt
<1>6. Len(x.ops) <= Len(data) /\ Len(x.scopes) <= Len(linear)
  BY <1>1, <1>3, <1>4, <1>5 DEF Holds
<1>7. pc = w[2] + x.at /\ x.at < Len(Code[w[1]]) /\ Instr = Code[w[1]][x.at + 1]
      /\ Instr \in Instruction /\ Fed(w[1], x)
  BY DEF AtPlace
<1>8. x.at \in Nat /\ x.at \in 0..Len(Code[w[1]]) - 1
  BY <1>2, <1>3, <1>7
<1>9. QED
  BY <1>1, <1>2, <1>3, <1>4, <1>6, <1>7, <1>8

\* What most instructions leave is something a slot can hold.
LEMMA ValueIsOwn == Value \in Own /\ <<Value>> \in Seq(Own) /\ <<>> \in Seq(Own)
BY DEF Own, Slot, Value, Hole

\* Most instructions take and give the same wherever they stand.
LEMMA Simple ==
    ASSUME IInv, Running, main' = main,
           Instr.op \notin {"ret", "addscope", "addfunc", "remscope", "break", "continue"},
           NEW s \in Seq(Own), NEW next, Operands(s, next),
           NEW j \in Int, next = pc + j,
           \A n, at : Instr = Code[n][at + 1] => at + j \in Targets(n, at),
           NEW t \in Nat, NEW v \in Seq(Own),
           \A ops : Takes(Instr, ops) = t /\ Gives(Instr, ops) = v,
           t <= Len(data) => Replaced(data, s, t, v)
    PROVE  IInv'
<1>1. PICK K : K = Len(go)
  OBVIOUS
<1>2. PICK w \in Loaded(curfunc) : \E x \in Reached[w[1]] : AtPlace(w, x, K)
  BY <1>1, SomePlace
<1>3. PICK x \in Reached[w[1]] : AtPlace(w, x, K)
  BY <1>2
<1>4. /\ w[2] \in Nat /\ x.at \in Nat /\ pc = w[2] + x.at /\ Len(x.ops) \in Nat
      /\ Instr = Code[w[1]][x.at + 1] /\ Len(x.ops) <= Len(data) /\ Len(data) \in Nat
      /\ Fed(w[1], x)
  BY <1>1, <1>3, PlaceHere
<1>5. t = Takes(Instr, x.ops) /\ v = Gives(Instr, x.ops)
  OBVIOUS
<1>6. t <= Len(data)
  <2>1. t <= Len(x.ops)
    BY <1>4, <1>5 DEF Fed
  <2>2. QED
    BY <1>4, <2>1
<1>7. PICK to : to = x.at + j
  OBVIOUS
<1>8. to \in Targets(w[1], x.at) /\ next = w[2] + to
  <2>1. Instr = Code[w[1]][x.at + 1]
    BY <1>4
  <2>2. x.at + j \in Targets(w[1], x.at)
    BY <2>1
  <2>3. w[2] \in Nat /\ x.at \in Nat /\ pc = w[2] + x.at
    BY <1>4
  <2>4. next = w[2] + (x.at + j)
    BY <2>3
  <2>5. QED
    BY <1>7, <2>2, <2>4
<1>9. Scopes(Instr, x.scopes) = x.scopes
  BY DEF Scopes, Scope
<1>10. Replaced(data, s, t, v)
  BY <1>6
<1>11. QED
  BY <1>1, <1>3, <1>5, <1>8, <1>9, <1>10, StepOperands

\* Those that run on.
Forward == {"skip", "loopstart", "pop", "dup", "env", "bind", "update", "assign", "push",
            "popuntil", "clearmark", "vectorize", "addscope", "addfunc", "remscope",
            "precall", "call", "dispatch", "callexpr"}

\* Most instructions go on with the next one.
LEMMA NextTarget ==
    ASSUME NEW n, NEW at, NEW i, i = Code[n][at + 1], i.op \in Forward
    PROVE  at + 1 \in Targets(n, at)
<1>1. i.op \notin {"branch", "jump", "goto", "break", "continue", "ret", "reterr"}
  BY DEF Forward
<1>2. Targets(n, at) = {at + 1}
  BY <1>1 DEF Targets
<1>3. QED
  BY <1>2

\* An instruction that takes t operands, leaves v and goes on keeps the
\* invariant.
LEMMA Advances ==
    ASSUME IInv, Running, main' = main,
           Instr.op \in {"skip", "loopstart", "pop", "env", "bind", "update", "assign", "push", "precall"},
           NEW s \in Seq(Own), Operands(s, pc + 1),
           NEW t \in Nat, NEW v \in Seq(Own),
           \A ops : Takes(Instr, ops) = t /\ Gives(Instr, ops) = v,
           t <= Len(data) => Replaced(data, s, t, v)
    PROVE  IInv'
<1>1. Instr.op \in Forward
      /\ Instr.op \notin {"ret", "addscope", "addfunc", "remscope", "break", "continue"}
  BY DEF Forward
<1>2. \A n, at : Instr = Code[n][at + 1] => at + 1 \in Targets(n, at)
  BY <1>1, NextTarget
<1>3. PICK next : next = pc + 1
  OBVIOUS
<1>4. Operands(s, next)
  BY <1>3
<1>5. QED
  BY <1>1, <1>2, <1>3, <1>4, Simple

\* PushInstr.
LEMMA PushStep ==
    ASSUME IInv, Push, main' = main
    PROVE  IInv'
<1>1. Running /\ Instr.op = "push" /\ Operands(Append(data, Instr.what), pc + 1)
  BY DEF Push, Is
<1>2. data \in Seq(Own)
  BY <1>1, OnlyOwn
<1>3. Instr \in Instruction
  BY <1>1, IsInstruction
<1>4. Instr.what \in Own
  BY <1>1, <1>3, InstructionFields
<1>5. PICK s, v : s = Append(data, Instr.what) /\ v = <<Instr.what>>
  OBVIOUS
<1>6. \A ops : Takes(Instr, ops) = 0 /\ Gives(Instr, ops) = v
  BY <1>1, <1>5 DEF Takes, Gives
<1>7. s \in Seq(Own) /\ v \in Seq(Own) /\ Replaced(data, s, 0, v)
  BY <1>2, <1>4, <1>5, ReplacedAppend
<1>8. Operands(s, pc + 1)
  BY <1>1, <1>5
<1>9. QED
  BY <1>1, <1>6, <1>7, <1>8, Advances

\* A label, a loop start, a debug instruction.
LEMMA SkipStep ==
    ASSUME IInv, Skip \/ LoopStart, main' = main
    PROVE  IInv'
<1>1. Running /\ Instr.op \in {"skip", "loopstart"} /\ Operands(data, pc + 1)
  BY DEF Skip, LoopStart, Is
<1>2. data \in Seq(Own) /\ Replaced(data, data, 0, <<>>)
  BY <1>1, OnlyOwn, ReplacedSame
<1>3. \A ops : Takes(Instr, ops) = 0 /\ Gives(Instr, ops) = <<>>
  BY <1>1 DEF Takes, Gives
<1>4. QED
  BY <1>1, <1>2, <1>3, ValueIsOwn, Advances

\* The topmost operands are popped.
LEMMA DropOwn ==
    ASSUME data \in Seq(Own), NEW t \in Nat, t <= Len(data)
    PROVE  Drop(t) \in Seq(Own) /\ Replaced(data, Drop(t), t, <<>>)
BY ReplacedCut DEF Drop

\* PopInstr.
LEMMA PopStep ==
    ASSUME IInv, Pop, main' = main
    PROVE  IInv'
<1>1. Running /\ Instr.op = "pop" /\ Operands(Drop(Popped), pc + 1)
  BY DEF Pop, Is
<1>2. data \in Seq(Own) /\ Popped \in Nat /\ Popped <= Len(data)
  BY <1>1, OnlyOwn, AlwaysReady
<1>3. \A ops : Takes(Instr, ops) = 1 /\ Gives(Instr, ops) = <<>>
  BY <1>1 DEF Takes, Gives
<1>4. PICK s : s = Drop(Popped)
  OBVIOUS
<1>5. s \in Seq(Own) /\ (1 <= Len(data) => Replaced(data, s, 1, <<>>))
  <2>1. 1 <= Len(data) => Popped = 1
    BY <1>1 DEF Popped
  <2>2. QED
    BY <1>2, <1>4, <2>1, DropOwn
<1>6. Operands(s, pc + 1)
  BY <1>1, <1>4
<1>7. QED
  BY <1>1, <1>3, <1>5, <1>6, ValueIsOwn, Advances

\* Until something fails, nothing that runs has eaten into the stacks of the
\* activations below.
LEMMA SteadyIntact ==
    ASSUME IInv, Steady
    PROVE  Intact
<1>1. go # <<>> /\ ret \in {"none", "ok"} /\ InOrder
  BY DEF Steady, IInv
<1>2. PICK K : K = Len(go)
  OBVIOUS
<1>3. /\ K \in Nat /\ K > 0 /\ K \in DOMAIN go /\ Nested /\ Lowest
      /\ (\A k \in 1..Len(go) : Shape(k))
  BY <1>1, <1>2, TopFacts
<1>4. go \in Seq(FrameType) /\ Len(data) \in Nat /\ Len(addr) \in Nat /\ Len(linear) \in Nat
      /\ DOMAIN go = 1..K
  BY <1>2, Types
<1>5. Depth(K) \in Nat
  BY <1>3, Beneath
<1>6. Runs(K)
  BY <1>1, <1>2 DEF InOrder
<1>7. CASE go[K].kind = "run"
  <2>1. TopRun(K) /\ ret = "none"
    BY <1>6, <1>7 DEF Runs, TopRun
  <2>2. SUFFICES ASSUME NEW k \in DOMAIN go, go[k].kind # "run"
                 PROVE  /\ go[k].data <= Len(data) /\ go[k].addr <= Len(addr)
                        /\ go[k].linear <= Len(linear)
    BY DEF Intact
  <2>3. k \in 1..K - 1 /\ K > 1 /\ K - 1 \in DOMAIN go /\ k < K /\ K # 1
    BY <1>3, <1>4, <1>7, <2>2
  <2>4. /\ go[k].data \in Nat /\ go[k].addr \in Nat /\ go[k].linear \in Nat
        /\ go[K - 1].addr \in Nat /\ go[K - 1].linear \in Nat /\ go[K - 1].data \in Nat
    BY <1>4, <2>3, FrameFields
  <2>5. go[k].data <= Depth(K) /\ Depth(K) = go[K - 1].data
    BY <1>3, <1>7, <2>2, <2>3 DEF Nested, Depth, Upon
  <2>6. go[k].addr <= go[K - 1].addr /\ go[k].linear <= go[K - 1].linear
    BY <2>3, Beneath
  <2>7. go[K - 1].data <= Len(data) /\ go[K - 1].addr <= Len(addr) /\ go[K - 1].linear <= Len(linear)
    <3>1. CASE InCode(K)
      <4>1. /\ Depth(K) \in 0..OperandBase(curfunc, Len(addr), K)
            /\ OperandBase(curfunc, Len(addr), K) \in 0..Len(data)
            /\ ScopeBase(curfunc, Len(addr), K) \in 1..Len(linear)
            /\ go[K - 1].addr <= Len(addr) /\ go[K - 1].linear <= ScopeBase(curfunc, Len(addr), K)
        BY <1>1, <1>2, <1>7, <2>1, <2>3, <3>1, CodeAbove
      <4>2. QED
        BY <1>4, <2>4, <2>5, <4>1, SMTT(30)
    <3>2. CASE Finished(K)
      <4>1. /\ Len(addr) = go[K - 1].addr /\ Len(linear) = go[K - 1].linear
            /\ Len(data) = go[K - 1].data + Len(Result(go[K].curfunc[2]))
        BY <3>2 DEF Finished, Upon
      <4>2. Len(Result(go[K].curfunc[2])) \in Nat
        BY DEF Result
      <4>3. QED
        BY <2>4, <4>1, <4>2
    <3>3. QED
      BY <2>1, <3>1, <3>2 DEF TopRun
  <2>8. QED
    BY <1>4, <1>5, <2>4, <2>5, <2>6, <2>7, SMTT(30)
<1>8. CASE go[K].kind # "run"
  <2>1. /\ go[K].addr \in Nat /\ go[K].linear \in Nat /\ go[K].data \in Nat /\ go[K].i \in Nat
        /\ go[K].base \in Int
        /\ go[K].kind \in {"run", "call", "user", "apply", "eval", "source"}
    BY <1>3, <1>4, FrameFields
  <2>2. /\ Depth(K) <= Len(data) /\ go[K].addr <= Len(addr) /\ go[K].linear <= Len(linear)
        /\ go[K].data <= Len(data)
    <3>1. CASE go[K].kind = "call"
      <4>1. TopCall(K)
        BY <1>6, <3>1 DEF Runs
      <4>2. Pushed(go[K].i) \in Nat
        BY <2>1 DEF Pushed
      <4>3. Depth(K) = go[K].base
        BY <3>1 DEF Depth
      <4>4. QED
        BY <1>4, <2>1, <4>1, <4>2, <4>3 DEF TopCall
    <3>2. CASE go[K].kind = "user"
      <4>1. TopUser(K) /\ Depth(K) = go[K].data
        BY <1>6, <3>2 DEF Runs, Depth
      <4>2. QED
        BY <1>4, <2>1, <4>1, SMTT(30) DEF TopUser, UserEntry
    <3>3. CASE go[K].kind \in {"apply", "eval", "source"}
      <4>1. TopCallback(K) /\ Depth(K) = go[K].data
        BY <1>6, <3>3 DEF Runs, Depth
      <4>2. QED
        BY <1>4, <2>1, <4>1 DEF TopCallback
    <3>4. QED
      BY <1>8, <2>1, <3>1, <3>2, <3>3
  <2>3. ASSUME NEW k \in DOMAIN go, go[k].kind # "run"
        PROVE  /\ go[k].data <= Len(data) /\ go[k].addr <= Len(addr)
               /\ go[k].linear <= Len(linear)
    <3>1. go[k].data \in Nat /\ go[k].addr \in Nat /\ go[k].linear \in Nat
      BY <1>4, FrameFields
    <3>2. k = K \/ k < K
      BY <1>3, <1>4
    <3>3. k < K => go[k].data <= Depth(K) /\ go[k].addr <= go[K].addr /\ go[k].linear <= go[K].linear
      BY <1>3, <2>3 DEF Nested
    <3>4. QED
      BY <1>4, <1>5, <2>1, <2>2, <3>1, <3>2, <3>3, SMTT(30)
  <2>4. QED
    BY <2>3 DEF Intact
<1>9. QED
  BY <1>7, <1>8

\* An instruction that fails leaves it to Run.
LEMMA FaultStep ==
    ASSUME IInv, Steady, Fault("err"), main' = main
    PROVE  IInv'
<1>1. /\ ret' = "err" /\ go' = go /\ curfunc' = curfunc /\ pc' = pc /\ addr' = addr
      /\ linear' = linear /\ data' = data
  BY DEF Fault, env
<1>2. Intact'
  BY <1>1, SteadyIntact DEF Intact
<1>3. Typed'
  <2>1. Typed
    BY DEF IInv
  <2>2. \A fn, at : Within(fn, at)' <=> Within(fn, at)
    BY DEF Within, Body
  <2>3. QED
    BY <1>1, <2>1, <2>2 DEF Typed, Within, Body
<1>4. go # <<>>
  BY DEF Steady
<1>5. (go # <<>> => Lowest /\ (\A k \in DOMAIN go : Shape(k)) /\ Nested)'
  BY <1>1, <1>4, FramesSame
<1>6. QED
  BY <1>1, <1>2, <1>3, <1>4, <1>5 DEF IInv, Steady, Short, At

\* While an instruction is executed nothing has failed.
LEMMA RunningSteady ==
    ASSUME IInv, Running
    PROVE  Steady /\ ret = "none" /\ go # <<>>
BY RunningInCode, TopFacts DEF Steady, Short

\* DupInstr.
LEMMA DupStep ==
    ASSUME IInv, Dup, main' = main
    PROVE  IInv'
<1>1. Running /\ Instr.op = "dup" /\ Operands(Append(data, Last(data)), pc + 1)
  BY DEF Dup, Is
<1>2. PICK K : K = Len(go)
  OBVIOUS
<1>3. PICK w \in Loaded(curfunc) : \E x \in Reached[w[1]] : AtPlace(w, x, K)
  BY <1>1, <1>2, SomePlace
<1>4. PICK x \in Reached[w[1]] : AtPlace(w, x, K)
  BY <1>3
<1>5. /\ w[2] \in Nat /\ x.at \in Nat /\ pc = w[2] + x.at /\ Fed(w[1], x)
      /\ Instr = Code[w[1]][x.at + 1] /\ Instr \in Instruction
      /\ data \in Seq(Own) /\ Len(data) \in Nat /\ x.ops \in Seq(Own) /\ Len(x.ops) \in Nat
  BY <1>1, <1>2, <1>4, PlaceHere
<1>6. x.ops # <<>>
  BY <1>1, <1>5 DEF Fed
<1>7. Last(data) = Last(x.ops) /\ Last(data) \in Own
  <2>1. PICK b : b = OperandBase(curfunc, Len(addr), K)
    OBVIOUS
  <2>2. /\ b \in 0..Len(data) /\ Len(x.ops) = Len(data) - b
        /\ \A i \in 1..Len(data) - b : data[b + i] = x.ops[i]
    <3>1. Holds(data, b, Len(data), x.ops, 0)
      BY <1>4, <2>1 DEF AtPlace, StandsAt
    <3>2. b \in 0..Len(data) /\ Len(x.ops) = Len(data) - b + 0
          /\ \A i \in 1..Len(data) - b : data[b + i] = x.ops[i]
      BY <3>1 DEF Holds
    <3>3. QED
      BY <1>5, <3>2
  <2>3. /\ Len(x.ops) > 0 /\ Len(x.ops) \in 1..Len(data) - b /\ b + Len(x.ops) = Len(data)
        /\ Len(data) \in 1..Len(data)
    <3>1. Len(x.ops) > 0
      BY <1>5, <1>6
    <3>2. b \in 0..Len(data) /\ Len(x.ops) = Len(data) - b /\ Len(data) \in Nat
      BY <1>5, <2>2
    <3>3. QED
      BY <3>1, <3>2
  <2>4. data[Len(data)] = x.ops[Len(x.ops)]
    BY <2>2, <2>3
  <2>5. Len(data) \in 1..Len(data)
    BY <2>3
  <2>6. data[Len(data)] \in Own
    BY <1>5, <2>5
  <2>7. QED
    BY <2>4, <2>6 DEF Last
<1>8. PICK s, v, to : s = Append(data, Last(data)) /\ v = <<Last(x.ops)>> /\ to = x.at + 1
  OBVIOUS
<1>9. Takes(Instr, x.ops) = 0 /\ Gives(Instr, x.ops) = v /\ Scopes(Instr, x.scopes) = x.scopes
  BY <1>1, <1>8 DEF Takes, Gives, Scopes, Scope
<1>10. to \in Targets(w[1], x.at)
  <2>1. Instr.op \in Forward
    BY <1>1 DEF Forward
  <2>2. QED
    BY <1>5, <1>8, <2>1, NextTarget
<1>11. pc + 1 = w[2] + to
  BY <1>5, <1>8
<1>12. s \in Seq(Own) /\ v \in Seq(Own) /\ Replaced(data, s, 0, v)
  BY <1>5, <1>7, <1>8, ReplacedAppend
<1>13. Operands(s, pc + 1)
  BY <1>1, <1>8
<1>14. QED
  BY <1>1, <1>2, <1>4, <1>9, <1>10, <1>11, <1>12, <1>13, StepOperands

\* EnvToStackInstr, which may fail: then only the sizes count.
LEMMA EnvToStackStep ==
    ASSUME IInv, EnvToStack, main' = main
    PROVE  IInv'
<1>1. Running /\ Instr.op = "env"
  BY DEF EnvToStack, Is
<1>2. CASE Fault("err")
  BY <1>1, <1>2, RunningSteady, FaultStep
<1>3. CASE Operands(Append(data, Value), pc + 1)
  <2>1. data \in Seq(Own)
    BY <1>1, OnlyOwn
  <2>2. PICK s, v : s = Append(data, Value) /\ v = <<Value>>
    OBVIOUS
  <2>3. \A ops : Takes(Instr, ops) = 0 /\ Gives(Instr, ops) = v
    BY <1>1, <2>2 DEF Takes, Gives
  <2>4. s \in Seq(Own) /\ v \in Seq(Own) /\ Replaced(data, s, 0, v)
    BY <2>1, <2>2, ValueIsOwn, ReplacedAppend
  <2>5. Operands(s, pc + 1)
    BY <1>3, <2>2
  <2>6. QED
    BY <1>1, <2>3, <2>4, <2>5, Advances
<1>4. QED
  BY <1>2, <1>3 DEF EnvToStack

\* PopStackPutEnvInstr, UpdateInstr and AssignInstr.
LEMMA BindStep ==
    ASSUME IInv, Bind, main' = main
    PROVE  IInv'
<1>1. Running /\ Instr.op \in {"bind", "update", "assign"}
  BY DEF Bind, Is
<1>2. CASE Fault("err")
  BY <1>1, <1>2, RunningSteady, FaultStep
<1>3. CASE Operands(Drop(Popped), pc + 1)
  <2>1. data \in Seq(Own) /\ Popped \in Nat /\ Popped <= Len(data)
    BY <1>1, OnlyOwn, AlwaysReady
  <2>2. PICK s, t : s = Drop(Popped) /\ t = Popped
    OBVIOUS
  <2>3. \A ops : Takes(Instr, ops) = t /\ Gives(Instr, ops) = <<>>
    BY <1>1, <2>2 DEF Takes, Gives, Popped
  <2>4. s \in Seq(Own) /\ Replaced(data, s, t, <<>>) /\ t \in Nat
    BY <2>1, <2>2, DropOwn
  <2>5. Operands(s, pc + 1)
    BY <1>3, <2>2
  <2>6. QED
    BY <1>1, <2>3, <2>4, <2>5, ValueIsOwn, Advances
<1>4. QED
  BY <1>2, <1>3 DEF Bind

\* BranchInstr, both ways.
LEMMA BranchStep ==
    ASSUME IInv, Branch, main' = main
    PROVE  IInv'
<1>1. Running /\ Instr.op = "branch"
  BY DEF Branch, Is
<1>2. CASE Fault("err")
  BY <1>1, <1>2, RunningSteady, FaultStep
<1>3. CASE \E to \in {pc + 1, pc + Instr.by} : Operands(Drop(1), to)
  <2>1. PICK next \in {pc + 1, pc + Instr.by} : Operands(Drop(1), next)
    BY <1>3
  <2>2. Instr \in Instruction
    BY <1>1, IsInstruction
  <2>3. Instr.by \in Int
    BY <1>1, <2>2, InstructionFields
  <2>4. PICK j \in {1, Instr.by} : next = pc + j
    BY <2>1
  <2>5. j \in Int
    BY <2>3, <2>4
  <2>6. data \in Seq(Own) /\ 1 <= Len(data)
    <3>1. Popped = 1
      BY <1>1 DEF Popped
    <3>2. QED
      BY <1>1, <3>1, OnlyOwn, AlwaysReady
  <2>7. PICK s : s = Drop(1)
    OBVIOUS
  <2>8. s \in Seq(Own) /\ Replaced(data, s, 1, <<>>)
    BY <2>6, <2>7, DropOwn
  <2>9. \A ops : Takes(Instr, ops) = 1 /\ Gives(Instr, ops) = <<>>
    BY <1>1 DEF Takes, Gives
  <2>10. ASSUME NEW n, NEW at, Instr = Code[n][at + 1] PROVE at + j \in Targets(n, at)
    <3>1. Targets(n, at) = {at + 1, at + Instr.by}
      BY <1>1, <2>10 DEF Targets
    <3>2. QED
      BY <2>4, <3>1
  <2>11. Operands(s, next)
    BY <2>1, <2>7
  <2>12. Instr.op \notin {"ret", "addscope", "addfunc", "remscope", "break", "continue"}
    BY <1>1
  <2>13. QED
    BY <1>1, <2>4, <2>5, <2>8, <2>9, <2>10, <2>11, <2>12, ValueIsOwn, Simple
<1>4. QED
  BY <1>2, <1>3 DEF Branch

\* JumpInstr and GotoInstr.
LEMMA JumpStep ==
    ASSUME IInv, Jump, main' = main
    PROVE  IInv'
<1>1. Running /\ Instr.op \in {"jump", "goto"}
  BY DEF Jump, Is
<1>2. CASE Fault("err")
  BY <1>1, <1>2, RunningSteady, FaultStep
<1>3. CASE Instr.op = "jump" /\ Operands(data, pc + Instr.by)
  <2>1. Instr \in Instruction /\ data \in Seq(Own)
    BY <1>1, <1>3, IsInstruction, OnlyOwn
  <2>2. PICK j, next : j = Instr.by /\ next = pc + j
    OBVIOUS
  <2>3. j \in Int
    BY <1>3, <2>1, <2>2, InstructionFields
  <2>4. Replaced(data, data, 0, <<>>)
    BY <2>1, ReplacedSame
  <2>5. \A ops : Takes(Instr, ops) = 0 /\ Gives(Instr, ops) = <<>>
    BY <1>3 DEF Takes, Gives
  <2>6. ASSUME NEW n, NEW at, Instr = Code[n][at + 1] PROVE at + j \in Targets(n, at)
    <3>1. Targets(n, at) = {at + Instr.by}
      BY <1>3, <2>6 DEF Targets
    <3>2. QED
      BY <2>2, <3>1
  <2>7. Operands(data, next)
    BY <1>3, <2>2
  <2>8. Instr.op \notin {"ret", "addscope", "addfunc", "remscope", "break", "continue"}
    BY <1>3
  <2>9. QED
    BY <1>1, <2>1, <2>2, <2>3, <2>4, <2>5, <2>6, <2>7, <2>8, ValueIsOwn, Simple
<1>4. CASE Instr.op = "goto" /\ Operands(data, Instr.to)
  <2>1. PICK K : K = Len(go)
    OBVIOUS
  <2>2. PICK w \in Loaded(curfunc) : \E x \in Reached[w[1]] : AtPlace(w, x, K)
    BY <1>1, <2>1, SomePlace
  <2>3. PICK x \in Reached[w[1]] : AtPlace(w, x, K)
    BY <2>2
  <2>4. /\ w[2] \in Nat /\ x.at \in Nat /\ Fed(w[1], x)
        /\ Instr = Code[w[1]][x.at + 1] /\ Instr \in Instruction /\ data \in Seq(Own)
    BY <1>1, <2>1, <2>3, PlaceHere
  <2>5. w[2] = 0
    <3>1. w[1] \in Function
      BY <1>4, <2>4 DEF Fed
    <3>2. main \in Seq(Instruction) /\ curfunc \in Fn
      BY Types
    <3>3. QED
      BY <3>1, <3>2, LoadedCode DEF Owns
  <2>6. PICK to : to = Instr.to
    OBVIOUS
  <2>7. to \in Nat
    BY <1>4, <2>4, <2>6, InstructionFields
  <2>8. to \in Targets(w[1], x.at)
    <3>1. Targets(w[1], x.at) = {Instr.to}
      BY <1>4, <2>4 DEF Targets
    <3>2. QED
      BY <2>6, <3>1
  <2>9. Takes(Instr, x.ops) = 0 /\ Gives(Instr, x.ops) = <<>> /\ Scopes(Instr, x.scopes) = x.scopes
    BY <1>4 DEF Takes, Gives, Scopes, Scope
  <2>10. Replaced(data, data, 0, <<>>) /\ to = w[2] + to /\ Operands(data, to)
    BY <1>4, <2>4, <2>5, <2>6, <2>7, ReplacedSame
  <2>11. QED
    BY <1>1, <2>1, <2>3, <2>4, <2>8, <2>9, <2>10, ValueIsOwn, StepOperands
<1>5. QED
  BY <1>1, <1>2, <1>3, <1>4 DEF Jump

\* AddScopeInstr and AddFuncScopeInstr.
LEMMA AddScopeStep ==
    ASSUME IInv, AddScope, main' = main
    PROVE  IInv'
<1>1. /\ Running /\ Instr.op \in Scope /\ linear' = Append(linear, Instr.op) /\ pc' = pc + 1
      /\ UNCHANGED <<curfunc, addr, data, go, ret>>
  BY DEF AddScope, Is, Scope
<1>2. PICK K : K = Len(go)
  OBVIOUS
<1>3. PICK w \in Loaded(curfunc) : \E x \in Reached[w[1]] : AtPlace(w, x, K)
  BY <1>1, <1>2, SomePlace DEF Scope
<1>4. PICK x \in Reached[w[1]] : AtPlace(w, x, K)
  BY <1>3
<1>5. /\ w[2] \in Nat /\ x.at \in Nat /\ pc = w[2] + x.at
      /\ Instr = Code[w[1]][x.at + 1] /\ x.scopes \in Seq(Scope) /\ Len(x.scopes) \in Nat
      /\ linear \in Seq({"global", Hole} \cup Scope)
  BY <1>1, <1>2, <1>4, PlaceHere
<1>6. PICK e, to, q : e = <<Instr.op>> /\ to = x.at + 1 /\ q = Append(x.scopes, Instr.op)
  OBVIOUS
<1>7. Takes(Instr, x.ops) = 0 /\ Gives(Instr, x.ops) = <<>> /\ Scopes(Instr, x.scopes) = q
  BY <1>1, <1>6 DEF Takes, Gives, Scopes, Scope
<1>8. to \in Targets(w[1], x.at)
  <2>1. Instr.op \in Forward
    BY <1>1 DEF Forward, Scope
  <2>2. QED
    BY <1>5, <1>6, <2>1, NextTarget
<1>9. pc' = w[2] + to
  BY <1>1, <1>5, <1>6
<1>10. e \in Seq(Scope) /\ q \in Seq(Scope) /\ linear' \in Seq({"global", Hole} \cup Scope)
       /\ Replaced(linear, linear', 0, e) /\ Replaced(x.scopes, q, 0, e)
  BY <1>1, <1>5, <1>6, ReplacedAppend, SMTT(30)
<1>11. 0 <= Len(x.scopes) /\ 0 \in Nat
  BY <1>5
<1>12. QED
  BY <1>1, <1>2, <1>4, <1>7, <1>8, <1>9, <1>10, <1>11, StepScopes

\* RemoveScopeInstr takes a scope the code itself has added.
LEMMA RemoveScopeStep ==
    ASSUME IInv, RemoveScope, main' = main
    PROVE  IInv'
<1>1. Running /\ Instr.op = "remscope"
  BY DEF RemoveScope, Is
<1>2. CASE Fault("err")
  BY <1>1, <1>2, RunningSteady, FaultStep
<1>3. CASE linear' = Front(linear) /\ pc' = pc + 1 /\ UNCHANGED <<curfunc, addr, data, go, ret>>
  <2>1. PICK K : K = Len(go)
    OBVIOUS
  <2>2. PICK w \in Loaded(curfunc) : \E x \in Reached[w[1]] : AtPlace(w, x, K)
    BY <1>1, <2>1, SomePlace
  <2>3. PICK x \in Reached[w[1]] : AtPlace(w, x, K)
    BY <2>2
  <2>4. /\ w[2] \in Nat /\ x.at \in Nat /\ pc = w[2] + x.at /\ Fed(w[1], x)
        /\ Instr = Code[w[1]][x.at + 1] /\ x.scopes \in Seq(Scope) /\ Len(x.scopes) \in Nat
        /\ linear \in Seq({"global", Hole} \cup Scope) /\ Len(linear) \in Nat
        /\ Len(x.scopes) <= Len(linear)
    BY <1>1, <2>1, <2>3, PlaceHere
  <2>5. x.scopes # <<>>
    BY <1>1, <2>4 DEF Fed
  <2>6. Len(x.scopes) >= 1 /\ Len(linear) >= 1
    BY <2>4, <2>5
  <2>7. PICK to, q : to = x.at + 1 /\ q = SubSeq(x.scopes, 1, Len(x.scopes) - 1)
    OBVIOUS
  <2>8. Front(x.scopes) = q /\ linear' = SubSeq(linear, 1, Len(linear) - 1)
    BY <1>3, <2>7 DEF Front
  <2>9. Takes(Instr, x.ops) = 0 /\ Gives(Instr, x.ops) = <<>> /\ Scopes(Instr, x.scopes) = q
    BY <1>1, <2>8 DEF Takes, Gives, Scopes, Scope
  <2>10. to \in Targets(w[1], x.at)
    <3>1. Instr.op \in Forward
      BY <1>1 DEF Forward
    <3>2. QED
      BY <2>4, <2>7, <3>1, NextTarget
  <2>11. pc' = w[2] + to
    <3>1. w[2] \in Nat /\ x.at \in Nat /\ pc = w[2] + x.at
      BY <2>4
    <3>2. pc' = pc + 1 /\ to = x.at + 1
      BY <1>3, <2>7
    <3>3. QED
      BY <3>1, <3>2
  <2>12. /\ <<>> \in Seq(Scope) /\ q \in Seq(Scope)
         /\ Replaced(x.scopes, q, 1, <<>>)
    BY <2>4, <2>6, <2>7, ReplacedCut
  <2>13. /\ linear' \in Seq({"global", Hole} \cup Scope) /\ Replaced(linear, linear', 1, <<>>)
    BY <2>4, <2>6, <2>8, ReplacedCut
  <2>14. 1 <= Len(x.scopes) /\ 1 \in Nat
    BY <2>4, <2>6
  <2>15. QED
    BY <1>1, <1>3, <2>1, <2>3, <2>9, <2>10, <2>11, <2>12, <2>13, <2>14, StepScopes
<1>4. QED
  BY <1>2, <1>3 DEF RemoveScope

\* PrepareCallInstr, which makes one list of the arguments beyond the
\* parameters.
LEMMA PrepareCallStep ==
    ASSUME IInv, PrepareCall, main' = main
    PROVE  IInv'
<1>1. Running /\ Instr.op = "precall"
  BY DEF PrepareCall, Is
<1>2. data \in Seq(Own) /\ Len(data) \in Nat /\ Instr \in Instruction
  BY <1>1, OnlyOwn, IsInstruction
<1>3. Instr.f \in Function /\ Instr.nargs \in Nat
  BY <1>1, <1>2, InstructionFields
<1>4. CASE Fault("err")
  BY <1>1, <1>4, RunningSteady, FaultStep
<1>5. CASE Instr.f \notin Varargs
  <2>1. Operands(data, pc + 1)
    BY <1>5 DEF PrepareCall
  <2>2. \A ops : Takes(Instr, ops) = 0 /\ Gives(Instr, ops) = <<>>
    BY <1>1, <1>5 DEF Takes, Gives
  <2>3. Replaced(data, data, 0, <<>>)
    BY <1>2, ReplacedSame
  <2>4. QED
    BY <1>1, <1>2, <2>1, <2>2, <2>3, ValueIsOwn, Advances
<1>6. CASE Instr.f \in Varargs /\ ~Fault("err")
  <2>1. PICK K : K = Len(go)
    OBVIOUS
  <2>2. PICK w \in Loaded(curfunc) : \E x \in Reached[w[1]] : AtPlace(w, x, K)
    BY <1>1, <2>1, SomePlace
  <2>3. PICK x \in Reached[w[1]] : AtPlace(w, x, K)
    BY <2>2
  <2>4. /\ Fed(w[1], x) /\ Len(x.ops) \in Nat /\ Len(x.ops) <= Len(data)
        /\ Instr = Code[w[1]][x.at + 1]
    BY <1>1, <2>1, <2>3, PlaceHere
  <2>5. /\ Fits(Instr.f, Instr.nargs) /\ x.ops = Values(Instr.nargs)
    BY <1>1, <2>4 DEF Fed
  <2>6. Arity[Instr.f] \in Nat /\ Instr.nargs >= Arity[Instr.f] /\ Len(x.ops) = Instr.nargs
    BY <1>3, <1>6, <2>5, NamesAssumption DEF Fits, Values
  <2>7. Solid(Instr.nargs)
    <3>1. ASSUME NEW k \in (Len(data) - Instr.nargs + 1)..Len(data) PROVE data[k] # Hole
      <4>1. k \in 1..Len(data)
        BY <1>2, <1>3, <2>4, <2>6
      <4>2. QED
        BY <1>2, <4>1 DEF Own
    <3>2. QED
      BY <3>1 DEF Solid
  <2>8. Operands(Wrangled(Instr.f, Instr.nargs, data), pc + 1)
    BY <1>3, <1>6, <2>6, <2>7 DEF PrepareCall
  <2>9. PICK t, s, v : /\ t = Instr.nargs - Arity[Instr.f] /\ v = <<Value>>
                       /\ s = Wrangled(Instr.f, Instr.nargs, data)
    OBVIOUS
  <2>10. t \in Nat /\ t \in 0..Len(data)
    <3>1. /\ Instr.nargs \in Nat /\ Arity[Instr.f] \in Nat /\ Instr.nargs >= Arity[Instr.f]
          /\ Instr.nargs <= Len(data) /\ Len(data) \in Nat
      BY <1>2, <1>3, <2>4, <2>6
    <3>2. QED
      BY <2>9, <3>1
  <2>11. s = Append(SubSeq(data, 1, Len(data) - t), Value)
    BY <1>6, <2>9 DEF Wrangled
  <2>12. s \in Seq(Own) /\ Replaced(data, s, t, v)
    <3>1. SubSeq(data, 1, Len(data) - t) \in Seq(Own)
      BY <1>2, <2>10
    <3>2. QED
      BY <1>2, <2>9, <2>10, <2>11, <3>1, ValueIsOwn, ReplacedLast
  <2>13. \A ops : Takes(Instr, ops) = t /\ Gives(Instr, ops) = v
    BY <1>1, <1>6, <2>9 DEF Takes, Gives
  <2>14. Operands(s, pc + 1) /\ v \in Seq(Own)
    BY <2>8, <2>9, ValueIsOwn
  <2>15. QED
    BY <1>1, <2>10, <2>12, <2>13, <2>14, Advances
<1>7. QED
  BY <1>4, <1>5, <1>6

\* The mark an instruction looks for is the last among the operands of its code.
LEMMA MarkFound ==
    ASSUME data \in Seq(Own), NEW b, NEW ops \in Seq(Own), Holds(data, b, Len(data), ops, 0),
           NEW m, Marked(ops, m) # {}
    PROVE  \E k \in 1..Len(ops) :
             /\ Max(Marked(ops, m)) = k /\ MarkAt(m) = {b + k}
             /\ ops[k] = m
<1>1. /\ b \in 0..Len(data) /\ Len(ops) = Len(data) - b /\ Len(data) \in Nat /\ Len(ops) \in Nat
      /\ \A i \in 1..Len(ops) : data[b + i] = ops[i]
  <2>1. b \in 0..Len(data) /\ Len(ops) = Len(data) - b + 0
        /\ \A i \in 1..Len(data) - b : data[b + i] = ops[i]
    BY DEF Holds
  <2>2. Len(ops) = Len(data) - b
    BY <2>1
  <2>3. QED
    BY <2>1, <2>2
<1>2. PICK k \in 1..Len(ops) : ops[k] = m /\ \A j \in (k + 1)..Len(ops) : ops[j] # m
  BY DEF Marked
<1>3. Marked(ops, m) = {k}
  <2>1. ASSUME NEW j \in Marked(ops, m) PROVE j = k
    <3>1. j \in 1..Len(ops) /\ ops[j] = m /\ \A i \in (j + 1)..Len(ops) : ops[i] # m
      BY DEF Marked
    <3>2. ~(j < k) /\ ~(k < j)
      BY <1>1, <1>2, <3>1
    <3>3. QED
      BY <1>1, <1>2, <3>1, <3>2
  <2>2. k \in Marked(ops, m)
    BY <1>2 DEF Marked
  <2>3. QED
    BY <2>1, <2>2
<1>4. Max(Marked(ops, m)) = k
  BY <1>1, <1>2, <1>3 DEF Max
<1>5. b + k \in MarkAt(m)
  <2>1. b + k \in 1..Len(data) /\ data[b + k] = m
    BY <1>1, <1>2
  <2>2. ASSUME NEW j \in (b + k + 1)..Len(data) PROVE data[j] \notin {m, Hole}
    <3>1. j - b \in (k + 1)..Len(ops) /\ j - b \in 1..Len(ops) /\ b + (j - b) = j /\ j \in 1..Len(data)
      BY <1>1, <1>2
    <3>2. data[j] = ops[j - b]
      BY <1>1, <3>1
    <3>3. data[j] \in Own
      BY <3>1
    <3>4. QED
      BY <1>2, <3>1, <3>2, <3>3 DEF Own
  <2>3. QED
    BY <2>1, <2>2 DEF MarkAt
<1>6. ASSUME NEW j \in MarkAt(m) PROVE j = b + k
  <2>1. j \in 1..Len(data) /\ data[j] = m /\ \A i \in (j + 1)..Len(data) : data[i] # m
    BY DEF MarkAt
  <2>2. b + k \in 1..Len(data) /\ data[b + k] = m /\ \A i \in (b + k + 1)..Len(data) : data[i] # m
    BY <1>5 DEF MarkAt
  <2>3. ~(j < b + k) /\ ~(b + k < j)
    BY <1>1, <2>1, <2>2
  <2>4. QED
    BY <1>1, <2>1, <2>2, <2>3
<1>7. MarkAt(m) = {b + k}
  BY <1>5, <1>6
<1>8. QED
  BY <1>2, <1>4, <1>7

\* The three instructions that go down to a mark find the mark the code has put
\* there.
LEMMA UnmarkStep ==
    ASSUME IInv, Unmark, main' = main
    PROVE  IInv'
<1>1. Running /\ Instr.op \in {"popuntil", "clearmark", "vectorize"}
  BY DEF Unmark, Is
<1>2. PICK K : K = Len(go)
  OBVIOUS
<1>3. PICK w \in Loaded(curfunc) : \E x \in Reached[w[1]] : AtPlace(w, x, K)
  BY <1>1, <1>2, SomePlace
<1>4. PICK x \in Reached[w[1]] : AtPlace(w, x, K)
  BY <1>3
<1>5. /\ w[2] \in Nat /\ x.at \in Nat /\ pc = w[2] + x.at /\ Fed(w[1], x)
      /\ Instr = Code[w[1]][x.at + 1] /\ data \in Seq(Own) /\ Len(data) \in Nat
      /\ x.ops \in Seq(Own) /\ Len(x.ops) \in Nat /\ Len(x.ops) <= Len(data)
  BY <1>1, <1>2, <1>4, PlaceHere
<1>6. PICK b : b = OperandBase(curfunc, Len(addr), K)
  OBVIOUS
<1>7. Holds(data, b, Len(data), x.ops, 0)
  BY <1>4, <1>6 DEF AtPlace, StandsAt
<1>8. Marked(x.ops, Instr.mark) # {}
  BY <1>1, <1>5 DEF Fed
<1>9. PICK k \in 1..Len(x.ops) : /\ Max(Marked(x.ops, Instr.mark)) = k /\ MarkAt(Instr.mark) = {b + k}
  BY <1>5, <1>7, <1>8, MarkFound
<1>10. b \in Nat /\ k \in Nat /\ k >= 1 /\ k <= Len(x.ops) /\ b + Len(x.ops) = Len(data)
  <2>1. b \in 0..Len(data) /\ Len(x.ops) = Len(data) - b + 0
    BY <1>7 DEF Holds
  <2>2. b \in Nat /\ b + Len(x.ops) = Len(data)
    BY <1>5, <2>1
  <2>3. QED
    BY <1>5, <1>9, <2>2
<1>11. PICK h, t, v, s :
          /\ h = b + k
          /\ t = Len(x.ops) - k + (IF Instr.op = "popuntil" THEN 0 ELSE 1)
          /\ v = IF Instr.op = "vectorize" THEN <<Value>> ELSE <<>>
          /\ s = CASE Instr.op = "popuntil"  -> SubSeq(data, 1, h)
                   [] Instr.op = "clearmark" -> SubSeq(data, 1, h - 1)
                   [] OTHER -> Append(SubSeq(data, 1, h - 1), Value)
  OBVIOUS
<1>12. Operands(s, pc + 1)
  <2>1. MarkAt(Instr.mark) # {} /\ \A j \in MarkAt(Instr.mark) : j = h
    BY <1>9, <1>11
  <2>2. PICK j \in MarkAt(Instr.mark) :
          Operands(CASE Instr.op = "popuntil"  -> SubSeq(data, 1, j)
                     [] Instr.op = "clearmark" -> SubSeq(data, 1, j - 1)
                     [] OTHER -> Append(SubSeq(data, 1, j - 1), Value), pc + 1)
    BY <2>1 DEF Unmark
  <2>3. PICK z : /\ z = CASE Instr.op = "popuntil"  -> SubSeq(data, 1, j)
                           [] Instr.op = "clearmark" -> SubSeq(data, 1, j - 1)
                           [] OTHER -> Append(SubSeq(data, 1, j - 1), Value)
                 /\ Operands(z, pc + 1)
    BY <2>2
  <2>4. j = h
    BY <2>1
  <2>5. z = s
    <3>1. CASE Instr.op = "popuntil"
      BY <1>11, <2>3, <2>4, <3>1
    <3>2. CASE Instr.op = "clearmark"
      BY <1>11, <2>3, <2>4, <3>2
    <3>3. CASE Instr.op = "vectorize"
      BY <1>11, <2>3, <2>4, <3>3
    <3>4. QED
      BY <1>1, <3>1, <3>2, <3>3
  <2>6. QED
    BY <2>3, <2>5
<1>13. Takes(Instr, x.ops) = t
  BY <1>1, <1>9, <1>10, <1>11 DEF Takes
<1>14. Gives(Instr, x.ops) = v /\ Scopes(Instr, x.scopes) = x.scopes
  BY <1>1, <1>11 DEF Gives, Scopes, Scope
<1>15. t \in Nat /\ t \in 0..Len(data)
       /\ Len(data) - t = h - (IF Instr.op = "popuntil" THEN 0 ELSE 1)
  <2>1. Len(data) \in Nat /\ Len(x.ops) \in Nat /\ Len(x.ops) <= Len(data)
    BY <1>5
  <2>2. PICK D, M : D = Len(data) /\ M = Len(x.ops)
    OBVIOUS
  <2>3. D \in Nat /\ M \in Nat /\ k \in Nat /\ b \in Nat /\ k >= 1 /\ k <= M /\ b + M = D
        /\ h = b + k
    BY <1>10, <1>11, <2>1, <2>2
  <2>4. CASE Instr.op = "popuntil"
    <3>1. t = M - k
      BY <1>11, <2>2, <2>3, <2>4
    <3>2. t \in 0..D /\ D - t = h - 0
      BY <2>3, <3>1
    <3>3. QED
      BY <2>2, <2>4, <3>2
  <2>5. CASE Instr.op # "popuntil"
    <3>1. t = M - k + 1
      BY <1>11, <2>2, <2>5
    <3>2. t \in 0..D /\ D - t = h - 1
      BY <2>3, <3>1
    <3>3. QED
      BY <2>2, <2>5, <3>2
  <2>6. QED
    BY <2>4, <2>5
<1>16. s \in Seq(Own) /\ v \in Seq(Own) /\ Replaced(data, s, t, v)
  <2>0. h - 0 = h
    BY <1>10, <1>11
  <2>1. CASE Instr.op = "popuntil"
    <3>1. s = SubSeq(data, 1, Len(data) - t) /\ v = <<>>
      BY <1>11, <1>15, <2>0, <2>1
    <3>2. QED
      BY <1>5, <1>15, <3>1, ReplacedCut
  <2>2. CASE Instr.op = "clearmark"
    <3>1. s = SubSeq(data, 1, Len(data) - t) /\ v = <<>>
      BY <1>11, <1>15, <2>2
    <3>2. QED
      BY <1>5, <1>15, <3>1, ReplacedCut
  <2>3. CASE Instr.op = "vectorize"
    <3>1. s = Append(SubSeq(data, 1, Len(data) - t), Value) /\ v = <<Value>>
      BY <1>11, <1>15, <2>3
    <3>2. SubSeq(data, 1, Len(data) - t) \in Seq(Own)
      BY <1>5, <1>15
    <3>3. QED
      BY <1>5, <1>15, <3>1, <3>2, ValueIsOwn, ReplacedLast
  <2>4. QED
    BY <1>1, <2>1, <2>2, <2>3
<1>17. PICK to : to = x.at + 1
  OBVIOUS
<1>18. to \in Targets(w[1], x.at)
  <2>1. Instr.op \in Forward
    BY <1>1 DEF Forward
  <2>2. QED
    BY <1>5, <1>17, <2>1, NextTarget
<1>19. pc + 1 = w[2] + to
  <2>1. w[2] \in Nat /\ x.at \in Nat /\ pc = w[2] + x.at
    BY <1>5
  <2>2. QED
    BY <1>17, <2>1
<1>20. QED
  BY <1>1, <1>2, <1>4, <1>12, <1>13, <1>14, <1>15, <1>16, <1>18, <1>19, StepOperands

\* The loop left is the nearest one above in the code that was loaded.
LEMMA LoopFound ==
    ASSUME NEW n, NEW off \in Nat, NEW at \in Nat, pc = off + at, NEW l,
           \A i \in 1..at + 1 : Body(curfunc)[off + i] = Code[n][i],
           Starts(n, at, l) # {}
    PROVE  /\ Nearest(n, at, l) \in 0..at /\ LoopStarts(l) # {}
           /\ Code[n][Nearest(n, at, l) + 1].op = "loopstart"
           /\ FindLoop(l) = off + Nearest(n, at, l)
<1>1. \E k \in Starts(n, at, l) : \A j \in Starts(n, at, l) : j <= k
  <2> DEFINE T == {k + 1 : k \in Starts(n, at, l)}
  <2>1. Starts(n, at, l) \subseteq 0..at
    BY DEF Starts
  <2>2. T \in SUBSET (1..at + 1) /\ T # {}
    BY <2>1
  <2>3. at + 1 \in Nat
    OBVIOUS
  <2>4. \E k \in T : \A j \in T : j <= k
    <3> HIDE DEF T
    <3> QED BY <2>2, <2>3, Greatest
  <2>5. PICK k \in Starts(n, at, l) : \A j \in T : j <= k + 1
    BY <2>4
  <2>6. \A j \in Starts(n, at, l) : j + 1 <= k + 1
    BY <2>5
  <2>7. QED
    BY <2>1, <2>6
<1>2. PICK k : k = Nearest(n, at, l)
  OBVIOUS
<1>3. k \in Starts(n, at, l) /\ \A j \in Starts(n, at, l) : j <= k
  BY <1>1, <1>2 DEF Nearest
<1>4. /\ k \in 0..at /\ Code[n][k + 1].op = "loopstart" /\ Code[n][k + 1].loop = l
      /\ \A j \in 0..at : Code[n][j + 1].op = "loopstart" /\ Code[n][j + 1].loop = l => j <= k
  BY <1>3 DEF Starts
<1>5. \A j \in LoopStarts(l) : j \in 0..pc /\ Body(curfunc)[j + 1].op = "loopstart"
                               /\ Body(curfunc)[j + 1].loop = l
  BY DEF LoopStarts
<1>6. off + k \in LoopStarts(l)
  <2>1. k + 1 \in 1..at + 1 /\ off + (k + 1) = off + k + 1 /\ off + k \in 0..pc
    BY <1>4
  <2>2. Body(curfunc)[off + k + 1] = Code[n][k + 1]
    BY <2>1
  <2>3. QED
    BY <1>4, <2>1, <2>2 DEF LoopStarts
<1>7. ASSUME NEW j \in LoopStarts(l) PROVE j <= off + k /\ j \in Nat
  <2>1. j \in 0..pc /\ Body(curfunc)[j + 1].op = "loopstart" /\ Body(curfunc)[j + 1].loop = l
    BY <1>5
  <2>2. CASE j < off
    BY <1>4, <2>1, <2>2
  <2>3. CASE j >= off
    <3>1. PICK i \in 0..at : j = off + i
      <4>1. j - off \in 0..at /\ j = off + (j - off)
        BY <2>1, <2>3
      <4>2. QED
        BY <4>1
    <3>2. i + 1 \in 1..at + 1 /\ off + (i + 1) = j + 1
      BY <3>1
    <3>3. Body(curfunc)[j + 1] = Code[n][i + 1]
      BY <3>2
    <3>4. i <= k
      BY <1>4, <2>1, <3>3
    <3>5. QED
      BY <1>4, <3>1, <3>4
  <2>4. QED
    BY <2>1, <2>2, <2>3
<1>8. FindLoop(l) = off + k
  <2>1. \A j \in LoopStarts(l) : (\A i \in LoopStarts(l) : i <= j) => j = off + k
    <3>1. ASSUME NEW j \in LoopStarts(l), \A i \in LoopStarts(l) : i <= j PROVE j = off + k
      <4>1. off + k <= j /\ j <= off + k /\ j \in Nat /\ off + k \in Nat
        BY <1>4, <1>6, <1>7, <3>1
      <4>2. QED
        BY <4>1
    <3>2. QED
      BY <3>1
  <2>2. \A i \in LoopStarts(l) : i <= off + k
    BY <1>7
  <2>3. QED
    BY <1>6, <2>1, <2>2 DEF FindLoop
<1>9. QED
  BY <1>2, <1>4, <1>6, <1>8

\* BreakInstr and ContinueInstr find their loop and leave the scopes inside it.
LEMMA LeaveLoopStep ==
    ASSUME IInv, LeaveLoop, main' = main
    PROVE  IInv'
<1>1. Running /\ Instr.op \in {"break", "continue"}
  BY DEF LeaveLoop, Is
<1>2. CASE Fault("err")
  BY <1>1, <1>2, RunningSteady, FaultStep
<1>3. CASE ~Fault("err")
  <2>1. PICK K : K = Len(go)
    OBVIOUS
  <2>2. PICK w \in Loaded(curfunc) : \E x \in Reached[w[1]] : AtPlace(w, x, K)
    BY <1>1, <2>1, SomePlace
  <2>3. PICK x \in Reached[w[1]] : AtPlace(w, x, K)
    BY <2>2
  <2>4. /\ w[2] \in Nat /\ x.at \in Nat /\ pc = w[2] + x.at /\ Fed(w[1], x)
        /\ Instr = Code[w[1]][x.at + 1] /\ Instr \in Instruction
        /\ x.scopes \in Seq(Scope) /\ Len(x.scopes) \in Nat /\ Len(x.scopes) <= Len(linear)
        /\ linear \in Seq({"global", Hole} \cup Scope) /\ Len(linear) \in Nat
        /\ x.at \in 0..Len(Code[w[1]]) - 1 /\ Len(Code[w[1]]) \in Nat
    BY <1>1, <2>1, <2>3, PlaceHere
  <2>5. Starts(w[1], x.at, Instr.loop) # {} /\ Instr.scopes <= Len(x.scopes)
    BY <1>1, <2>4 DEF Fed
  <2>6. Instr.scopes \in Nat
    BY <1>1, <2>4, InstructionFields
  <2>7. PICK off, at, n, l : off = w[2] /\ at = x.at /\ n = w[1] /\ l = Instr.loop
    OBVIOUS
  <2>8. \A i \in 1..at + 1 : Body(curfunc)[off + i] = Code[n][i]
    <3>1. main \in Seq(Instruction) /\ curfunc \in Fn
      BY Types
    <3>2. \A i \in 1..Len(Code[w[1]]) : Body(curfunc)[w[2] + i] = Code[w[1]][i]
      BY <3>1, LoadedCode
    <3>3. \A i \in 1..at + 1 : i \in 1..Len(Code[w[1]])
      BY <2>4, <2>7
    <3>4. QED
      BY <2>7, <3>2, <3>3
  <2>9. PICK k : k = Nearest(n, at, l)
    OBVIOUS
  <2>10. k \in 0..at /\ LoopStarts(l) # {} /\ FindLoop(l) = off + k
         /\ Code[n][k + 1].op = "loopstart"
    <3>1. off \in Nat /\ at \in Nat /\ pc = off + at /\ Starts(n, at, l) # {}
      BY <2>4, <2>5, <2>7
    <3>2. QED
      BY <2>8, <2>9, <3>1, LoopFound
  <2>11. PICK loop : loop = Body(curfunc)[FindLoop(l) + 1]
    OBVIOUS
  <2>12. loop = Code[n][k + 1]
    <3>1. off \in Nat /\ at \in Nat /\ k \in 0..at
      BY <2>4, <2>7, <2>10
    <3>2. k + 1 \in 1..at + 1 /\ off + (k + 1) = off + k + 1
      BY <3>1
    <3>3. QED
      BY <2>8, <2>10, <2>11, <3>2
  <2>13. PICK by : by = IF Instr.op = "break" THEN loop.bottom ELSE loop.again
    OBVIOUS
  <2>14. /\ linear' = SubSeq(linear, 1, Len(linear) - Instr.scopes)
         /\ pc' = off + k + by
         /\ UNCHANGED <<curfunc, addr, data, go, ret>>
    BY <1>3, <2>7, <2>10, <2>11, <2>13 DEF LeaveLoop
  <2>15. by \in Nat
    <3>1. k + 1 \in 1..Len(Code[n]) /\ Code[n] \in Seq(Instruction)
      <4>1. main \in Seq(Instruction) /\ curfunc \in Fn
        BY Types
      <4>2. Code[n] \in Seq(Instruction)
        BY <2>7, <4>1, LoadedCode
      <4>3. QED
        BY <2>4, <2>7, <2>10, <4>2, SMTT(30)
    <3>2. loop \in Instruction
      BY <2>12, <3>1
    <3>3. loop.op = "loopstart"
      BY <2>10, <2>12
    <3>4. QED
      BY <2>13, <3>2, <3>3, InstructionFields
  <2>16. PICK to, q, u : to = k + by /\ u = Instr.scopes /\ q = SubSeq(x.scopes, 1, Len(x.scopes) - u)
    OBVIOUS
  <2>17. to \in Targets(w[1], x.at)
    <3>1. CASE Instr.op = "break"
      <4>1. Targets(n, at) = {k + Code[n][k + 1].bottom}
        BY <2>4, <2>7, <2>9, <3>1 DEF Targets
      <4>2. QED
        BY <2>7, <2>12, <2>13, <2>16, <3>1, <4>1
    <3>2. CASE Instr.op = "continue"
      <4>1. Targets(n, at) = {k + Code[n][k + 1].again}
        BY <2>4, <2>7, <2>9, <3>2 DEF Targets
      <4>2. QED
        BY <2>7, <2>12, <2>13, <2>16, <3>2, <4>1
    <3>3. QED
      BY <1>1, <3>1, <3>2
  <2>18. pc' = w[2] + to
    <3>1. off \in Nat /\ k \in Nat
      BY <2>4, <2>7, <2>10
    <3>2. QED
      BY <2>7, <2>14, <2>15, <2>16, <3>1
  <2>19. Takes(Instr, x.ops) = 0 /\ Gives(Instr, x.ops) = <<>> /\ Scopes(Instr, x.scopes) = q
    BY <1>1, <2>16 DEF Takes, Gives, Scopes, Scope
  <2>20. u \in Nat /\ u <= Len(x.scopes) /\ u \in 0..Len(x.scopes) /\ u \in 0..Len(linear)
    <3>1. u \in Nat /\ u <= Len(x.scopes)
      BY <2>5, <2>6, <2>16
    <3>2. QED
      BY <2>4, <3>1
  <2>21. q \in Seq(Scope) /\ Replaced(x.scopes, q, u, <<>>)
    <3>1. x.scopes \in Seq(Scope) /\ u \in 0..Len(x.scopes)
      BY <2>4, <2>20
    <3>2. QED
      BY <2>16, <3>1, ReplacedCut
  <2>22. linear' \in Seq({"global", Hole} \cup Scope) /\ Replaced(linear, linear', u, <<>>)
    <3>1. linear' = SubSeq(linear, 1, Len(linear) - u)
      BY <2>14, <2>16
    <3>2. QED
      BY <2>4, <2>20, <3>1, ReplacedCut
  <2>23. <<>> \in Seq(Scope)
    OBVIOUS
  <2>24. QED
    BY <1>1, <2>1, <2>3, <2>14, <2>17, <2>18, <2>19, <2>20, <2>21, <2>22, <2>23, StepScopes
<1>4. QED
  BY <1>2, <1>3
-----------------------------------------------------------------------------
(* Activations that come and go *)

\* The activations after a step: those up to r are the same, the others are
\* what they have to be.
LEMMA Frames ==
    ASSUME IInv, NEW r \in 1..Len(go), go' \in Seq(FrameType), r <= Len(go'),
           \A j \in 1..r : go'[j] = go[j],
           \A k \in r + 1..Len(go') :
              /\ Shape(k)' /\ go'[k].linear > 0
              /\ \A j \in 1..k - 1 :
                   /\ go'[j].addr <= go'[k].addr /\ go'[j].linear <= go'[k].linear
                   /\ go'[j].kind # "run" => go'[j].data <= Depth(k)'
    PROVE  /\ go' # <<>> /\ Lowest' /\ Nested' /\ \A k \in DOMAIN go' : Shape(k)'
           /\ \A k \in 1..r : Depth(k)' = Depth(k)
<1>1. /\ go \in Seq(FrameType) /\ Len(go) \in Nat /\ r \in Nat /\ r > 0 /\ Len(go') \in Nat
      /\ DOMAIN go' = 1..Len(go') /\ DOMAIN go = 1..Len(go) /\ 1 \in 1..r
      /\ \A k \in 1..r : k \in DOMAIN go
  <2>1. go \in Seq(FrameType) /\ Len(go) \in Nat
    BY Types
  <2>2. QED
    BY <2>1
<1>2. Lowest /\ Nested /\ \A k \in 1..Len(go) : Shape(k)
  <2>1. go # <<>>
    BY <1>1
  <2>2. QED
    BY <2>1, TopFacts
<1>3. ASSUME NEW k \in 1..r PROVE Depth(k)' = Depth(k) /\ (k # 1 => Upon(k)' = Upon(k))
  <2>1. k # 1 => k - 1 \in 1..r
    BY <1>1
  <2>2. QED
    BY <2>1 DEF Depth, Upon
<1>4. ASSUME NEW k \in 1..r PROVE Shape(k)'
  <2>1. Shape(k) /\ k \in Nat
    BY <1>1, <1>2
  <2>2. CASE k = 1
    <3>1. go[1].kind = "run"
      BY <1>2 DEF Lowest
    <3>2. QED
      BY <2>2, <3>1 DEF Shape
  <2>3. CASE k # 1
    BY <1>3, <2>1, <2>3 DEF Shape
  <2>4. QED
    BY <2>2, <2>3
<1>5. ASSUME NEW k \in DOMAIN go' PROVE Shape(k)' /\ go'[k].linear > 0
  <2>1. CASE k \in 1..r
    BY <1>1, <1>2, <1>4, <2>1 DEF Nested
  <2>2. CASE k \in r + 1..Len(go')
    BY <2>2
  <2>3. QED
    BY <1>1, <2>1, <2>2
<1>6. ASSUME NEW j \in DOMAIN go', NEW k \in DOMAIN go', j < k
      PROVE  /\ go'[j].addr <= go'[k].addr /\ go'[j].linear <= go'[k].linear
             /\ go'[j].kind # "run" => go'[j].data <= Depth(k)'
  <2>1. CASE k \in 1..r
    <3>1. j \in 1..r
      BY <1>1, <1>6, <2>1
    <3>2. go'[j] = go[j] /\ go'[k] = go[k] /\ j \in DOMAIN go /\ k \in DOMAIN go
      BY <1>1, <2>1, <3>1
    <3>3. QED
      BY <1>2, <1>3, <1>6, <2>1, <3>2 DEF Nested
  <2>2. CASE k \in r + 1..Len(go')
    <3>1. j \in 1..k - 1
      BY <1>1, <1>6
    <3>2. QED
      BY <2>2, <3>1
  <2>3. QED
    BY <1>1, <2>1, <2>2
<1>7. Lowest' /\ go' # <<>>
  BY <1>1, <1>2 DEF Lowest
<1>8. Nested'
  BY <1>5, <1>6 DEF Nested
<1>9. QED
  BY <1>3, <1>5, <1>7, <1>8

\* The activation that runs is over.
LEMMA Pops ==
    ASSUME IInv, go # <<>>, go' = Below, NEW K, K = Len(go), K > 1
    PROVE  /\ go' \in Seq(FrameType) /\ Len(go') = K - 1 /\ K - 1 \in DOMAIN go
           /\ \A j \in 1..K - 1 : go'[j] = go[j]
           /\ go' # <<>> /\ Lowest' /\ Nested' /\ \A k \in DOMAIN go' : Shape(k)'
<1>1. K \in Nat /\ Below \in Seq(FrameType) /\ Len(Below) = K - 1 /\ \A j \in 1..K - 1 : Below[j] = go[j]
  BY TopFacts
<1>2. /\ K - 1 \in 1..Len(go) /\ go' \in Seq(FrameType) /\ Len(go') = K - 1
      /\ \A j \in 1..K - 1 : go'[j] = go[j]
  BY <1>1
<1>3. \A k \in (K - 1) + 1..Len(go') : FALSE
  BY <1>1, <1>2
<1>4. PICK r : r = K - 1
  OBVIOUS
<1>5. r \in 1..Len(go) /\ r <= Len(go') /\ (\A j \in 1..r : go'[j] = go[j])
  BY <1>1, <1>2, <1>4
<1>6. go' # <<>> /\ Lowest' /\ Nested' /\ \A k \in DOMAIN go' : Shape(k)'
  BY <1>2, <1>3, <1>4, <1>5, Frames
<1>7. go \in Seq(FrameType)
  BY Types
<1>8. K - 1 \in DOMAIN go
  BY <1>2, <1>7
<1>9. QED
  BY <1>2, <1>6, <1>8

\* The parts of the invariant while nothing has failed,
LEMMA Assemble ==
    ASSUME Typed', go' # <<>>, Lowest', Nested', \A k \in DOMAIN go' : Shape(k)',
           ret' \in {"none", "ok"}, \A i \in DOMAIN data' : data'[i] # Hole,
           NEW K, K = Len(go'), \A k \in 2..K : Recorded(k)', Runs(K)',
           ret' = "ok" => go'[K].kind # "eval" \/ ~(Len(data') < go'[K].data)
    PROVE  IInv'
<1>1. ~Short'
  BY DEF Short, Top, Last
<1>2. InOrder'
  BY DEF InOrder
<1>3. QED
  BY <1>1, <1>2 DEF IInv, Steady

\* and while an error travels down.
LEMMA AssembleFailed ==
    ASSUME Typed', go' # <<>>, Lowest', Nested', \A k \in DOMAIN go' : Shape(k)',
           ret' = "err", Intact'
    PROVE  IInv'
BY DEF IInv, Steady, Short

\* What the slots that TruncateToSize adds are.
LEMMA Slots == /\ Hole \in Slot /\ Value \in Slot
               /\ NilAddress \in AddressType /\ NilAddress.fn \in Fn /\ NilAddress.scopes = 0
               /\ \A fn \in {NilAddress.fn} : Body(fn) = <<>>
<1>1. NilAddress.fn \in Fn /\ NilAddress \in AddressType /\ NilAddress.scopes = 0
  BY DEF NilAddress, AddressType, Fn, Go
<1>2. Body(NilAddress.fn) = <<>>
  BY DEF Body, NilAddress, Go
<1>3. QED
  BY <1>1, <1>2 DEF Slot
-----------------------------------------------------------------------------
(* Steps that change more than operands and scopes *)

Entries == {e \in AddressType : Within(e.fn, e.pc)}
Acts == {a \in FrameType : Within(a.curfunc, a.pc)}
Scopings == {"global", Hole} \cup Scope

\* Whether a pc lies in its function does not change while main does not.
LEMMA Within1 ==
    ASSUME main' = main, NEW fn, NEW at
    PROVE  Within(fn, at)' = Within(fn, at)
BY DEF Within, Body

\* The types once more, with every pc inside its function.
LEMMA TypesIn ==
    ASSUME IInv
    PROVE  addr \in Seq(Entries) /\ go \in Seq(Acts) /\ Within(curfunc, pc)
           /\ data \in Seq(Slot) /\ linear \in Seq(Scopings)
<1>1. Typed
  BY DEF IInv
<1>2. addr \in Seq(AddressType) /\ \A k \in 1..Len(addr) : addr[k] \in Entries
  BY <1>1 DEF Typed, Entries
<1>3. go \in Seq(FrameType) /\ \A k \in 1..Len(go) : go[k] \in Acts
  BY <1>1 DEF Typed, Acts
<1>4. addr \in Seq(Entries)
  BY <1>2
<1>5. go \in Seq(Acts)
  BY <1>3
<1>6. QED
  BY <1>1, <1>4, <1>5 DEF Typed, Scopings

\* How the types after a step are shown.
LEMMA TypedNow ==
    ASSUME IInv, main' = main, curfunc' \in Fn, pc' \in Int, Within(curfunc', pc'),
           addr' \in Seq(Entries), linear' \in Seq(Scopings), Len(linear') > 0,
           linear'[1] = "global", data' \in Seq(Slot), go' \in Seq(Acts),
           ret' \in {"none", "ok", "err", "panic"}
    PROVE  Typed'
<1>1. main' \in Seq(Instruction)
  BY Types
<1>2. /\ addr' \in Seq(AddressType)
      /\ \A k \in DOMAIN addr' : Within(addr'[k].fn, addr'[k].pc)
  <2>1. Entries \subseteq AddressType
    BY DEF Entries
  <2>2. \A k \in DOMAIN addr' : addr'[k] \in Entries
    OBVIOUS
  <2>3. QED
    BY <2>1, <2>2 DEF Entries
<1>3. /\ go' \in Seq(FrameType)
      /\ \A k \in DOMAIN go' : Within(go'[k].curfunc, go'[k].pc)
  <2>1. Acts \subseteq FrameType
    BY DEF Acts
  <2>2. \A k \in DOMAIN go' : go'[k] \in Acts
    OBVIOUS
  <2>3. QED
    BY <2>1, <2>2 DEF Acts
<1>4. /\ \A k \in DOMAIN addr' : Within(addr[k].fn, addr[k].pc)'
      /\ \A k \in DOMAIN go' : Within(go[k].curfunc, go[k].pc)'
      /\ Within(curfunc, pc)'
  BY <1>2, <1>3 DEF Within, Body
<1>5. QED
  BY <1>1, <1>2, <1>3, <1>4 DEF Typed, Scopings

\* What is about to call: the operands it takes gone, it waits for answers.
LEMMA Waits ==
    ASSUME IInv, Running, NEW K, K = Len(go), Instr.op \in {"call", "dispatch", "callexpr"},
           NEW t, t = Takes(Instr, <<>>), NEW v, v = Len(Gives(Instr, <<>>))
    PROVE  /\ t \in 0..Len(data)
           /\ Stands(curfunc, pc + 1, Len(addr), K, Len(data) - t, Len(linear), v)
<1>1. PICK w \in Loaded(curfunc) : \E x \in Reached[w[1]] : AtPlace(w, x, K)
  BY SomePlace
<1>2. PICK x \in Reached[w[1]] : AtPlace(w, x, K)
  BY <1>1
<1>3. /\ w[1] \in Proper /\ w[2] \in Nat /\ x.at \in Nat /\ pc = w[2] + x.at
      /\ x.at \in 0..Len(Code[w[1]]) - 1 /\ Len(Code[w[1]]) \in Nat
      /\ Instr = Code[w[1]][x.at + 1] /\ Instr \in Instruction /\ Fed(w[1], x)
      /\ data \in Seq(Own) /\ Len(data) \in Nat
      /\ x.ops \in Seq(Own) /\ Len(x.ops) \in Nat /\ Len(x.ops) <= Len(data)
      /\ x.scopes \in Seq(Scope) /\ Len(x.scopes) \in Nat
  BY <1>2, PlaceHere
<1>4. /\ t = Takes(Instr, x.ops) /\ t \in Nat
      /\ Gives(Instr, x.ops) = Gives(Instr, <<>>) /\ Scopes(Instr, x.scopes) = x.scopes
      /\ Gives(Instr, <<>>) \in {<<>>, <<Value>>}
  <2>1. Instr.op \in {"call", "dispatch"} => Instr.nargs \in Nat
    BY <1>3, InstructionFields
  <2>2. QED
    BY <2>1 DEF Takes, Gives, Scopes, Scope, Answer
<1>5. t <= Len(x.ops)
  BY <1>3, <1>4 DEF Fed
<1>0. PICK g : g = Gives(Instr, x.ops)
  OBVIOUS
<1>6. g \in Seq(Own) /\ Len(g) = v /\ v \in Nat /\ \A i \in 1..v : g[i] = Value
  <2>1. g \in {<<>>, <<Value>>} /\ v = Len(g)
    BY <1>0, <1>4
  <2>2. CASE g = <<>>
    BY <2>1, <2>2, ValueIsOwn
  <2>3. CASE g = <<Value>>
    <3>1. g \in Seq(Own) /\ Len(g) = 1 /\ g[1] = Value
      BY <2>3, ValueIsOwn
    <3>2. v = 1
      BY <2>1, <3>1
    <3>3. \A i \in 1..1 : g[i] = Value
      BY <3>1
    <3>4. \A i \in 1..v : g[i] = Value
      BY <3>2, <3>3
    <3>5. QED
      BY <3>1, <3>2, <3>4
  <2>4. QED
    BY <2>1, <2>2, <2>3
<1>7. PICK q : q = SubSeq(x.ops, 1, Len(x.ops) - t) \o g
  OBVIOUS
<1>8. Replaced(x.ops, q, t, g) /\ q \in Seq(Own)
  <2>1. t \in 0..Len(x.ops) /\ x.ops \in Seq(Own) /\ g \in Seq(Own)
    BY <1>3, <1>4, <1>5, <1>6
  <2>2. QED
    BY <1>7, <2>1, ReplacedConcat
<1>9. PICK y : y = Place(x.at + 1, q, x.scopes)
  OBVIOUS
<1>10. y.at = x.at + 1 /\ y.ops = q /\ y.scopes = x.scopes
  BY <1>9 DEF Place
<1>11. y \in Reached[w[1]]
  <2>1. Instr.op \in Forward
    BY DEF Forward
  <2>2. x.at + 1 \in Targets(w[1], x.at)
    BY <1>3, <2>1, NextTarget
  <2>3. y \in Successors(w[1], x)
    <3>1. ~(x.at >= Len(Code[w[1]]))
      BY <1>3
    <3>2. y = Place(x.at + 1, SubSeq(x.ops, 1, Len(x.ops) - Takes(Instr, x.ops)) \o Gives(Instr, x.ops),
                    Scopes(Instr, x.scopes))
      BY <1>0, <1>4, <1>7, <1>9
    <3>3. QED
      BY <1>3, <2>2, <3>1, <3>2 DEF Successors
  <2>4. QED
    BY <1>3, <2>3, PlaceFacts
<1>12. PICK b : b = OperandBase(curfunc, Len(addr), K)
  OBVIOUS
<1>13. /\ Holds(data, b, Len(data), x.ops, 0)
       /\ Holds(linear, ScopeBase(curfunc, Len(addr), K), Len(linear), x.scopes, 0)
  BY <1>2, <1>12 DEF AtPlace, StandsAt
<1>14. PICK D, N : D = Len(data) /\ N = Len(x.ops) /\ D \in Nat /\ N \in Nat
  BY <1>3
<1>15. b \in 0..D /\ N = D - b /\ \A i \in 1..D - b : data[b + i] = x.ops[i]
  BY <1>13, <1>14 DEF Holds
<1>16. /\ Len(q) = N - t + v
       /\ \A i \in 1..N - t : q[i] = x.ops[i]
       /\ \A i \in 1..v : q[N - t + i] = Value
  BY <1>6, <1>8, <1>14 DEF Replaced
<1>17. Holds(data, b, D - t, y.ops, v)
  <2>1. D - t \in 0..Len(data) /\ b \in 0..D - t /\ Len(q) = (D - t) - b + v
    <3>1. t \in Nat /\ t <= N /\ v \in Nat
      BY <1>4, <1>5, <1>6, <1>14
    <3>2. b \in Nat /\ b <= D /\ N = D - b /\ Len(q) = N - t + v /\ D = Len(data) /\ D \in Nat
      BY <1>14, <1>15, <1>16
    <3>3. QED
      BY <3>1, <3>2, SMTT(30)
  <2>2. ASSUME NEW i \in 1..(D - t) - b PROVE data[b + i] = q[i]
    <3>1. i \in 1..N - t /\ i \in 1..D - b
      BY <1>4, <1>14, <1>15
    <3>2. QED
      BY <1>15, <1>16, <3>1
  <2>3. QED
    BY <1>10, <2>1, <2>2 DEF Holds
<1>18. \A i \in 1..v : y.ops[Len(y.ops) - v + i] = Value
  <2>1. Len(q) - v = N - t
    BY <1>4, <1>6, <1>14, <1>16
  <2>2. QED
    BY <1>10, <1>16, <2>1
<1>19. y.at = (pc + 1) - w[2]
  BY <1>3, <1>10
<1>20. StandsAt(w, y, curfunc, pc + 1, Len(addr), K, Len(data) - t, Len(linear), v)
  <2>1. /\ y.at = (pc + 1) - w[2]
        /\ Holds(data, OperandBase(curfunc, Len(addr), K), Len(data) - t, y.ops, v)
        /\ \A i \in 1..v : y.ops[Len(y.ops) - v + i] = Value
        /\ Holds(linear, ScopeBase(curfunc, Len(addr), K), Len(linear), y.scopes, 0)
    BY <1>10, <1>12, <1>13, <1>14, <1>17, <1>18, <1>19
  <2>2. PICK d, at, l, a : d = Len(data) - t /\ at = pc + 1 /\ l = Len(linear) /\ a = Len(addr)
    OBVIOUS
  <2>3. StandsAt(w, y, curfunc, at, a, K, d, l, v)
    <3>1. y.at = at - w[2]
      BY <2>1, <2>2, Zenon
    <3>2. Holds(data, OperandBase(curfunc, a, K), d, y.ops, v)
      BY <2>1, <2>2, Zenon
    <3>3. Holds(linear, ScopeBase(curfunc, a, K), l, y.scopes, 0)
      BY <2>1, <2>2, Zenon
    <3>4. QED
      BY <2>1, <3>1, <3>2, <3>3, Zenon DEF StandsAt
  <2>4. QED
    BY <2>2, <2>3
<1>21. Stands(curfunc, pc + 1, Len(addr), K, Len(data) - t, Len(linear), v)
  BY <1>11, <1>20 DEF Stands
<1>22. t \in 0..Len(data)
  BY <1>3, <1>4, <1>5
<1>23. QED
  BY <1>21, <1>22

\* While nothing has failed all activations have recorded what they left.
LEMMA InSteps ==
    ASSUME IInv, Steady, NEW r \in DOMAIN go
    PROVE  InOrder /\ r \in 1..Len(go) /\ \A k \in 2..r : Recorded(k)
<1>1. InOrder /\ go \in Seq(FrameType)
  BY Types DEF IInv
<1>2. r \in 1..Len(go) /\ Len(go) \in Nat
  BY <1>1
<1>3. \A k \in 2..r : k \in 2..Len(go)
  BY <1>2
<1>4. QED
  BY <1>1, <1>2, <1>3 DEF InOrder

\* Code that waits in Run r stands above all that the activations up to r have
\* captured.
LEMMA WaitingAll ==
    ASSUME IInv, NEW r \in DOMAIN go, go[r].kind = "run", \A k \in 2..r : Recorded(k),
           NEW n, NEW c, NEW at, NEW d, NEW l, NEW v, Chain(r, n, c), Stands(c, at, n, r, d, l, v)
    PROVE  /\ Depth(r) \in 0..d /\ d \in 0..Len(data) /\ n \in 0..Len(addr) /\ l \in 1..Len(linear)
           /\ \A j \in 1..r : /\ go[j].addr <= n /\ go[j].linear <= l
                              /\ go[j].kind # "run" => go[j].data <= d
<1>1. PICK b, s : b = OperandBase(c, n, r) /\ s = ScopeBase(c, n, r)
  OBVIOUS
<1>2. /\ go[r].addr \in 0..n /\ n \in 0..Len(addr)
      /\ Depth(r) \in 0..b /\ b \in 0..d /\ d \in 0..Len(data)
      /\ go[r].linear \in 1..s /\ s \in 1..l /\ l \in 1..Len(linear)
  BY <1>1, WaitingAbove, SMTT(40)
<1>3. r \in 1..Len(go) /\ r \in Nat /\ r > 0 /\ go \in Seq(FrameType) /\ Len(go) \in Nat
  BY Types
<1>4. Depth(r) \in 0..d /\ go[r].addr <= n /\ go[r].linear <= l
      /\ Depth(r) \in Nat /\ d \in Nat /\ n \in Nat /\ l \in Nat
  <2>1. PICK D, A, L, dd, aa, ll :
          /\ D = Depth(r) /\ A = go[r].addr /\ L = go[r].linear
          /\ dd = Len(data) /\ aa = Len(addr) /\ ll = Len(linear)
    OBVIOUS
  <2>2. dd \in Nat /\ aa \in Nat /\ ll \in Nat
    BY <2>1, Types
  <2>3. A \in 0..n /\ n \in 0..aa /\ D \in 0..b /\ b \in 0..d /\ d \in 0..dd
        /\ L \in 1..s /\ s \in 1..l /\ l \in 1..ll
    BY <1>2, <2>1
  <2>4. D \in 0..d /\ A <= n /\ L <= l /\ D \in Nat /\ d \in Nat /\ n \in Nat /\ l \in Nat
    BY <2>2, <2>3
  <2>5. QED
    BY <2>1, <2>4
<1>5. ASSUME NEW j \in 1..r
      PROVE  /\ go[j].addr <= n /\ go[j].linear <= l
             /\ go[j].kind # "run" => go[j].data <= d
  <2>1. go[j].addr <= go[r].addr /\ go[j].linear <= go[r].linear
    BY Beneath
  <2>2. j \in DOMAIN go /\ go # <<>>
    BY <1>3
  <2>3. /\ go[j].addr \in Nat /\ go[j].linear \in Nat /\ go[j].data \in Nat
        /\ go[r].addr \in Nat /\ go[r].linear \in Nat
    BY <1>3, <2>2, FrameFields
  <2>4. go[j].kind # "run" => go[j].data <= Depth(r)
    <3>1. go[j].kind # "run" => j < r
      BY <1>3
    <3>2. QED
      BY <3>1, <2>2 DEF IInv, Nested
  <2>5. go[j].kind # "run" => go[j].data <= d
    BY <1>4, <2>3, <2>4
  <2>6. QED
    BY <1>4, <2>1, <2>3, <2>5
<1>6. QED
  BY <1>2, <1>4, <1>5

\* A call, or a Go function, is put upon the Run whose code calls it.
LEMMA Upward ==
    ASSUME IInv, Steady, main' = main, NEW r \in DOMAIN go, go[r].kind = "run",
           go' \in Seq(FrameType), Len(go') = r + 1, \A j \in 1..r : go'[j] = go[j],
           NEW F, F = go'[r + 1], F.kind \in {"call", "user"}, Shape(r + 1)',
           NEW c, NEW at, NEW n, NEW l, NEW d, NEW v,
           c = curfunc, n = Len(addr), l = Len(linear), at = F.pc + 1,
           F.addr = n, F.linear = l, F.curfunc = c, d = Depth(r + 1)',
           v = IF F.kind = "call" THEN Len(Answer(F.f)) ELSE 1,
           Chain(r, n, c), Stands(c, at, n, r, d, l, v),
           addr' \in Seq(AddressType), n <= Len(addr'), \A i \in 1..n : addr'[i] = addr[i],
           linear' = linear,
           Len(data') \in Nat, d <= Len(data'), \A i \in 1..d : data'[i] = data[i]
    PROVE  /\ go' # <<>> /\ Lowest' /\ Nested' /\ \A k \in DOMAIN go' : Shape(k)'
           /\ \A k \in 2..r + 1 : Recorded(k)'
<1>1. r \in 1..Len(go) /\ r \in Nat /\ r > 0 /\ \A k \in 2..r : Recorded(k)
  <2>1. r \in 1..Len(go) /\ \A k \in 2..r : Recorded(k)
    BY InSteps, ZenonT(30)
  <2>2. r \in Nat /\ r > 0
    BY <2>1
  <2>3. QED
    BY <2>1, <2>2
<1>3. /\ Depth(r) \in 0..d /\ d \in 0..Len(data) /\ n \in 0..Len(addr) /\ l \in 1..Len(linear)
      /\ \A j \in 1..r : /\ go[j].addr <= n /\ go[j].linear <= l
                         /\ go[j].kind # "run" => go[j].data <= d
  BY <1>1, WaitingAll, SMTT(40)
<1>4. Len(data) \in Nat /\ Len(linear) \in Nat /\ Len(addr) \in Nat /\ n \in Nat /\ l \in Nat /\ d \in Nat
      /\ go \in Seq(FrameType) /\ addr \in Seq(AddressType)
  BY <1>3, Types
<1>6. /\ go' # <<>> /\ Lowest' /\ Nested' /\ \A k \in DOMAIN go' : Shape(k)'
      /\ Depth(r)' = Depth(r)
  <2>1. ASSUME NEW k \in r + 1..Len(go')
        PROVE  /\ Shape(k)' /\ go'[k].linear > 0
               /\ \A j \in 1..k - 1 :
                    /\ go'[j].addr <= go'[k].addr /\ go'[j].linear <= go'[k].linear
                    /\ go'[j].kind # "run" => go'[j].data <= Depth(k)'
    <3>1. k = r + 1
      BY <1>1
    <3>2. go'[k].linear > 0
      BY <1>3, <1>4, <3>1, SMTT(30)
    <3>3. \A j \in 1..k - 1 : j \in 1..r /\ go'[j] = go[j]
      BY <1>1, <3>1, SMTT(30)
    <3>4. ASSUME NEW j \in 1..r
          PROVE  /\ go'[j].addr <= go'[r + 1].addr /\ go'[j].linear <= go'[r + 1].linear
                 /\ go'[j].kind # "run" => go'[j].data <= Depth(r + 1)'
      <4>1. go'[j] = go[j]
        OBVIOUS
      <4>2. go[j].addr <= n /\ go[j].linear <= l /\ (go[j].kind # "run" => go[j].data <= d)
        BY <1>3
      <4>3. QED
        BY <4>1, <4>2
    <3>5. 1..k - 1 = 1..r
      BY <1>1, <3>1
    <3>6. QED
      BY <3>1, <3>2, <3>4, <3>5
  <2>2. r <= Len(go') /\ r \in 1..r
    BY <1>1
  <2>3. QED
    BY <1>1, <2>1, <2>2, Frames
<1>7. \A k \in 2..r : Recorded(k)'
  <2>1. \A j \in 1..r - 1 : go'[j] = go[j]
    <3>1. \A j \in 1..r - 1 : j \in 1..r
      BY <1>1
    <3>2. QED
      BY <3>1, ZenonT(30)
  <2>2. SameFrame(go[r], go'[r])
    BY <1>1, SMTT(30) DEF SameFrame
  <2>3. Depth(r) <= d
    BY <1>3, <1>4
  <2>4. l <= Len(linear') /\ \A i \in 1..l : linear'[i] = linear[i]
    BY <1>4
  <2>5. r > 1 => go[r - 1].addr <= n /\ go[r - 1].linear <= l
    <3>1. ASSUME r > 1 PROVE r - 1 \in 1..r
      BY <1>1, <3>1
    <3>2. ASSUME NEW j \in 1..r PROVE go[j].addr <= n /\ go[j].linear <= l
      BY <1>3
    <3>3. QED
      BY <3>1, <3>2
  <2>6. Len(linear') \in Nat
    BY <1>4
  <2>7. QED
    BY <1>1, <1>4, <2>1, <2>2, <2>3, <2>4, <2>5, <2>6, LowerKept
<1>8. Chain(r, n, c)' /\ Stands(c, at, n, r, d, l, v)'
  <2>1. go'[r] = go[r]
    <3>1. r \in 1..r
      BY <1>1
    <3>2. QED
      BY <3>1, ZenonT(30)
  <2>2. IF r = 1 THEN ~Owns(go[r].curfunc) ELSE go'[r - 1] = go[r - 1]
    <3>1. CASE r = 1
      <4>1. go # <<>>
        BY <1>1, <1>4
      <4>2. go[1].curfunc = MainFunc
        BY <4>1 DEF IInv, Lowest
      <4>3. QED
        BY <3>1, <4>2 DEF Owns, MainFunc
    <3>2. CASE r # 1
      <4>1. r - 1 \in 1..r
        BY <1>1, <3>2, SMTT(30)
      <4>2. QED
        BY <3>2, <4>1
    <3>3. QED
      BY <3>1, <3>2
  <2>3. l <= Len(linear') /\ (\A i \in 1..l : linear'[i] = linear[i]) /\ Len(linear') \in Nat
    BY <1>4
  <2>4. QED
    BY <1>4, <2>1, <2>2, <2>3, WaitingKept, ZenonT(30)
<1>9. Recorded(r + 1)'
  <2>1. (r + 1) - 1 = r
    BY <1>1
  <2>2. F.curfunc = c /\ F.addr = n /\ F.linear = l /\ at = F.pc + 1
    OBVIOUS
  <2>3. CallOn(r + 1)'
    BY <1>8, <2>1, <2>2 DEF CallOn
  <2>4. QED
    BY <2>3 DEF Recorded
<1>10. \A k \in 2..r + 1 : k \in 2..r \/ k = r + 1
  BY <1>1
<1>11. QED
  BY <1>6, <1>7, <1>9, <1>10

\* The place where code stands lies in its body.
LEMMA StandsWithin ==
    ASSUME main \in Seq(Instruction), NEW fn \in Fn, NEW at, NEW a, NEW r, NEW d, NEW l, NEW n,
           Stands(fn, at, a, r, d, l, n), at \in Int
    PROVE  at \in Nat /\ at <= Len(Body(fn))
<1>1. PICK w \in Loaded(fn) : \E x \in Reached[w[1]] : StandsAt(w, x, fn, at, a, r, d, l, n)
  BY DEF Stands
<1>2. PICK x \in Reached[w[1]] : StandsAt(w, x, fn, at, a, r, d, l, n)
  BY <1>1
<1>3. x.at = at - w[2]
  BY <1>2 DEF StandsAt
<1>4. PICK N, M : N = Len(Code[w[1]]) /\ M = Len(Body(fn))
  OBVIOUS
<1>5. w[1] \in Proper /\ w[2] \in Nat /\ N \in Nat /\ M \in {w[2] + N, w[2] + N + 1}
  <2>1. /\ w[1] \in Proper /\ w[2] \in Nat /\ Len(Code[w[1]]) \in Nat
        /\ Len(Body(fn)) = w[2] + Len(Code[w[1]]) + (IF fn[1] = "thunk" THEN 1 ELSE 0)
    BY LoadedCode
  <2>2. QED
    BY <1>4, <2>1
<1>6. x.at \in 0..N
  BY <1>4, <1>5, PlaceFacts
<1>7. at \in Nat /\ at <= M
  BY <1>3, <1>5, <1>6
<1>8. QED
  BY <1>4, <1>7

\* CallUserFunction up to the Go function.
LEMMA EnterBuiltinStep ==
    ASSUME IInv, Steady, main' = main, NEW r \in DOMAIN go, go[r].kind = "run",
           NEW rest \in Seq(Acts), Len(rest) = r, \A j \in 1..r : rest[j] = go[j],
           NEW b \in Builtin, NEW nargs \in Nat, NEW extra \in Nat, NEW n, n = nargs + extra,
           n <= Len(data), NEW d, d = Len(data) - n, NEW base \in {-1, d},
           EnterBuiltin(b, nargs, rest, base, extra), Chain(r, Len(addr), curfunc),
           Stands(curfunc, pc + 1, Len(addr), r, d, Len(linear), 1)
    PROVE  IInv'
<1>1. /\ curfunc \in Fn /\ pc \in Int /\ addr \in Seq(AddressType) /\ Len(addr) \in Nat
      /\ linear \in Seq(Scopings) /\ Len(linear) \in Nat /\ Len(linear) > 0 /\ linear[1] = "global"
      /\ data \in Seq(Slot) /\ Len(data) \in Nat /\ go \in Seq(FrameType) /\ main \in Seq(Instruction)
      /\ addr \in Seq(Entries) /\ n \in Nat /\ d \in Nat /\ d <= Len(data)
  <2>1. n \in Nat /\ d \in Nat /\ d <= Len(data)
    BY Types
  <2>2. QED
    BY <2>1, Types, TypesIn
<1>2. \A i \in DOMAIN data : data[i] # Hole
  BY InSteps DEF InOrder
<1>3. Enough(n) /\ Solid(n)
  <2>1. \A k \in (Len(data) - n + 1)..Len(data) : k \in 1..Len(data)
    BY <1>1
  <2>2. QED
    <3>1. Enough(n)
      BY <1>1 DEF Enough
    <3>2. ASSUME NEW k \in (Len(data) - n + 1)..Len(data) PROVE data[k] # Hole
      <4>1. k \in DOMAIN data
        BY <1>1, <2>1
      <4>2. QED
        BY <1>2, <4>1
    <3>4. Solid(n)
      BY <3>2 DEF Solid
    <3>3. QED
      BY <3>1, <3>4
<1>4. PICK F, e, A, L, c, at :
        /\ F = [Frame("user", b, <<>>, base) EXCEPT !.data = Len(data) - n]
        /\ e = Address(curfunc, pc + 1, n)
        /\ A = Len(addr) /\ L = Len(linear) /\ c = curfunc /\ at = pc + 1
  OBVIOUS
<1>5. /\ data' = Drop(n) /\ go' = Append(rest, F) /\ addr' = Append(addr, e)
      /\ curfunc' = Go(b) /\ pc' = -1 /\ ret' = "none" /\ linear' = linear
  BY <1>3, <1>4 DEF EnterBuiltin
<1>6. /\ F.kind = "user" /\ F.f = b /\ F.items = <<>> /\ F.i = 0 /\ F.base = base
      /\ F.curfunc = c /\ F.pc = pc /\ F.addr = A /\ F.linear = L /\ F.data = d
      /\ F = [kind |-> "user", f |-> b, items |-> <<>>, i |-> 0, base |-> base,
              curfunc |-> c, pc |-> pc, addr |-> A, linear |-> L, data |-> d]
  BY <1>4 DEF Frame
<1>7. e.fn = c /\ e.pc = at /\ e.operands = d /\ e.scopes = L
      /\ e = [fn |-> c, pc |-> at, operands |-> d, scopes |-> L]
  BY <1>4 DEF Address
<1>8. Chain(r, A, c) /\ Stands(c, at, A, r, d, L, 1)
  BY <1>4
<1>9. at \in Nat /\ at <= Len(Body(c))
  BY <1>1, <1>4, <1>8, StandsWithin, SMTT(30)
<1>10. F \in Acts
  <2>1. F \in FrameType
    <3>1. /\ b \in Name \cup Builtin \cup {"main"} /\ <<>> \in Seq(Name) /\ 0 \in Nat /\ base \in Int
          /\ c \in Fn /\ pc \in Int /\ A \in Nat /\ L \in Nat /\ d \in Nat
      BY <1>1, <1>4, SMTT(30)
    <3>2. QED
      BY <1>6, <3>1 DEF FrameType
  <2>2. Within(F.curfunc, F.pc)
    BY <1>4, <1>6, TypesIn
  <2>3. QED
    BY <2>1, <2>2 DEF Acts
<1>11. e \in Entries
  <2>1. e \in AddressType
    BY <1>1, <1>4, <1>7, <1>9 DEF AddressType
  <2>2. Len(Body(c)) \in Nat
    BY <1>1, <1>4, BodyIsSeq
  <2>3. Within(e.fn, e.pc)
    BY <1>7, <1>9, <2>2 DEF Within
  <2>4. QED
    BY <2>1, <2>3 DEF Entries
<1>12. /\ go' \in Seq(Acts) /\ Len(go') = r + 1 /\ go'[r + 1] = F /\ \A j \in 1..r : go'[j] = go[j]
       /\ go' \in Seq(FrameType)
  <2>1. go' \in Seq(Acts) /\ Len(go') = r + 1 /\ go'[r + 1] = F /\ \A j \in 1..r : go'[j] = rest[j]
    BY <1>5, <1>10, AppendSeq, SMTT(30)
  <2>2. Acts \subseteq FrameType
    BY DEF Acts
  <2>3. go' \in Seq(FrameType)
    BY <2>1, <2>2
  <2>4. QED
    BY <2>1, <2>3
<1>13. /\ addr' \in Seq(Entries) /\ Len(addr') = A + 1 /\ addr'[A + 1] = e
       /\ \A i \in 1..A : addr'[i] = addr[i]
       /\ addr' \in Seq(AddressType)
  <2>1. addr' \in Seq(Entries) /\ Len(addr') = A + 1 /\ addr'[A + 1] = e /\ \A i \in 1..A : addr'[i] = addr[i]
    BY <1>1, <1>4, <1>5, <1>11, AppendSeq
  <2>2. Entries \subseteq AddressType
    BY DEF Entries
  <2>3. addr' \in Seq(AddressType)
    BY <2>1, <2>2
  <2>4. QED
    BY <2>1, <2>3
<1>14. /\ data' \in Seq(Slot) /\ Len(data') = d /\ \A i \in 1..d : data'[i] = data[i]
  <2>1. data' = SubSeq(data, 1, Len(data) - n) /\ Len(data) - n = d
    BY <1>5 DEF Drop
  <2>2. data' = SubSeq(data, 1, d)
    BY <2>1
  <2>3. PICK D : D = data
    OBVIOUS
  <2>4. D \in Seq(Slot) /\ d \in 0..Len(D)
    BY <1>1, <2>3
  <2>5. /\ SubSeq(D, 1, d) \in Seq(Slot) /\ Len(SubSeq(D, 1, d)) = d
        /\ \A i \in 1..d : SubSeq(D, 1, d)[i] = D[i]
    BY <2>4, SMTT(30)
  <2>6. QED
    BY <2>2, <2>3, <2>5
<1>15. Typed'
  <2>1. Go(b) \in Fn /\ Within(Go(b), -1)
    <3>1. Go(b) \in Fn
      BY DEF Go, Fn
    <3>2. Len(Body(Go(b))) \in Nat
      BY <1>1, <3>1, BodyIsSeq
    <3>3. QED
      BY <3>1, <3>2 DEF Within
  <2>2. QED
    BY <1>1, <1>5, <1>12, <1>13, <1>14, <2>1, TypedNow
<1>16. r \in Nat /\ r > 0
  BY <1>1, SMTT(30)
<1>17. Depth(r + 1)' = d
  BY <1>6, <1>12 DEF Depth
<1>18. Shape(r + 1)'
  <2>1. Upon(r + 1)' = go[r]
    BY <1>12, <1>16, SMTT(30) DEF Upon
  <2>2. QED
    BY <1>6, <1>12, <1>16, <2>1 DEF Shape
<1>19. /\ go' # <<>> /\ Lowest' /\ Nested' /\ \A k \in DOMAIN go' : Shape(k)'
       /\ \A k \in 2..r + 1 : Recorded(k)'
  <2>1. at = F.pc + 1 /\ F.kind \in {"call", "user"} /\ 1 = (IF F.kind = "call" THEN Len(Answer(F.f)) ELSE 1)
    BY <1>4, <1>6
  <2>2. A <= Len(addr') /\ d <= Len(data') /\ Len(data') \in Nat
    <3>1. A \in Nat
      BY <1>1, <1>4
    <3>2. QED
      BY <1>1, <1>13, <1>14, <3>1
  <2>3. linear' = linear /\ A = Len(addr) /\ L = Len(linear) /\ c = curfunc /\ d = Depth(r + 1)'
    BY <1>4, <1>5, <1>17
  <2>4. F.addr = A /\ F.linear = L /\ F.curfunc = c /\ F = go'[r + 1]
    BY <1>6, <1>12
  <2>5. QED
    BY <1>8, <1>12, <1>13, <1>14, <1>18, <2>1, <2>2, <2>3, <2>4, Upward, ZenonT(30)
<1>20. Runs(r + 1)'
  <2>1. UserEntry(r + 1, Len(addr), Len(linear))'
    <3>1. A \in Nat /\ L \in Nat /\ d \in Nat /\ L = Len(linear') /\ A + 1 = Len(addr')
      BY <1>1, <1>4, <1>5, <1>13
    <3>2. /\ A + 1 = F.addr + 1 /\ A + 1 <= Len(addr') /\ L = F.linear /\ L <= Len(linear')
          /\ addr'[A + 1].fn = F.curfunc /\ addr'[A + 1].pc = F.pc + 1
          /\ F.data + F.i <= Len(data')
      BY <1>4, <1>6, <1>7, <1>13, <1>14, <3>1, SMTT(30)
    <3>3. \A i \in 1..F.i : data'[F.data + i] = Value
      BY <1>6
    <3>4. go'[r + 1] = F
      BY <1>12
    <3>5. QED
      BY <3>1, <3>2, <3>3, <3>4 DEF UserEntry
  <2>2. TopUser(r + 1)'
    <3>1. curfunc' = Go(F.f) /\ pc' = -1 /\ go'[r + 1] = F
      BY <1>5, <1>6, <1>12
    <3>3. Len(data') = F.data + F.i
      BY <1>1, <1>6, <1>14
    <3>2. QED
      BY <2>1, <3>1, <3>3 DEF TopUser
  <2>3. QED
    BY <1>6, <1>12, <2>2 DEF Runs
<1>21. \A i \in DOMAIN data' : data'[i] # Hole
  <2>1. ASSUME NEW i \in 1..d PROVE data'[i] # Hole
    <3>1. i \in DOMAIN data
      BY <1>1
    <3>2. QED
      BY <1>2, <1>14, <3>1
  <2>2. DOMAIN data' = 1..d
    BY <1>14
  <2>3. QED
    BY <2>1, <2>2
<1>22. QED
  BY <1>5, <1>12, <1>15, <1>19, <1>20, <1>21, Assemble

\* CallInstr on array and DispatchInstr: a Go function is entered from an
\* instruction.
LEMMA CallGoStep ==
    ASSUME IInv, CallGo, main' = main
    PROVE  IInv'
<1>1. PICK K, b, nargs, extra, n, d, v :
        /\ K = Len(go) /\ b = Instr.f /\ nargs = Instr.nargs
        /\ extra = (IF Instr.op = "call" THEN 0 ELSE 1)
        /\ n = nargs + extra /\ d = Len(data) - n /\ v = Len(Gives(Instr, <<>>))
  OBVIOUS
<1>2. Running /\ Instr.op \in {"call", "dispatch"} /\ EnterBuiltin(b, nargs, go, -1, extra)
  BY <1>1 DEF CallGo, Is
<1>3. Steady /\ go # <<>> /\ K \in DOMAIN go /\ go[K].kind = "run" /\ InCode(K)
  BY <1>1, <1>2, RunningSteady, RunningInCode, TopFacts
<1>4. b \in Builtin /\ nargs \in Nat
  BY <1>1, <1>2, IsInstruction, InstructionFields
<1>5. n = Takes(Instr, <<>>) /\ v = 1
  BY <1>1, <1>2, <1>4 DEF Takes, Gives
<1>6. n \in 0..Len(data) /\ Stands(curfunc, pc + 1, Len(addr), K, d, Len(linear), 1)
  BY <1>1, <1>2, <1>5, Waits
<1>7. Chain(K, Len(addr), curfunc)
  BY <1>3 DEF InCode
<1>8. go \in Seq(Acts) /\ \A j \in 1..K : go[j] = go[j]
  BY TypesIn
<1>9. extra \in Nat /\ -1 \in {-1, d} /\ n <= Len(data)
  BY <1>1, <1>6, Types
<1>10. QED
  BY <1>1, <1>2, <1>3, <1>4, <1>6, <1>7, <1>8, <1>9, EnterBuiltinStep, ZenonT(30)

\* CallExpr starts.
LEMMA CallExprStep ==
    ASSUME IInv, CallExpr, main' = main
    PROVE  IInv'
<1>1. Running /\ Instr.op = "callexpr"
  BY DEF CallExpr, Is
<1>2. PICK K, F, A, L, D, c, at, v :
        /\ K = Len(go) /\ F = Frame("call", Instr.f, Instr.items, Len(data))
        /\ A = Len(addr) /\ L = Len(linear) /\ D = Len(data) /\ c = curfunc /\ at = pc + 1
        /\ v = Len(Answer(Instr.f))
  OBVIOUS
<1>3. /\ go' = Append(go, F) /\ curfunc' = curfunc /\ pc' = pc /\ addr' = addr
      /\ linear' = linear /\ data' = data /\ ret' = ret
  BY <1>2 DEF CallExpr, env
<1>4. Steady /\ ret = "none" /\ go # <<>> /\ K \in DOMAIN go /\ go[K].kind = "run" /\ InCode(K)
      /\ K \in Nat /\ K > 0
  BY <1>1, <1>2, RunningSteady, RunningInCode, TopFacts
<1>5. /\ curfunc \in Fn /\ pc \in Int /\ addr \in Seq(Entries) /\ addr \in Seq(AddressType) /\ A \in Nat
      /\ linear \in Seq(Scopings) /\ L \in Nat /\ L > 0 /\ linear[1] = "global"
      /\ data \in Seq(Slot) /\ D \in Nat /\ go \in Seq(FrameType) /\ go \in Seq(Acts)
      /\ Within(curfunc, pc)
  BY <1>2, Types, TypesIn
<1>6. /\ Instr.f \in Name \cup Builtin /\ Instr.items \in Seq(Name)
      /\ Instr.items # <<>>
      /\ \A k \in DOMAIN Instr.items : Runnable(Instr.items[k]) /\ Instr.items[k] \notin Void
  <2>1. PICK w \in Loaded(curfunc) : \E x \in Reached[w[1]] : AtPlace(w, x, K)
    BY <1>1, <1>2, SomePlace
  <2>2. PICK x \in Reached[w[1]] : AtPlace(w, x, K)
    BY <2>1
  <2>3. /\ w[1] \in Proper /\ x.at \in 0..Len(Code[w[1]]) - 1 /\ Instr = Code[w[1]][x.at + 1]
        /\ Len(Code[w[1]]) \in Nat
    BY <1>1, <1>2, <2>2, PlaceHere
  <2>4. x.at + 1 \in DOMAIN Code[w[1]]
    BY <1>5, <2>3, Types, LoadedCode
  <2>5. Arguments(Instr)
    BY <2>3, <2>4, CodeAssumption
  <2>6. Instr \in Instruction
    BY <1>1, IsInstruction
  <2>7. QED
    BY <1>1, <2>5, <2>6, InstructionFields DEF Arguments
<1>7. /\ F.kind = "call" /\ F.f = Instr.f /\ F.items = Instr.items /\ F.i = 0 /\ F.base = D
      /\ F.curfunc = c /\ F.pc = pc /\ F.addr = A /\ F.linear = L /\ F.data = D
      /\ F = [kind |-> "call", f |-> Instr.f, items |-> Instr.items, i |-> 0, base |-> D,
              curfunc |-> c, pc |-> pc, addr |-> A, linear |-> L, data |-> D]
  BY <1>2 DEF Frame
<1>8. Chain(K, A, c) /\ Stands(c, at, A, K, D, L, v)
  <2>1. 0 = Takes(Instr, <<>>) /\ v = Len(Gives(Instr, <<>>))
    BY <1>1, <1>2 DEF Takes, Gives
  <2>2. Stands(curfunc, pc + 1, Len(addr), K, Len(data) - 0, Len(linear), v)
    BY <1>1, <1>2, <2>1, Waits
  <2>3. Len(data) - 0 = D
    BY <1>2, <1>5
  <2>4. QED
    BY <1>2, <1>4, <2>2, <2>3 DEF InCode
<1>9. F \in Acts
  <2>1. F \in FrameType
    <3>1. /\ Instr.f \in Name \cup Builtin \cup {"main"} /\ D \in Int /\ 0 \in Nat /\ c \in Fn
      BY <1>2, <1>5, <1>6
    <3>2. QED
      BY <1>5, <1>6, <1>7, <3>1 DEF FrameType
  <2>2. QED
    BY <1>2, <1>5, <1>7, <2>1 DEF Acts
<1>10. /\ go' \in Seq(Acts) /\ Len(go') = K + 1 /\ go'[K + 1] = F /\ \A j \in 1..K : go'[j] = go[j]
       /\ go' \in Seq(FrameType)
  <2>1. go' \in Seq(Acts) /\ Len(go') = K + 1 /\ go'[K + 1] = F /\ \A j \in 1..K : go'[j] = go[j]
    BY <1>2, <1>3, <1>5, <1>9, AppendSeq
  <2>2. Acts \subseteq FrameType
    BY DEF Acts
  <2>3. go' \in Seq(FrameType)
    BY <2>1, <2>2
  <2>4. QED
    BY <2>1, <2>3
<1>11. Typed'
  <2>1. ret' \in {"none", "ok", "err", "panic"} /\ Len(linear') > 0
    BY <1>2, <1>3, <1>4, <1>5
  <2>2. QED
    BY <1>3, <1>5, <1>10, <2>1, TypedNow
<1>12. Depth(K + 1)' = D
  BY <1>7, <1>10 DEF Depth
<1>13. Shape(K + 1)'
  <2>1. Upon(K + 1)' = go[K]
    BY <1>4, <1>10 DEF Upon
  <2>2. /\ F.base >= 0 /\ F.base <= F.data /\ F.items # <<>> /\ F.i <= Len(F.items)
        /\ \A j \in DOMAIN F.items : Runnable(F.items[j]) /\ F.items[j] \notin Void
    BY <1>5, <1>6, <1>7
  <2>3. QED
    BY <1>4, <1>7, <1>10, <2>1, <2>2 DEF Shape
<1>14. /\ go' # <<>> /\ Lowest' /\ Nested' /\ \A k \in DOMAIN go' : Shape(k)'
       /\ \A k \in 2..K + 1 : Recorded(k)'
  <2>1. at = F.pc + 1 /\ F.kind \in {"call", "user"}
        /\ v = (IF F.kind = "call" THEN Len(Answer(F.f)) ELSE 1)
    BY <1>2, <1>7
  <2>2. A <= Len(addr') /\ D <= Len(data') /\ Len(data') \in Nat /\ addr' \in Seq(AddressType)
    BY <1>2, <1>3, <1>5
  <2>3. /\ \A i \in 1..A : addr'[i] = addr[i]
        /\ \A i \in 1..D : data'[i] = data[i]
    BY <1>3
  <2>4. linear' = linear /\ A = Len(addr) /\ L = Len(linear) /\ c = curfunc /\ D = Depth(K + 1)'
    BY <1>2, <1>3, <1>12
  <2>5. F.addr = A /\ F.linear = L /\ F.curfunc = c /\ F = go'[K + 1]
    BY <1>7, <1>10
  <2>6. QED
    BY <1>4, <1>8, <1>10, <1>13, <2>1, <2>2, <2>3, <2>4, <2>5, Upward, ZenonT(30)
<1>15. Runs(K + 1)'
  <2>1. TopCall(K + 1)'
    <3>1. Pushed(F.i) = 0
      BY <1>7 DEF Pushed
    <3>2. Len(data') = D /\ Len(addr') = A /\ Len(linear') = L /\ D = D + 0 /\ D <= D
      BY <1>2, <1>3, <1>5
    <3>3. \A i \in D + 1..Len(data') : FALSE
      BY <1>5, <3>2
    <3>4. curfunc' = c /\ pc' = pc /\ ret' = "none"
      BY <1>2, <1>3, <1>4
    <3>5. QED
      BY <1>7, <1>10, <3>1, <3>2, <3>3, <3>4 DEF TopCall, AllValues, Pushed
  <2>2. QED
    BY <1>7, <1>10, <2>1 DEF Runs
<1>16. \A i \in DOMAIN data' : data'[i] # Hole
  BY <1>3, <1>4, InSteps DEF InOrder
<1>17. QED
  BY <1>3, <1>4, <1>10, <1>11, <1>14, <1>15, <1>16, Assemble
-----------------------------------------------------------------------------
(* A compiled function returns *)

\* The values waited for are there.
LEMMA StandsGrown ==
    ASSUME NEW fn, NEW at, NEW a, NEW r, NEW d \in Nat, NEW l, NEW n \in Nat,
           Stands(fn, at, a, r, d, l, n)', Len(data') = d + n, \A i \in 1..n : data'[d + i] = Value
    PROVE  Stands(fn, at, a, r, d + n, l, 0)'
<1>1. PICK w \in Loaded(fn)' : \E x \in Reached[w[1]] : StandsAt(w, x, fn, at, a, r, d, l, n)'
  BY DEF Stands
<1>2. PICK x \in Reached[w[1]] : StandsAt(w, x, fn, at, a, r, d, l, n)'
  BY <1>1
<1>3. PICK b, z : b = OperandBase(fn, a, r)' /\ z = data'
  OBVIOUS
<1>4. /\ b \in 0..d /\ Len(x.ops) = d - b + n
      /\ \A i \in 1..d - b : z[b + i] = x.ops[i]
  BY <1>2, <1>3 DEF StandsAt, Holds
<1>5. \A i \in 1..n : x.ops[Len(x.ops) - n + i] = Value
  BY <1>2 DEF StandsAt
<1>6. PICK N : N = Len(x.ops) /\ N = d - b + n
  BY <1>4
<1>7. ASSUME NEW i \in 1..(d + n) - b PROVE z[b + i] = x.ops[i]
  <2>1. CASE i <= d - b
    <3>1. i \in 1..d - b
      BY <1>4, <2>1
    <3>2. QED
      BY <1>4, <3>1
  <2>2. CASE ~(i <= d - b)
    <3>1. i - (d - b) \in Int
      BY <1>4
    <3>2. PICK j \in Int : j = i - (d - b)
      BY <3>1
    <3>3. j \in 1..n /\ b + i = d + j /\ i = N - n + j
      BY <1>4, <1>6, <2>2, <3>2
    <3>4. z[d + j] = Value /\ x.ops[N - n + j] = Value
      BY <1>3, <1>5, <1>6, <3>3
    <3>5. QED
      BY <3>3, <3>4
  <2>3. QED
    BY <2>1, <2>2
<1>8. Holds(z, b, d + n, x.ops, 0)
  <2>1. d + n \in 0..Len(z) /\ b \in 0..d + n /\ Len(x.ops) = (d + n) - b + 0
    BY <1>3, <1>4
  <2>2. QED
    BY <1>7, <2>1 DEF Holds
<1>9. StandsAt(w, x, fn, at, a, r, d + n, l, 0)'
  <2>1. \A i \in 1..0 : x.ops[Len(x.ops) - 0 + i] = Value
    OBVIOUS
  <2>2. QED
    BY <1>2, <1>3, <1>8, <2>1 DEF StandsAt
<1>10. QED
  BY <1>9 DEF Stands

\* The last caller on the address stack stands where the call was made, the
\* result being all it waits for.
LEMMA ChainPopped ==
    ASSUME go \in Seq(FrameType), addr \in Seq(AddressType), NEW r \in DOMAIN go,
           NEW n, NEW c, Chain(r, n, c), n > go[r].addr
    PROVE  /\ n \in 1..Len(addr) /\ c[1] = "func"
           /\ Chain(r, n - 1, addr[n].fn)
           /\ Stands(addr[n].fn, addr[n].pc, n - 1, r, addr[n].operands, addr[n].scopes, Answers(c))
<1>1. PICK g, N : g = go[r].addr /\ N = Len(addr)
  OBVIOUS
<1>2. g \in Nat /\ n \in g..N /\ N \in Nat /\ n \in Nat /\ n \in g + 1..n
  <2>1. g \in Nat /\ N \in Nat
    BY <1>1, FrameFields
  <2>2. n \in g..N /\ n > g
    BY <1>1 DEF Chain
  <2>3. QED
    BY <2>1, <2>2
<1>3. ASSUME NEW j \in g..n - 1 PROVE Callee(j, n - 1, addr[n].fn) = Callee(j, n, c)
  <2>1. j # n
    BY <1>2
  <2>2. j = n - 1 => j + 1 = n
    BY <1>2
  <2>3. QED
    BY <2>1, <2>2 DEF Callee
<1>4. Callee(n, n, c) = c
  BY DEF Callee
<1>5. /\ c[1] = "func"
      /\ Stands(addr[n].fn, addr[n].pc, n - 1, r, addr[n].operands, addr[n].scopes, Answers(c))
  BY <1>1, <1>2, <1>4 DEF Chain
<1>6. Chain(r, n - 1, addr[n].fn)
  <2>1. n - 1 \in g..N /\ g \in g..n - 1 /\ \A j \in g + 1..n - 1 : j \in g + 1..n /\ j \in g..n - 1
    BY <1>2
  <2>2. Owns(go[r].curfunc) => g > 0 /\ addr[g] = EntryOf(Upon(r))
    BY <1>1 DEF Chain
  <2>3. Callee(g, n - 1, addr[n].fn) = go[r].curfunc
    BY <1>1, <1>3, <2>1 DEF Chain
  <2>4. ASSUME NEW j \in g + 1..n - 1
        PROVE  /\ Callee(j, n - 1, addr[n].fn)[1] = "func"
               /\ addr[j].operands >= Depth(r) /\ addr[j].scopes >= go[r].linear
               /\ Stands(addr[j].fn, addr[j].pc, j - 1, r,
                    addr[j].operands, addr[j].scopes, Answers(Callee(j, n - 1, addr[n].fn)))
    BY <1>1, <1>3, <2>1, <2>4 DEF Chain
  <2>5. \A i, j \in g + 1..n - 1 : i < j =>
          addr[i].operands <= addr[j].operands /\ addr[i].scopes <= addr[j].scopes
    BY <1>1, <2>1 DEF Chain
  <2>6. QED
    BY <1>1, <2>1, <2>2, <2>3, <2>4, <2>5 DEF Chain
<1>7. n \in 1..Len(addr)
  BY <1>1, <1>2
<1>8. QED
  BY <1>5, <1>6, <1>7

\* What is about to return has left its result, and nothing else.
LEMMA Returning ==
    ASSUME IInv, Running, Instr.op = "ret", NEW n, n = Len(addr)
    PROVE  /\ n \in 1..Len(addr) /\ Owns(curfunc) /\ curfunc[2] \in Proper
           /\ (curfunc[1] = "func" => curfunc[2] \in Function) /\ Code[curfunc[2]] # <<>>
           /\ Len(data) = addr[n].operands + Len(Result(curfunc[2]))
           /\ \A i \in addr[n].operands + 1..Len(data) : data[i] = Value
           /\ Len(linear) = addr[n].scopes
           /\ addr[n].operands \in Nat /\ addr[n].scopes \in Nat /\ addr[n].scopes > 0
<1>1. PICK K : K = Len(go)
  OBVIOUS
<1>2. PICK w \in Loaded(curfunc) : \E x \in Reached[w[1]] :
        /\ StandsAt(w, x, curfunc, pc, Len(addr), K, Len(data), Len(linear), 0)
        /\ \/ AtPlace(w, x, K)
           \/ /\ x.at = Len(Code[w[1]]) /\ curfunc[1] = "thunk" /\ Instr = RetInstr
              /\ x.ops = Result(w[1]) /\ x.scopes = <<>>
  BY <1>1, Somewhere
<1>3. PICK x \in Reached[w[1]] :
        /\ StandsAt(w, x, curfunc, pc, Len(addr), K, Len(data), Len(linear), 0)
        /\ \/ AtPlace(w, x, K)
           \/ /\ x.at = Len(Code[w[1]]) /\ curfunc[1] = "thunk" /\ Instr = RetInstr
              /\ x.ops = Result(w[1]) /\ x.scopes = <<>>
  BY <1>2
<1>4. /\ main \in Seq(Instruction) /\ curfunc \in Fn /\ Len(data) \in Nat /\ Len(linear) \in Nat
      /\ addr \in Seq(AddressType) /\ Len(addr) \in Nat
  BY Types
<1>5. /\ w[1] \in Proper /\ Code[w[1]] \in Seq(Instruction) /\ Len(Code[w[1]]) \in Nat
      /\ (curfunc[1] \in {"func", "thunk", "source"} => curfunc[2] = w[1])
      /\ (curfunc[1] = "func" => w[1] \in Function)
      /\ (curfunc[1] = "thunk" => Code[w[1]] # <<>>)
      /\ (~Owns(curfunc) => w[1] \notin Function)
  BY <1>4, LoadedCode
<1>6. /\ x.ops = Result(w[1]) /\ x.scopes = <<>> /\ Owns(curfunc)
      /\ (curfunc[1] = "thunk" \/ x.at < Len(Code[w[1]]))
  <2>1. CASE AtPlace(w, x, K)
    <3>1. Instr = Code[w[1]][x.at + 1] /\ Fed(w[1], x) /\ x.at < Len(Code[w[1]])
      BY <2>1 DEF AtPlace
    <3>2. w[1] \in Function /\ x.ops = Result(w[1]) /\ x.scopes = <<>>
      BY <3>1 DEF Fed
    <3>3. QED
      BY <1>5, <3>1, <3>2
  <2>2. CASE ~AtPlace(w, x, K)
    BY <1>3, <2>2 DEF Owns
  <2>3. QED
    BY <2>1, <2>2
<1>7. curfunc[2] = w[1] /\ Code[w[1]] # <<>>
  <2>1. curfunc[1] \in {"func", "thunk"}
    BY <1>6 DEF Owns
  <2>2. CASE curfunc[1] = "thunk"
    BY <1>5, <2>2
  <2>3. CASE x.at < Len(Code[w[1]])
    <3>1. x.at \in Nat
      BY <1>5, PlaceFacts
    <3>2. QED
      BY <1>5, <2>1, <2>3, <3>1
  <2>4. QED
    BY <1>6, <2>2, <2>3
<1>8. go # <<>> /\ InCode(K) /\ go[K].kind = "run" /\ ret = "none"
  BY <1>1, RunningInCode
<1>9. n > 0 /\ n \in 1..Len(addr) /\ n \in Nat
  <2>1. Owns(curfunc) => Len(addr) > 0
    BY <1>1, <1>8, CodeAbove, ZenonT(30)
  <2>2. QED
    BY <1>4, <1>6, <2>1
<1>10. addr[n].operands \in Nat /\ addr[n].scopes \in Nat
  BY <1>4, <1>9, EntryFields
<1>11. PICK b, s, R : b = addr[n].operands /\ s = addr[n].scopes /\ R = Result(curfunc[2])
  OBVIOUS
<1>12. /\ Holds(data, b, Len(data), R, 0) /\ Holds(linear, s, Len(linear), <<>>, 0)
  BY <1>3, <1>6, <1>7, <1>11 DEF StandsAt, OperandBase, ScopeBase
<1>13. R \in {<<>>, <<Value>>} /\ Len(R) \in Nat
  BY <1>11 DEF Result
<1>14. Len(data) = b + Len(R) /\ \A i \in b + 1..Len(data) : data[i] = Value
  <2>1. b \in 0..Len(data) /\ Len(R) = Len(data) - b /\ \A i \in 1..Len(data) - b : data[b + i] = R[i]
    BY <1>4, <1>12 DEF Holds
  <2>2. \A i \in 1..Len(R) : R[i] = Value
    BY <1>13
  <2>3. ASSUME NEW i \in b + 1..Len(data) PROVE data[i] = Value
    <3>1. PICK j : j = i - b
      OBVIOUS
    <3>2. j \in 1..Len(data) - b /\ j \in 1..Len(R) /\ i = b + j
      BY <1>4, <2>1, <3>1
    <3>3. QED
      BY <2>1, <2>2, <3>2
  <2>4. QED
    BY <1>4, <1>13, <2>1, <2>3
<1>15. Len(linear) = s
  BY <1>4, <1>12 DEF Holds
<1>16. s > 0
  BY <1>4, <1>15, Types
<1>17. QED
  BY <1>5, <1>6, <1>7, <1>9, <1>10, <1>11, <1>14, <1>15, <1>16

\* The entry a function returns to was made by a caller.
LEMMA EntryThere ==
    ASSUME IInv, Running, Instr.op = "ret"
    PROVE  addr # <<>> /\ Last(addr) = addr[Len(addr)] /\ Last(addr) # NilAddress
<1>1. PICK n : n = Len(addr)
  OBVIOUS
<1>2. n \in 1..Len(addr) /\ addr[n].scopes > 0
  BY <1>1, Returning
<1>3. addr # <<>> /\ Last(addr) = addr[Len(addr)]
  BY <1>2 DEF Last
<1>4. QED
  BY <1>1, <1>2, <1>3, Slots

\* ReturnInstr goes back to the last caller, whose place is the one behind the
\* call.
LEMMA ReturnStep ==
    ASSUME IInv, Return, main' = main
    PROVE  IInv'
<1>1. CASE Is("reterr") /\ Fault("err")
  BY <1>1, RunningSteady, FaultStep DEF Is
<1>2. CASE Is("ret")
  <2>1. PICK K, n, c, e, D, L, R :
          /\ K = Len(go) /\ n = Len(addr) /\ c = curfunc /\ e = addr[n] /\ D = Len(data)
          /\ L = Len(linear) /\ R = Len(Result(c[2]))
    OBVIOUS
  <2>2. Running /\ Instr.op = "ret"
    BY <1>2 DEF Is
  <2>3. /\ n \in 1..Len(addr) /\ Owns(c) /\ c[2] \in Proper /\ Code[c[2]] # <<>>
        /\ (c[1] = "func" => c[2] \in Function)
        /\ D = e.operands + R /\ (\A i \in e.operands + 1..Len(data) : data[i] = Value)
        /\ L = e.scopes /\ e.operands \in Nat /\ e.scopes \in Nat /\ e.scopes > 0
    BY <2>1, <2>2, Returning
  <2>4. addr # <<>> /\ Last(addr) = e /\ Last(addr) # NilAddress
    BY <2>1, <2>2, EntryThere
  <2>5. /\ curfunc' = e.fn /\ pc' = e.pc /\ addr' = Front(addr)
        /\ linear' = linear /\ data' = data /\ go' = go /\ ret' = ret
    BY <1>2, <2>2, <2>4 DEF Return, Is
  <2>6. /\ addr \in Seq(Entries) /\ addr \in Seq(AddressType) /\ Len(addr) \in Nat
        /\ linear \in Seq(Scopings) /\ L \in Nat /\ L > 0 /\ linear[1] = "global"
        /\ data \in Seq(Slot) /\ D \in Nat /\ go \in Seq(FrameType) /\ go \in Seq(Acts)
        /\ n \in Nat /\ main \in Seq(Instruction)
    BY <2>1, Types, TypesIn
  <2>7. Steady /\ ret = "none" /\ go # <<>> /\ K \in DOMAIN go /\ go[K].kind = "run" /\ InCode(K)
        /\ K \in Nat /\ K > 0 /\ K \in 1..Len(go)
    BY <2>1, <2>2, RunningSteady, RunningInCode, TopFacts
  <2>8. e \in Entries /\ e \in AddressType /\ e.fn \in Fn /\ e.pc \in Int /\ Within(e.fn, e.pc)
    <3>1. e \in Entries
      BY <2>1, <2>3, <2>6
    <3>2. QED
      BY <3>1 DEF Entries, AddressType
  <2>9. /\ addr' \in Seq(Entries) /\ addr' \in Seq(AddressType) /\ Len(addr') = n - 1
        /\ \A i \in 1..n - 1 : addr'[i] = addr[i]
    <3>1. addr' = SubSeq(addr, 1, n - 1)
      BY <2>1, <2>5 DEF Front
    <3>2. QED
      BY <2>1, <2>3, <2>6, <3>1, SMTT(30)
  <2>10. Typed'
    <3>1. ret' \in {"none", "ok", "err", "panic"} /\ Len(linear') > 0
      BY <2>1, <2>5, <2>6, <2>7
    <3>2. QED
      BY <2>5, <2>6, <2>8, <2>9, <3>1, TypedNow
  <2>11. Lowest' /\ Nested' /\ (\A k \in DOMAIN go' : Shape(k)') /\ go' # <<>>
    BY <2>5, <2>7, FramesSame
  <2>12. Chain(K, n, c) /\ (\A k \in 2..K : Recorded(k)) /\ n \in go[K].addr..Len(addr)
    <3>1. Chain(K, n, c)
      BY <2>1, <2>7 DEF InCode
    <3>2. QED
      BY <2>7, <3>1, InSteps DEF Chain
  <2>13. go[K].addr \in Nat /\ (K > 1 => go[K - 1].addr <= go[K].addr /\ go[K - 1].linear <= L
           /\ go[K - 1].addr \in Nat)
    <3>1. go[K].addr \in Nat
      BY <2>6, <2>7, FrameFields
    <3>2. ASSUME K > 1 PROVE go[K - 1].addr <= go[K].addr /\ go[K - 1].linear <= L /\ go[K - 1].addr \in Nat
      <4>1. K - 1 \in 1..K /\ K - 1 \in DOMAIN go
        BY <2>6, <2>7, <3>2
      <4>2. go[K - 1].addr <= go[K].addr /\ go[K - 1].addr \in Nat
        BY <2>6, <2>7, <4>1, Beneath, FrameFields
      <4>3. \A j \in 1..K : go[j].linear <= L
        <5>1. Stands(c, pc, n, K, D, L, 0)
          BY <2>1, <2>7 DEF InCode
        <5>2. /\ Depth(K) \in 0..D /\ D \in 0..Len(data) /\ n \in 0..Len(addr) /\ L \in 1..Len(linear)
              /\ \A j \in 1..K : /\ go[j].addr <= n /\ go[j].linear <= L
                                 /\ go[j].kind # "run" => go[j].data <= D
          BY <2>7, <2>12, <5>1, WaitingAll, ZenonT(30)
        <5>3. QED
          BY <5>2
      <4>4. QED
        BY <4>1, <4>2, <4>3
    <3>3. QED
      BY <3>1, <3>2
  <2>14. ASSUME n > go[K].addr
         PROVE  Runs(K)' /\ (K > 1 => go[K - 1].addr <= n - 1)
    <3>1. PICK o, s, fn, at, v : o = e.operands /\ s = e.scopes /\ fn = e.fn /\ at = e.pc /\ v = Answers(c)
      OBVIOUS
    <3>2. c[1] = "func" /\ Chain(K, n - 1, fn) /\ Stands(fn, at, n - 1, K, o, s, v)
      BY <2>1, <2>6, <2>7, <2>12, <2>14, <3>1, ChainPopped
    <3>3. v = R /\ v \in Nat
      <4>1. c[2] \in Function
        BY <2>3, <3>2
      <4>2. QED
        BY <2>1, <2>3, <3>1, <4>1 DEF Answers, Answer, Result
    <3>4. PICK m : m = n - 1
      OBVIOUS
    <3>5. Chain(K, m, fn)' /\ Stands(fn, at, m, K, o, s, v)'
      <4>1. go'[K] = go[K] /\ (IF K = 1 THEN ~Owns(go[K].curfunc) ELSE go'[K - 1] = go[K - 1])
        BY <2>5, <2>7, TopFacts DEF Lowest, Owns, MainFunc
      <4>2. m <= Len(addr') /\ \A i \in 1..m : addr'[i] = addr[i]
        BY <2>6, <2>9, <3>4
      <4>3. /\ o <= Len(data') /\ \A i \in 1..o : data'[i] = data[i]
            /\ s <= Len(linear') /\ \A i \in 1..s : linear'[i] = linear[i]
        <5>1. o \in Nat /\ o <= D /\ D = Len(data') /\ data' = data
          <6>1. D = o + v /\ o \in Nat /\ data' = data
            BY <2>3, <2>5, <3>1, <3>3
          <6>2. D = Len(data')
            BY <2>1, <6>1
          <6>3. o <= D
            BY <3>3, <6>1
          <6>4. QED
            BY <6>1, <6>2, <6>3
        <5>2. s = L /\ L = Len(linear') /\ linear' = linear
          BY <2>1, <2>3, <2>5, <3>1
        <5>3. s <= Len(linear')
          BY <2>6, <5>2
        <5>4. QED
          BY <5>1, <5>2, <5>3
      <4>4. Len(data) \in Nat /\ Len(data') \in Nat /\ Len(linear) \in Nat /\ Len(linear') \in Nat
        BY <2>1, <2>5, <2>6
      <4>5. Chain(K, m, fn) /\ Stands(fn, at, m, K, o, s, v)
        BY <3>2, <3>4
      <4>6. QED
        BY <2>6, <2>7, <2>9, <4>1, <4>2, <4>3, <4>4, <4>5, WaitingKept, ZenonT(30)
    <3>6. Stands(fn, at, m, K, D, L, 0)'
      <4>1. o \in Nat /\ Len(data') = o + v /\ D = o + v /\ s = L
        BY <2>1, <2>3, <2>5, <3>1, <3>3
      <4>2. \A i \in 1..v : data'[o + i] = Value
        <5>1. \A i \in 1..v : o + i \in e.operands + 1..Len(data)
          BY <2>1, <2>3, <3>1, <3>3
        <5>2. QED
          BY <2>3, <2>5, <5>1
      <4>3. QED
        BY <3>3, <3>5, <4>1, <4>2, StandsGrown
    <3>7. Runs(K)'
      <4>1. curfunc' = fn /\ pc' = at /\ Len(addr') = m /\ Len(data') = D /\ Len(linear') = L
        BY <2>1, <2>5, <2>9, <3>1, <3>4
      <4>2. InCode(K)'
        BY <3>5, <3>6, <4>1 DEF InCode
      <4>3. QED
        BY <2>5, <2>7, <4>2 DEF Runs, TopRun
    <3>8. (K > 1 => go[K - 1].addr <= n - 1) /\ go[K].addr <= n - 1
      BY <2>6, <2>13, <2>14
    <3>9. QED
      BY <3>7, <3>8
  <2>15. ASSUME ~(n > go[K].addr)
         PROVE  Runs(K)' /\ (K > 1 => go[K - 1].addr <= n - 1)
    <3>1. n = go[K].addr
      BY <2>12, <2>13, <2>15
    <3>2. c = go[K].curfunc
      BY <2>12, <3>1 DEF Chain, Callee
    <3>3. K > 1
      <4>1. go[1].curfunc = MainFunc
        BY <2>7, TopFacts DEF Lowest
      <4>2. ~Owns(MainFunc)
        BY DEF Owns, MainFunc
      <4>3. QED
        BY <2>3, <2>7, <3>2, <4>1, <4>2
    <3>4. e = EntryOf(Upon(K))
      BY <2>1, <2>3, <2>12, <3>1, <3>2 DEF Chain
    <3>5. PICK s : s = Upon(K)
      OBVIOUS
    <3>6. RunOn(K) /\ s = go[K - 1] /\ s.addr \in Nat
      <4>1. K \in 2..K
        BY <2>7, <3>3
      <4>2. K - 1 \in DOMAIN go
        BY <2>6, <2>7, <3>3
      <4>3. QED
        BY <2>6, <2>7, <2>12, <3>5, <4>1, <4>2, FrameFields DEF Recorded, Upon
    <3>7. s.kind # "source"
      <4>1. go[K].curfunc = Entered(s)
        BY <3>5, <3>6 DEF RunOn
      <4>2. s.kind = "source" => ~Owns(Entered(s))
        BY DEF Entered, Owns, Sourced
      <4>3. QED
        BY <2>3, <3>2, <4>1, <4>2
    <3>8. go[K].addr = s.addr + 1
      BY <3>5, <3>6, <3>7 DEF RunOn
    <3>9. /\ e.fn = s.curfunc /\ e.pc = ReturnsTo(s) /\ e.operands = s.data /\ e.scopes = s.linear
      BY <3>4, <3>5 DEF EntryOf
    <3>10. Finished(K)'
      <4>1. Upon(K)' = s
        BY <2>5, <3>5 DEF Upon
      <4>2. Len(addr') = s.addr
        BY <2>9, <3>1, <3>6, <3>8
      <4>3. /\ curfunc' = s.curfunc /\ pc' = ReturnsTo(s) /\ Len(linear') = s.linear
            /\ Len(data') = s.data + Len(Result(go'[K].curfunc[2]))
        BY <2>1, <2>3, <2>5, <3>2, <3>9
      <4>4. AllValues(s.data)'
        BY <2>3, <2>5, <3>9 DEF AllValues
      <4>5. K > 1 /\ s.kind # "source"
        BY <3>3, <3>7
      <4>6. QED
        BY <4>1, <4>2, <4>3, <4>4, <4>5 DEF Finished, ReturnsTo
    <3>11. Runs(K)'
      BY <2>5, <2>7, <3>10 DEF Runs, TopRun
    <3>12. K > 1 => go[K - 1].addr <= n - 1
      BY <2>6, <3>1, <3>6, <3>8
    <3>13. QED
      BY <3>11, <3>12
  <2>16. \A k \in 2..K : Recorded(k)'
    <3>1. PICK a : a = n - 1
      OBVIOUS
    <3>2. a \in Nat /\ a <= Len(addr') /\ \A i \in 1..a : addr'[i] = addr[i]
      BY <2>3, <2>6, <2>9, <3>1
    <3>3. K > 1 => go[K - 1].addr <= a /\ go[K - 1].linear <= L
      <4>1. K > 1 => go[K - 1].addr <= n - 1
        BY <2>14, <2>15
      <4>2. QED
        BY <2>13, <3>1, <4>1
    <3>4. SameFrame(go[K], go'[K]) /\ \A j \in 1..K - 1 : go'[j] = go[j]
      BY <2>5 DEF SameFrame
    <3>5. Depth(K) <= D
      <4>1. K \in 1..K /\ K \in DOMAIN go
        BY <2>7
      <4>2. Stands(c, pc, n, K, D, L, 0)
        BY <2>1, <2>7 DEF InCode
      <4>3. /\ Depth(K) \in 0..D /\ D \in 0..Len(data) /\ n \in 0..Len(addr) /\ L \in 1..Len(linear)
            /\ \A j \in 1..K : /\ go[j].addr <= n /\ go[j].linear <= L
                               /\ go[j].kind # "run" => go[j].data <= D
        BY <2>7, <2>12, <4>2, WaitingAll, ZenonT(30)
      <4>4. QED
        BY <2>6, <4>3
    <3>6. /\ D <= Len(data') /\ \A i \in 1..D : data'[i] = data[i]
          /\ L <= Len(linear') /\ \A i \in 1..L : linear'[i] = linear[i]
          /\ Len(data') \in Nat /\ Len(linear') \in Nat
      BY <2>1, <2>5, <2>6
    <3>7. go[K].kind = "run" /\ addr' \in Seq(AddressType) /\ D \in Nat /\ L \in Nat
      BY <2>6, <2>7, <2>9
    <3>8. QED
      BY <2>7, <2>12, <3>2, <3>3, <3>4, <3>5, <3>6, <3>7, LowerKept, ZenonT(30)
  <2>17. Runs(K)'
    BY <2>14, <2>15
  <2>18. \A i \in DOMAIN data' : data'[i] # Hole
    BY <2>5, <2>7, InSteps DEF InOrder
  <2>19. ret' = "none" /\ K = Len(go')
    BY <2>1, <2>5, <2>7
  <2>20. QED
    BY <2>10, <2>11, <2>16, <2>17, <2>18, <2>19, Assemble
<1>3. QED
  BY <1>1, <1>2 DEF Return
=============================================================================
