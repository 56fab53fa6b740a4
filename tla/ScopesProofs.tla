---------------------------- MODULE ScopesProofs ----------------------------
(***************************************************************************)
(* For every program, however many scopes, functions, calls and arguments  *)
(* it makes: definitions land in the scope the code stands in, a variable  *)
(* that the source binds is the one that is found, and no lookup finds a   *)
(* caller's.                                                               *)
(*                                                                         *)
(* The inductive invariant describes stacks: every stack that is current,  *)
(* captured or waiting for a call to end is a chain outward by the source  *)
(* wherever no function's scope stands, and the code that runs on it sits  *)
(* at a known place of it.  Scopes and functions change in nothing else    *)
(* than the symbols bound, so what was captured early stays true.          *)
(***************************************************************************)
EXTENDS Scopes, Lemmas, TLAPS

\* How code came to be compiled other than with the code around it.
Marks == {"detached", "forced"}

Kind == {"main", "builtin", "closure", "thunk", "eval", "forced"}

ScopeType == [IsFunction : BOOLEAN, captures : Seq(Nat), bound : SUBSET Symbol,
              outer : Nat, made : SUBSET Marks]

FunctionType == [kind : Kind, closing : Seq(Nat), parent : Nat, born : Seq(Nat),
                 home : Nat, made : SUBSET Marks]

LazyType == [Stack : Seq(Nat), CurFunc : Nat, home : Nat, Forced : BOOLEAN]

EntryType == [curfunc : Nat, linear : Seq(Nat), here : Nat, base : Nat, lazy : Nat]

TypesOK ==
    /\ scope \in Seq(ScopeType) /\ fun \in Seq(FunctionType)
    /\ lazy \in Seq(LazyType) /\ calls \in Seq(EntryType)
    /\ linear \in Seq(Nat) /\ curfunc \in Nat /\ here \in Nat

\* The first scope is the global one, and scopes are made inside others.
ScopesGood(sc) ==
    /\ Len(sc) > 0
    /\ ~sc[Global].IsFunction
    /\ \A s \in DOMAIN sc : sc[s].outer < s

\* A stack begins at the global scope or at a function's, and further up each
\* scope that is no function's lies on the one around it.
Stack(sc, stk) ==
    /\ stk \in Seq(Nat)
    /\ Len(stk) > 0
    /\ \A k \in DOMAIN stk : stk[k] \in DOMAIN sc
    /\ stk[1] = Global \/ sc[stk[1]].IsFunction
    /\ \A k \in 2..Len(stk) : sc[stk[k]].IsFunction \/ sc[stk[k]].outer = stk[k - 1]

StackTo(sc, stk, h) == Stack(sc, stk) /\ stk[Len(stk)] = h

\* From base on, the stack holds scopes of the function with code p: the first
\* of them is where p stands in the source, or the scope made for a call of p.
Sits(sc, fn, p, stk, base) ==
    /\ base \in 1..Len(stk)
    /\ \A k \in base + 1..Len(stk) : ~sc[stk[k]].IsFunction
    /\ \/ stk[base] = fn[p].home
       \/ sc[stk[base]].IsFunction /\ sc[stk[base]].outer = fn[p].home
    /\ p = Main => base = 1 /\ stk[1] = Global

\* A function that code made and that may be called, or was.
Sound(sc, fn, g) ==
    /\ g.kind \notin {"main", "builtin"}
    /\ StackTo(sc, g.closing, g.home)
    /\ g.parent \notin {0, Builtin} =>
          \E b \in Nat : Sits(sc, fn, g.parent, g.closing, b)
    /\ "detached" \notin g.made =>
          g.parent # 0 /\ "detached" \notin fn[g.parent].made

FunctionsGood(sc, fn) ==
    /\ Len(fn) > 1
    /\ fn[Main] = Function("main", <<Global>>, 0, <<Global>>, Global, {})
    /\ fn[Builtin] = Function("builtin", <<>>, 0, <<>>, 0, {"detached"})
    /\ \A f \in 3..Len(fn) : fn[f].parent < f /\ Sound(sc, fn, fn[f])

\* An unevaluated argument can be run later, on the stack it was passed from.
LazyGood(sc, fn, l) ==
    /\ l.CurFunc \in DOMAIN fn /\ l.CurFunc # Builtin
    /\ StackTo(sc, l.Stack, l.home)
    /\ \E b \in Nat : Sits(sc, fn, l.CurFunc, l.Stack, b)

\* Function c runs on a stack, at scope h, and found base scopes there.
Level(sc, fn, c, stk, h, base) ==
    /\ c \in DOMAIN fn
    /\ StackTo(sc, stk, h)
    /\ IF c = Builtin THEN base = Len(stk) ELSE Sits(sc, fn, c, stk, base)

Keeps(stk, caller) ==
    Len(caller) <= Len(stk) /\ \A k \in 1..Len(caller) : stk[k] = caller[k]

\* What lies between a call's stack and its caller's, unless the caller's is
\* put back at the end as it was.
Link(fn, c, stk, e) ==
    /\ fn[c].kind = "closure" => e.base = Len(e.linear) + 1 /\ Keeps(stk, e.linear)
    /\ fn[c].kind \in {"eval", "builtin"} => e.base = Len(e.linear) /\ Keeps(stk, e.linear)

BaseBelow(cs, d) == IF d = 1 THEN 1 ELSE cs[d - 1].base

CallsGood(sc, fn, cs, c, stk, h) ==
    /\ Level(sc, fn, c, stk, h, BaseBelow(cs, Len(cs) + 1))
    /\ IF cs = <<>> THEN c = Main ELSE Link(fn, c, stk, cs[Len(cs)])
    /\ \A d \in 1..Len(cs) :
          /\ Level(sc, fn, cs[d].curfunc, cs[d].linear, cs[d].here, BaseBelow(cs, d))
          /\ IF d = 1 THEN cs[d].curfunc = Main
             ELSE Link(fn, cs[d].curfunc, cs[d].linear, cs[d - 1])

StacksGood ==
    /\ ScopesGood(scope)
    /\ FunctionsGood(scope, fun)
    /\ \A l \in DOMAIN lazy : LazyGood(scope, fun, lazy[l])
    /\ CallsGood(scope, fun, calls, curfunc, linear, here)

-----------------------------------------------------------------------------
(* Growth: scopes and functions are added, and old ones keep their places *)

GrownScopes(sc, sc2) ==
    /\ Len(sc) <= Len(sc2)
    /\ \A s \in DOMAIN sc : /\ sc2[s].IsFunction = sc[s].IsFunction
                            /\ sc2[s].outer = sc[s].outer
                            /\ sc2[s].captures = sc[s].captures
                            /\ sc2[s].made = sc[s].made

GrownFunctions(fn, fn2) ==
    Len(fn) <= Len(fn2) /\ \A f \in DOMAIN fn : fn2[f] = fn[f]

\* What growth says about the numbers in use.
LEMMA GrownDomains ==
    ASSUME NEW sc \in Seq(ScopeType), NEW sc2 \in Seq(ScopeType), GrownScopes(sc, sc2),
           NEW fn \in Seq(FunctionType), NEW fn2 \in Seq(FunctionType),
           GrownFunctions(fn, fn2)
    PROVE  /\ DOMAIN sc = 1..Len(sc) /\ DOMAIN sc2 = 1..Len(sc2)
           /\ DOMAIN fn = 1..Len(fn) /\ DOMAIN fn2 = 1..Len(fn2)
           /\ Len(sc) \in Nat /\ Len(sc2) \in Nat /\ Len(fn) \in Nat /\ Len(fn2) \in Nat
           /\ DOMAIN sc \subseteq DOMAIN sc2 /\ DOMAIN fn \subseteq DOMAIN fn2
<1>1. /\ DOMAIN sc = 1..Len(sc) /\ DOMAIN sc2 = 1..Len(sc2)
      /\ DOMAIN fn = 1..Len(fn) /\ DOMAIN fn2 = 1..Len(fn2)
      /\ Len(sc) \in Nat /\ Len(sc2) \in Nat /\ Len(fn) \in Nat /\ Len(fn2) \in Nat
  OBVIOUS
<1>2. Len(sc) <= Len(sc2) /\ Len(fn) <= Len(fn2)
  BY DEF GrownScopes, GrownFunctions
<1> QED
  BY <1>1, <1>2

\* A stack that was good is good among more scopes.
LEMMA GrownStack ==
    ASSUME NEW sc \in Seq(ScopeType), NEW sc2 \in Seq(ScopeType), GrownScopes(sc, sc2),
           NEW stk, NEW h, StackTo(sc, stk, h)
    PROVE  StackTo(sc2, stk, h)
<1>1. DOMAIN sc \subseteq DOMAIN sc2
  BY DEF GrownScopes
<1>2. \A k \in DOMAIN stk : stk[k] \in DOMAIN sc
  BY DEF StackTo, Stack
<1>3. \A k \in DOMAIN stk : /\ sc2[stk[k]].IsFunction = sc[stk[k]].IsFunction
                            /\ sc2[stk[k]].outer = sc[stk[k]].outer
  BY <1>2 DEF GrownScopes
<1>4. stk \in Seq(Nat) /\ Len(stk) > 0 /\ stk[Len(stk)] = h
  BY DEF StackTo, Stack
<1>5. stk[1] = Global \/ sc2[stk[1]].IsFunction
  BY <1>3, <1>4 DEF StackTo, Stack
<1>6. ASSUME NEW k \in 2..Len(stk)
      PROVE  sc2[stk[k]].IsFunction \/ sc2[stk[k]].outer = stk[k - 1]
  <2>1. k \in DOMAIN stk
    BY <1>4
  <2> QED
    BY <2>1, <1>3 DEF StackTo, Stack
<1> QED
  BY <1>1, <1>2, <1>4, <1>5, <1>6 DEF StackTo, Stack

\* Code sits on an old stack as it did.
LEMMA GrownSits ==
    ASSUME NEW sc \in Seq(ScopeType), NEW sc2 \in Seq(ScopeType), GrownScopes(sc, sc2),
           NEW fn \in Seq(FunctionType), NEW fn2 \in Seq(FunctionType),
           GrownFunctions(fn, fn2),
           NEW p \in DOMAIN fn, NEW stk, Stack(sc, stk), NEW b, Sits(sc, fn, p, stk, b)
    PROVE  Sits(sc2, fn2, p, stk, b)
<1>1. \A k \in DOMAIN stk : /\ sc2[stk[k]].IsFunction = sc[stk[k]].IsFunction
                            /\ sc2[stk[k]].outer = sc[stk[k]].outer
  BY DEF GrownScopes, Stack
<1>2. fn2[p] = fn[p]
  BY DEF GrownFunctions
<1>3. stk \in Seq(Nat) /\ b \in 1..Len(stk) /\ b \in DOMAIN stk
  BY DEF Stack, Sits
<1>4. ASSUME NEW k \in b + 1..Len(stk) PROVE ~sc2[stk[k]].IsFunction
  <2>1. k \in DOMAIN stk
    BY <1>3
  <2> QED
    BY <2>1, <1>1 DEF Sits
<1> QED
  BY <1>1, <1>2, <1>3, <1>4 DEF Sits

\* A function that was sound stays so.
LEMMA GrownSound ==
    ASSUME NEW sc \in Seq(ScopeType), NEW sc2 \in Seq(ScopeType), GrownScopes(sc, sc2),
           NEW fn \in Seq(FunctionType), NEW fn2 \in Seq(FunctionType),
           GrownFunctions(fn, fn2),
           NEW g \in FunctionType, g.parent <= Len(fn), Sound(sc, fn, g)
    PROVE  Sound(sc2, fn2, g)
<1>1. StackTo(sc2, g.closing, g.home)
  BY GrownStack, Zenon DEF Sound
<1>2. g.parent # 0 => g.parent \in DOMAIN fn
  BY DEF FunctionType
<1>3. ASSUME g.parent \notin {0, Builtin}
      PROVE  \E b \in Nat : Sits(sc2, fn2, g.parent, g.closing, b)
  <2>1. PICK b \in Nat : Sits(sc, fn, g.parent, g.closing, b)
    BY <1>3 DEF Sound
  <2>2. Stack(sc, g.closing)
    BY DEF Sound, StackTo
  <2>3. Sits(sc2, fn2, g.parent, g.closing, b)
    BY <1>2, <1>3, <2>1, <2>2, GrownSits, Zenon
  <2> QED
    BY <2>3
<1>4. "detached" \notin g.made => g.parent # 0 /\ "detached" \notin fn2[g.parent].made
  BY <1>2 DEF Sound, GrownFunctions
<1> QED
  BY <1>1, <1>3, <1>4 DEF Sound

\* An unevaluated argument can still be run.
LEMMA GrownLazy ==
    ASSUME NEW sc \in Seq(ScopeType), NEW sc2 \in Seq(ScopeType), GrownScopes(sc, sc2),
           NEW fn \in Seq(FunctionType), NEW fn2 \in Seq(FunctionType),
           GrownFunctions(fn, fn2), NEW l, LazyGood(sc, fn, l)
    PROVE  LazyGood(sc2, fn2, l)
<1>1. l.CurFunc \in DOMAIN fn /\ l.CurFunc \in DOMAIN fn2 /\ l.CurFunc # Builtin
  BY GrownDomains DEF LazyGood
<1>2. StackTo(sc2, l.Stack, l.home) /\ Stack(sc, l.Stack)
  BY GrownStack, Zenon DEF LazyGood, StackTo
<1>3. PICK b \in Nat : Sits(sc, fn, l.CurFunc, l.Stack, b)
  BY DEF LazyGood
<1>4. Sits(sc2, fn2, l.CurFunc, l.Stack, b)
  BY <1>1, <1>2, <1>3, GrownSits, Zenon
<1> QED
  BY <1>1, <1>2, <1>4 DEF LazyGood

\* A level of the calls in progress stays as it was.
LEMMA GrownLevel ==
    ASSUME NEW sc \in Seq(ScopeType), NEW sc2 \in Seq(ScopeType), GrownScopes(sc, sc2),
           NEW fn \in Seq(FunctionType), NEW fn2 \in Seq(FunctionType),
           GrownFunctions(fn, fn2),
           NEW c, NEW stk, NEW h, NEW b, Level(sc, fn, c, stk, h, b)
    PROVE  Level(sc2, fn2, c, stk, h, b)
<1>1. c \in DOMAIN fn /\ c \in DOMAIN fn2
  BY GrownDomains DEF Level
<1>2. StackTo(sc2, stk, h) /\ Stack(sc, stk)
  BY GrownStack, Zenon DEF Level, StackTo
<1>3. c # Builtin => Sits(sc2, fn2, c, stk, b)
  BY <1>1, <1>2, GrownSits, Zenon DEF Level
<1> QED
  BY <1>1, <1>2, <1>3 DEF Level

\* So does the link between two levels.
LEMMA GrownLink ==
    ASSUME NEW fn \in Seq(FunctionType), NEW fn2 \in Seq(FunctionType),
           GrownFunctions(fn, fn2),
           NEW c \in DOMAIN fn, NEW stk, NEW e, Link(fn, c, stk, e)
    PROVE  Link(fn2, c, stk, e)
BY DEF GrownFunctions, Link

\* The functions stay good when scopes are added.
LEMMA GrownFunctionsGood ==
    ASSUME NEW sc \in Seq(ScopeType), NEW sc2 \in Seq(ScopeType), GrownScopes(sc, sc2),
           NEW fn \in Seq(FunctionType), FunctionsGood(sc, fn)
    PROVE  FunctionsGood(sc2, fn)
<1>1. GrownFunctions(fn, fn)
  BY DEF GrownFunctions
<1>2. ASSUME NEW f \in 3..Len(fn) PROVE fn[f].parent < f /\ Sound(sc2, fn, fn[f])
  <2>1. fn[f] \in FunctionType /\ fn[f].parent < f /\ Sound(sc, fn, fn[f])
    BY DEF FunctionsGood
  <2>2. fn[f].parent <= Len(fn)
    <3>1. fn[f].parent \in Nat /\ Len(fn) \in Nat /\ f \in Nat /\ f <= Len(fn)
      BY <2>1 DEF FunctionType
    <3> QED BY <2>1, <3>1
  <2> QED
    BY <1>1, <2>1, <2>2, GrownSound, Zenon
<1> QED
  BY <1>2 DEF FunctionsGood

\* All calls in progress stay good.
LEMMA GrownCalls ==
    ASSUME NEW sc \in Seq(ScopeType), NEW sc2 \in Seq(ScopeType), GrownScopes(sc, sc2),
           NEW fn \in Seq(FunctionType), NEW fn2 \in Seq(FunctionType),
           GrownFunctions(fn, fn2),
           NEW cs, NEW c, NEW stk, NEW h, CallsGood(sc, fn, cs, c, stk, h)
    PROVE  CallsGood(sc2, fn2, cs, c, stk, h)
<1>1. Level(sc2, fn2, c, stk, h, BaseBelow(cs, Len(cs) + 1)) /\ c \in DOMAIN fn
  <2>1. Level(sc, fn, c, stk, h, BaseBelow(cs, Len(cs) + 1))
    BY Zenon DEF CallsGood
  <2> QED
    <3>1. c \in DOMAIN fn
      BY <2>1, Zenon DEF Level
    <3>2. Level(sc2, fn2, c, stk, h, BaseBelow(cs, Len(cs) + 1))
      BY <2>1, GrownLevel
    <3> QED BY <3>1, <3>2
<1>2. IF cs = <<>> THEN c = Main ELSE Link(fn2, c, stk, cs[Len(cs)])
  <2>1. IF cs = <<>> THEN c = Main ELSE Link(fn, c, stk, cs[Len(cs)])
    BY Zenon DEF CallsGood
  <2> QED
    BY <1>1, <2>1, GrownLink, Zenon
<1>3. ASSUME NEW d \in 1..Len(cs)
      PROVE  /\ Level(sc2, fn2, cs[d].curfunc, cs[d].linear, cs[d].here, BaseBelow(cs, d))
             /\ IF d = 1 THEN cs[d].curfunc = Main
                ELSE Link(fn2, cs[d].curfunc, cs[d].linear, cs[d - 1])
  <2>1. /\ Level(sc, fn, cs[d].curfunc, cs[d].linear, cs[d].here, BaseBelow(cs, d))
        /\ IF d = 1 THEN cs[d].curfunc = Main
           ELSE Link(fn, cs[d].curfunc, cs[d].linear, cs[d - 1])
    BY Zenon DEF CallsGood
  <2>2. cs[d].curfunc \in DOMAIN fn
    BY <2>1, Zenon DEF Level
  <2>3. Level(sc2, fn2, cs[d].curfunc, cs[d].linear, cs[d].here, BaseBelow(cs, d))
    BY <2>1, GrownLevel
  <2>4. d # 1 => Link(fn2, cs[d].curfunc, cs[d].linear, cs[d - 1])
    BY <2>1, <2>2, GrownLink, Zenon
  <2> QED
    BY <2>1, <2>3, <2>4, Zenon
<1> QED
  BY <1>1, <1>2, <1>3, Zenon DEF CallsGood

-----------------------------------------------------------------------------
(* Stacks: one scope more, one less, cut off below the nearest function's *)

\* Stack q is stk with s on top.
IsPushed(sc, stk, s, q) ==
    /\ StackTo(sc, q, s)
    /\ Len(q) = Len(stk) + 1
    /\ \A k \in 1..Len(stk) : q[k] = stk[k]
    /\ q[Len(stk) + 1] = s

\* A function's scope, or one just inside the top, may be pushed.
LEMMA StackPushed ==
    ASSUME NEW sc \in Seq(ScopeType), NEW stk, NEW h, StackTo(sc, stk, h),
           NEW s \in DOMAIN sc, sc[s].IsFunction \/ sc[s].outer = h
    PROVE  IsPushed(sc, stk, s, Append(stk, s))
<1>1. stk \in Seq(Nat) /\ Len(stk) \in Nat /\ Len(stk) > 0 /\ s \in Nat
  BY DEF StackTo, Stack
<1>2. PICK q : q = Append(stk, s)
  OBVIOUS
<1>3. /\ q \in Seq(Nat) /\ Len(q) = Len(stk) + 1 /\ q[Len(stk) + 1] = s
      /\ \A k \in 1..Len(stk) : q[k] = stk[k]
  BY <1>1, <1>2
<1>4. ASSUME NEW k \in DOMAIN q PROVE q[k] \in DOMAIN sc
  <2>1. k = Len(stk) + 1 \/ k \in 1..Len(stk)
    BY <1>1, <1>3
  <2>2. \A j \in DOMAIN stk : stk[j] \in DOMAIN sc
    BY Zenon DEF StackTo, Stack
  <2> QED
    BY <1>1, <1>3, <2>1, <2>2
<1>5. q[1] = Global \/ sc[q[1]].IsFunction
  <2>1. q[1] = stk[1]
    BY <1>1, <1>3
  <2> QED
    BY <2>1 DEF StackTo, Stack
<1>6. ASSUME NEW k \in 2..Len(q) PROVE sc[q[k]].IsFunction \/ sc[q[k]].outer = q[k - 1]
  <2>1. CASE k = Len(stk) + 1
    <3>1. q[k] = s /\ q[k - 1] = h
      BY <1>1, <1>3, <2>1 DEF StackTo
    <3> QED BY <3>1
  <2>2. CASE k \in 2..Len(stk)
    <3>1. k \in 1..Len(stk) /\ k - 1 \in 1..Len(stk)
      BY <1>1, <2>2
    <3>2. q[k] = stk[k] /\ q[k - 1] = stk[k - 1]
      BY <1>3, <3>1
    <3> QED BY <3>2, <2>2 DEF StackTo, Stack
  <2> QED
    BY <1>1, <1>3, <2>1, <2>2
<1>7. StackTo(sc, q, s)
  BY <1>1, <1>3, <1>4, <1>5, <1>6 DEF StackTo, Stack
<1>8. IsPushed(sc, stk, s, q)
  BY <1>3, <1>7 DEF IsPushed
<1> QED
  BY <1>2, <1>8, Zenon

\* A stack without its top is a stack to the next scope.
LEMMA StackPopped ==
    ASSUME NEW sc \in Seq(ScopeType), NEW stk, Stack(sc, stk), Len(stk) > 1
    PROVE  /\ StackTo(sc, Front(stk), stk[Len(stk) - 1])
           /\ Len(Front(stk)) = Len(stk) - 1
           /\ \A k \in 1..Len(stk) - 1 : Front(stk)[k] = stk[k]
<1>1. stk \in Seq(Nat) /\ Len(stk) \in Nat
  BY DEF Stack
<1>2. PICK q : q = Front(stk)
  OBVIOUS
<1>3. /\ q \in Seq(Nat) /\ Len(q) = Len(stk) - 1
      /\ \A k \in 1..Len(stk) - 1 : q[k] = stk[k]
  BY <1>1, <1>2 DEF Front
<1>4. \A k \in DOMAIN q : q[k] \in DOMAIN sc
  <2>1. \A k \in DOMAIN q : k \in DOMAIN stk /\ q[k] = stk[k]
    <3>1. DOMAIN q = 1..Len(stk) - 1 /\ DOMAIN stk = 1..Len(stk)
      BY <1>1, <1>3
    <3>2. DOMAIN q \subseteq DOMAIN stk
      BY <1>1, <3>1
    <3> QED BY <1>3, <3>1, <3>2
  <2> QED
    BY <2>1 DEF Stack
<1>5. q[1] = Global \/ sc[q[1]].IsFunction
  <2>1. 1 \in 1..Len(stk) - 1
    BY <1>1
  <2>2. q[1] = stk[1]
    BY <1>3, <2>1
  <2> QED
    BY <2>2 DEF Stack
<1>6. ASSUME NEW k \in 2..Len(q) PROVE sc[q[k]].IsFunction \/ sc[q[k]].outer = q[k - 1]
  <2>1. k \in 1..Len(stk) - 1 /\ k - 1 \in 1..Len(stk) - 1 /\ k \in 2..Len(stk)
    BY <1>1, <1>3
  <2>2. q[k] = stk[k] /\ q[k - 1] = stk[k - 1]
    BY <1>3, <2>1
  <2> QED
    BY <2>1, <2>2 DEF Stack
<1>7. q[Len(q)] = stk[Len(stk) - 1]
  <2>1. Len(stk) - 1 \in 1..Len(stk) - 1
    BY <1>1
  <2> QED
    BY <1>3, <2>1
<1>8. StackTo(sc, q, stk[Len(stk) - 1])
  BY <1>1, <1>3, <1>4, <1>5, <1>6, <1>7 DEF StackTo, Stack
<1> QED
  BY <1>2, <1>3, <1>8

\* Stack r is stk from position t on, which is the nearest function's scope,
\* or else the bottom.
IsCut(sc, stk, t, r) ==
    /\ t \in 1..Len(stk)
    /\ r \in Seq(Nat) /\ Len(r) = Len(stk) - t + 1
    /\ \A i \in 1..Len(r) : r[i] = stk[t + i - 1]
    /\ t = 1 \/ sc[stk[t]].IsFunction
    /\ \A k \in t + 1..Len(stk) : ~sc[stk[k]].IsFunction

\* What NewClosing and the search keep of a stack is a cut of it.
LEMMA Cut ==
    ASSUME TypesOK, NEW stk, Stack(scope, stk)
    PROVE  \E t \in Nat : IsCut(scope, stk, t, FromFunction(stk))
<1> DEFINE fs == {k \in DOMAIN stk : scope[stk[k]].IsFunction}
<1>1. stk \in Seq(Nat) /\ Len(stk) \in Nat /\ Len(stk) > 0 /\ DOMAIN stk = 1..Len(stk)
  BY DEF Stack
<1>2. CASE fs = {}
  <2>1. FromFunction(stk) = stk
    BY <1>2 DEF FromFunction
  <2>2. IsCut(scope, stk, 1, stk)
    BY <1>1, <1>2 DEF IsCut
  <2> QED BY <2>1, <2>2
<1>3. CASE fs # {}
  <2> DEFINE top == CHOOSE k \in fs : \A j \in fs : j <= k
  <2>1. fs \subseteq 1..Len(stk)
    BY <1>1
  <2>2. \E k \in fs : \A j \in fs : j <= k
    <3> HIDE DEF fs
    <3> QED BY <1>1, <1>3, <2>1, Greatest
  <2>3. top \in fs /\ \A j \in fs : j <= top
    <3> HIDE DEF fs
    <3> QED BY <2>2
  <2>4. FromFunction(stk) = SubSeq(stk, top, Len(stk))
    BY <1>3 DEF FromFunction
  <2>5. PICK t : t = top
    OBVIOUS
  <2> HIDE DEF top
  <2>6. t \in 1..Len(stk) /\ scope[stk[t]].IsFunction
    BY <1>1, <2>3, <2>5
  <2>7. ASSUME NEW k \in t + 1..Len(stk) PROVE ~scope[stk[k]].IsFunction
    <3>1. k \in DOMAIN stk /\ ~(k <= t)
      BY <1>1, <2>6
    <3> QED BY <3>1, <2>3, <2>5
  <2> HIDE DEF fs
  <2>8. PICK r : r = SubSeq(stk, t, Len(stk))
    OBVIOUS
  <2>9. r \in Seq(Nat) /\ Len(r) = Len(stk) - t + 1 /\ \A i \in 1..Len(r) : r[i] = stk[t + i - 1]
    BY <1>1, <2>6, <2>8, SMTT(30)
  <2>10. IsCut(scope, stk, t, r)
    BY <2>6, <2>7, <2>9 DEF IsCut
  <2> QED
    BY <2>4, <2>5, <2>8, <2>10, <2>6
<1> QED
  BY <1>2, <1>3

\* A cut is a stack to the same scope.
LEMMA CutStack ==
    ASSUME NEW sc \in Seq(ScopeType), NEW stk, NEW h, StackTo(sc, stk, h),
           NEW t \in Nat, NEW r, IsCut(sc, stk, t, r)
    PROVE  StackTo(sc, r, h)
<1>1. /\ stk \in Seq(Nat) /\ Len(stk) \in Nat /\ t \in 1..Len(stk) /\ stk[Len(stk)] = h
      /\ r \in Seq(Nat) /\ Len(r) = Len(stk) - t + 1 /\ Len(r) \in Nat
      /\ \A i \in 1..Len(r) : r[i] = stk[t + i - 1]
  BY DEF StackTo, Stack, IsCut
<1> DEFINE n == Len(stk)
           m == Len(r)
<1>a. n \in Nat /\ t \in Nat /\ 1 <= t /\ t <= n /\ m = n - t + 1 /\ m \in Nat
  BY <1>1
<1>2. r[Len(r)] = h
  <2>1. m \in 1..m /\ t + m - 1 = n
    BY <1>a
  <2> QED BY <1>1, <2>1
<1>3. \A i \in DOMAIN r : r[i] \in DOMAIN sc
  <2>1. DOMAIN stk = 1..Len(stk) /\ DOMAIN r = 1..Len(r)
    BY <1>1
  <2>2. \A i \in 1..m : t + i - 1 \in 1..n
    BY <1>a
  <2> HIDE DEF n, m
  <2> QED
    BY <1>1, <2>1, <2>2 DEF StackTo, Stack, n, m
<1>4. r[1] = Global \/ sc[r[1]].IsFunction
  <2>1. 1 \in 1..Len(r) /\ t + 1 - 1 = t
    BY <1>1
  <2>2. r[1] = stk[t]
    BY <1>1, <2>1
  <2> QED
    BY <2>2 DEF IsCut, StackTo, Stack
<1>5. ASSUME NEW i \in 2..Len(r) PROVE sc[r[i]].IsFunction \/ sc[r[i]].outer = r[i - 1]
  <2>1. /\ i \in 1..Len(r) /\ i - 1 \in 1..Len(r)
        /\ t + i - 1 \in 2..Len(stk) /\ t + (i - 1) - 1 = (t + i - 1) - 1
    BY <1>1
  <2>2. r[i] = stk[t + i - 1] /\ r[i - 1] = stk[(t + i - 1) - 1]
    BY <1>1, <2>1
  <2> QED
    BY <2>1, <2>2 DEF StackTo, Stack
<1>6. Len(r) > 0
  BY <1>1
<1> QED
  BY <1>1, <1>2, <1>3, <1>4, <1>5, <1>6 DEF StackTo, Stack

\* The function's own scopes are among those that are kept.
LEMMA CutSits ==
    ASSUME NEW sc, NEW fn, NEW p, NEW stk, Stack(sc, stk), NEW b,
           Sits(sc, fn, p, stk, b), NEW t \in Nat, NEW r, IsCut(sc, stk, t, r)
    PROVE  t <= b /\ Sits(sc, fn, p, r, b - t + 1)
<1>1. /\ stk \in Seq(Nat) /\ Len(stk) \in Nat /\ t \in 1..Len(stk) /\ b \in 1..Len(stk)
      /\ r \in Seq(Nat) /\ Len(r) = Len(stk) - t + 1 /\ Len(r) \in Nat
      /\ \A i \in 1..Len(r) : r[i] = stk[t + i - 1]
  BY DEF Stack, IsCut, Sits
<1>2. t <= b
  <2> SUFFICES ASSUME t > b PROVE FALSE
    BY <1>1
  <2>1. t \in b + 1..Len(stk)
    BY <1>1
  <2>2. ~sc[stk[t]].IsFunction
    BY <2>1 DEF Sits
  <2>3. t = 1
    BY <2>2 DEF IsCut
  <2> QED
    BY <1>1, <2>3
<1>3. b - t + 1 \in 1..Len(r) /\ r[b - t + 1] = stk[b]
  BY <1>1, <1>2
<1>4. ASSUME NEW i \in (b - t + 1) + 1..Len(r) PROVE ~sc[r[i]].IsFunction
  <2>1. i \in 1..Len(r) /\ t + i - 1 \in b + 1..Len(stk)
    <3>1. /\ t \in Nat /\ b \in Nat /\ t <= b /\ 1 <= t
          /\ Len(stk) \in Nat /\ Len(r) = Len(stk) - t + 1
      BY <1>1, <1>2
    <3> QED BY <3>1
  <2>2. r[i] = stk[t + i - 1]
    BY <1>1, <2>1
  <2> QED
    BY <2>1, <2>2 DEF Sits
<1>5. ASSUME p = Main PROVE b - t + 1 = 1 /\ r[1] = Global
  <2>1. b = 1 /\ stk[1] = Global
    BY <1>5 DEF Sits
  <2>2. t = 1
    BY <1>1, <1>2, <2>1
  <2> QED
    BY <1>1, <2>1, <2>2
<1> QED
  BY <1>2, <1>3, <1>4, <1>5 DEF Sits

-----------------------------------------------------------------------------
(* Calls: one more, one less, and another stack under the same code *)

\* A call is entered.
LEMMA CallPushed ==
    ASSUME NEW sc, NEW fn, NEW cs \in Seq(EntryType), NEW e \in EntryType,
           CallsGood(sc, fn, cs, e.curfunc, e.linear, e.here),
           NEW c, NEW stk, NEW h, Level(sc, fn, c, stk, h, e.base), Link(fn, c, stk, e)
    PROVE  CallsGood(sc, fn, Append(cs, e), c, stk, h)
<1>1. PICK ds : ds = Append(cs, e)
  OBVIOUS
<1>2. PICK n \in Nat : n = Len(cs)
  OBVIOUS
<1>3. /\ Len(ds) = n + 1 /\ ds[n + 1] = e /\ ds # <<>> /\ \A d \in 1..n : ds[d] = cs[d]
  BY <1>1, <1>2
<1>4. \A d \in 1..n + 1 : BaseBelow(ds, d) = BaseBelow(cs, d)
  BY <1>2, <1>3 DEF BaseBelow
<1>5. BaseBelow(ds, Len(ds) + 1) = e.base
  BY <1>2, <1>3 DEF BaseBelow
<1>6. Level(sc, fn, c, stk, h, BaseBelow(ds, Len(ds) + 1))
  BY <1>5, Zenon
<1>7. Link(fn, c, stk, ds[Len(ds)])
  BY <1>3, Zenon
<1>8. ASSUME NEW d \in 1..Len(ds)
      PROVE  /\ Level(sc, fn, ds[d].curfunc, ds[d].linear, ds[d].here, BaseBelow(ds, d))
             /\ IF d = 1 THEN ds[d].curfunc = Main
                ELSE Link(fn, ds[d].curfunc, ds[d].linear, ds[d - 1])
  <2>1. CASE d = n + 1
    <3>1. ds[d] = e /\ BaseBelow(ds, d) = BaseBelow(cs, Len(cs) + 1)
      BY <1>2, <1>3, <1>4, <2>1
    <3>2. Level(sc, fn, e.curfunc, e.linear, e.here, BaseBelow(cs, Len(cs) + 1))
      BY Zenon DEF CallsGood
    <3>3. CASE n = 0
      <4>1. cs = <<>> /\ d = 1
        <5>1. Len(cs) = 0 /\ d = 0 + 1
          BY <1>2, <2>1, <3>3
        <5> QED BY <5>1
      <4>2. e.curfunc = Main
        BY <4>1, Zenon DEF CallsGood
      <4> QED BY <3>1, <3>2, <4>1, <4>2, Zenon
    <3>4. CASE n # 0
      <4>1. cs # <<>> /\ d # 1 /\ ds[d - 1] = cs[Len(cs)]
        BY <1>2, <1>3, <2>1, <3>4
      <4>2. Link(fn, e.curfunc, e.linear, cs[Len(cs)])
        BY <4>1, Zenon DEF CallsGood
      <4> QED BY <3>1, <3>2, <4>1, <4>2, Zenon
    <3> QED BY <3>3, <3>4
  <2>2. CASE d \in 1..n
    <3>1. ds[d] = cs[d] /\ BaseBelow(ds, d) = BaseBelow(cs, d) /\ d \in 1..Len(cs)
      BY <1>2, <1>3, <1>4, <2>2
    <3>2. d # 1 => ds[d - 1] = cs[d - 1]
      BY <1>2, <1>3, <2>2
    <3>3. /\ Level(sc, fn, cs[d].curfunc, cs[d].linear, cs[d].here, BaseBelow(cs, d))
          /\ IF d = 1 THEN cs[d].curfunc = Main
             ELSE Link(fn, cs[d].curfunc, cs[d].linear, cs[d - 1])
      BY <3>1, Zenon DEF CallsGood
    <3>4. CASE d = 1
      BY <3>1, <3>3, <3>4, Zenon
    <3>5. CASE d # 1
      BY <3>1, <3>2, <3>3, <3>5, Zenon
    <3> QED BY <3>4, <3>5
  <2> QED
    BY <1>2, <1>3, <2>1, <2>2
<1>9. CallsGood(sc, fn, ds, c, stk, h)
  BY <1>3, <1>6, <1>7, <1>8, Zenon DEF CallsGood
<1> QED
  BY <1>1, <1>9, Zenon

\* A call is left: its caller's level is current again.
LEMMA CallPopped ==
    ASSUME NEW sc, NEW fn, NEW cs \in Seq(EntryType), cs # <<>>,
           NEW c, NEW stk, NEW h, CallsGood(sc, fn, cs, c, stk, h)
    PROVE  CallsGood(sc, fn, Front(cs), Last(cs).curfunc, Last(cs).linear, Last(cs).here)
<1>1. PICK ds : ds = Front(cs)
  OBVIOUS
<1>2. PICK n \in Nat : n = Len(cs)
  OBVIOUS
<1>3. n > 0 /\ Len(ds) = n - 1 /\ (\A d \in 1..n - 1 : ds[d] = cs[d]) /\ Last(cs) = cs[n]
  BY <1>1, <1>2 DEF Front, Last
<1>4. \A d \in 1..n : BaseBelow(ds, d) = BaseBelow(cs, d)
  BY <1>2, <1>3 DEF BaseBelow
<1>5. PICK e : e = cs[n]
  OBVIOUS
<1>6. /\ Level(sc, fn, e.curfunc, e.linear, e.here, BaseBelow(cs, n))
      /\ IF n = 1 THEN e.curfunc = Main ELSE Link(fn, e.curfunc, e.linear, cs[n - 1])
  <2>1. n \in 1..Len(cs)
    BY <1>2, <1>3
  <2> QED
    BY <2>1, <1>5, Zenon DEF CallsGood
<1>7. Level(sc, fn, e.curfunc, e.linear, e.here, BaseBelow(ds, Len(ds) + 1))
  <2>1. BaseBelow(ds, Len(ds) + 1) = BaseBelow(cs, n)
    BY <1>2, <1>3, <1>4
  <2> QED BY <2>1, <1>6, Zenon
<1>8. IF ds = <<>> THEN e.curfunc = Main ELSE Link(fn, e.curfunc, e.linear, ds[Len(ds)])
  <2>1. CASE n = 1
    <3>1. ds = <<>>
      <4>1. ds \in Seq(EntryType)
        BY <1>1, <1>2, <1>3 DEF Front
      <4> QED BY <4>1, <1>3, <2>1
    <3> QED BY <3>1, <2>1, <1>6, Zenon
  <2>2. CASE n # 1
    <3>1. ds # <<>> /\ ds[Len(ds)] = cs[n - 1]
      BY <1>2, <1>3, <2>2
    <3> QED BY <3>1, <2>2, <1>6, Zenon
  <2> QED BY <2>1, <2>2
<1>9. ASSUME NEW d \in 1..Len(ds)
      PROVE  /\ Level(sc, fn, ds[d].curfunc, ds[d].linear, ds[d].here, BaseBelow(ds, d))
             /\ IF d = 1 THEN ds[d].curfunc = Main
                ELSE Link(fn, ds[d].curfunc, ds[d].linear, ds[d - 1])
  <2>1. d \in 1..Len(cs) /\ ds[d] = cs[d] /\ BaseBelow(ds, d) = BaseBelow(cs, d)
    BY <1>2, <1>3, <1>4
  <2>2. d # 1 => ds[d - 1] = cs[d - 1]
    BY <1>2, <1>3
  <2>3. /\ Level(sc, fn, cs[d].curfunc, cs[d].linear, cs[d].here, BaseBelow(cs, d))
        /\ IF d = 1 THEN cs[d].curfunc = Main
           ELSE Link(fn, cs[d].curfunc, cs[d].linear, cs[d - 1])
    BY <2>1, Zenon DEF CallsGood
  <2>4. CASE d = 1
    BY <2>1, <2>3, <2>4, Zenon
  <2>5. CASE d # 1
    BY <2>1, <2>2, <2>3, <2>5, Zenon
  <2> QED BY <2>4, <2>5
<1>10. CallsGood(sc, fn, ds, e.curfunc, e.linear, e.here)
  BY <1>7, <1>8, <1>9, Zenon DEF CallsGood
<1> QED
  BY <1>1, <1>3, <1>5, <1>10, Zenon

\* The running code opens or closes scopes of its own.
LEMMA CallMoved ==
    ASSUME NEW sc, NEW fn, NEW cs, NEW c, NEW stk, NEW h, CallsGood(sc, fn, cs, c, stk, h),
           NEW stk2, NEW h2, Level(sc, fn, c, stk2, h2, BaseBelow(cs, Len(cs) + 1)),
           cs # <<>> => Link(fn, c, stk2, cs[Len(cs)])
    PROVE  CallsGood(sc, fn, cs, c, stk2, h2)
BY Zenon DEF CallsGood

-----------------------------------------------------------------------------
(* Every step keeps the stacks good *)

Inv == TypesOK /\ StacksGood

\* A longer stack under the same code: the scope on top is no function's.
LEMMA SitsLonger ==
    ASSUME NEW sc, NEW fn, NEW p, NEW stk \in Seq(Nat), NEW b, Sits(sc, fn, p, stk, b),
           NEW q \in Seq(Nat), Len(q) = Len(stk) + 1,
           \A k \in 1..Len(stk) : q[k] = stk[k], ~sc[q[Len(stk) + 1]].IsFunction
    PROVE  Sits(sc, fn, p, q, b)
<1>1. Len(stk) \in Nat /\ b \in 1..Len(stk) /\ b \in 1..Len(q) /\ 1 \in 1..Len(stk)
  BY DEF Sits
<1>2. q[b] = stk[b] /\ q[1] = stk[1]
  BY <1>1
<1>3. ASSUME NEW k \in b + 1..Len(q) PROVE ~sc[q[k]].IsFunction
  <2>1. CASE k = Len(stk) + 1
    BY <2>1
  <2>2. CASE k \in b + 1..Len(stk)
    <3>1. k \in 1..Len(stk)
      BY <1>1, <2>2
    <3> QED BY <3>1, <2>2 DEF Sits
  <2> QED
    BY <1>1, <2>1, <2>2
<1> QED
  BY <1>1, <1>2, <1>3 DEF Sits

\* One scope less, down to base at most.
LEMMA SitsShorter ==
    ASSUME NEW sc, NEW fn, NEW p, NEW stk \in Seq(Nat), NEW b, Sits(sc, fn, p, stk, b),
           b < Len(stk),
           NEW q \in Seq(Nat), Len(q) = Len(stk) - 1,
           \A k \in 1..Len(stk) - 1 : q[k] = stk[k]
    PROVE  Sits(sc, fn, p, q, b)
<1>1. /\ Len(stk) \in Nat /\ b \in 1..Len(stk) - 1 /\ b \in 1..Len(q)
      /\ 1 \in 1..Len(stk) - 1
  BY DEF Sits
<1>2. q[b] = stk[b] /\ q[1] = stk[1]
  BY <1>1
<1>3. ASSUME NEW k \in b + 1..Len(q) PROVE ~sc[q[k]].IsFunction
  <2>1. k \in 1..Len(stk) - 1 /\ k \in b + 1..Len(stk)
    BY <1>1
  <2> QED
    BY <2>1 DEF Sits
<1> QED
  BY <1>1, <1>2, <1>3 DEF Sits

\* Base is what the latest call found on the stack.
LEMMA BaseIsBelow ==
    ASSUME TypesOK
    PROVE  Base = BaseBelow(calls, Len(calls) + 1)
<1>1. calls = <<>> <=> Len(calls) = 0
  BY DEF TypesOK
<1>2. Len(calls) \in Nat
  BY DEF TypesOK
<1> QED
  BY <1>1, <1>2 DEF Base, BaseBelow, Last

\* What the current level says, in the words of the model.
LEMMA Current ==
    ASSUME Inv
    PROVE  /\ Level(scope, fun, curfunc, linear, here, Base)
           /\ curfunc \in DOMAIN fun /\ curfunc \in 1..Len(fun)
           /\ StackTo(scope, linear, here) /\ Stack(scope, linear)
           /\ linear \in Seq(Nat) /\ Len(linear) \in Nat /\ Len(linear) > 0
           /\ Last(linear) = here /\ here \in DOMAIN scope
           /\ (InCode => Sits(scope, fun, curfunc, linear, Base))
           /\ (~InCode => Base = Len(linear))
           /\ (calls = <<>> => curfunc = Main)
           /\ (calls # <<>> => Link(fun, curfunc, linear, Last(calls)))
<1>1. Level(scope, fun, curfunc, linear, here, Base)
  BY BaseIsBelow, Zenon DEF Inv, StacksGood, CallsGood
<1>2. /\ curfunc \in DOMAIN fun /\ StackTo(scope, linear, here)
      /\ Stack(scope, linear) /\ linear[Len(linear)] = here
  BY <1>1, Zenon DEF Level, StackTo
<1>3. linear \in Seq(Nat) /\ Len(linear) \in Nat /\ Len(linear) > 0
  BY <1>2 DEF Stack
<1>4. here \in DOMAIN scope
  <2>1. Len(linear) \in DOMAIN linear
    BY <1>3
  <2> QED
    BY <1>2, <2>1, Zenon DEF Stack
<1>5. curfunc \in 1..Len(fun)
  BY <1>2 DEF Inv, TypesOK
<1>6. IF calls = <<>> THEN curfunc = Main ELSE Link(fun, curfunc, linear, Last(calls))
  BY Zenon DEF Inv, StacksGood, CallsGood, Last
<1>7. /\ InCode => Sits(scope, fun, curfunc, linear, Base)
      /\ ~InCode => Base = Len(linear)
  BY <1>1, Zenon DEF Level, InCode
<1> QED
  BY <1>1, <1>2, <1>3, <1>4, <1>5, <1>6, <1>7, Zenon DEF Last

\* Growth includes no growth.
LEMMA NothingGrown ==
    ASSUME TypesOK
    PROVE  GrownScopes(scope, scope) /\ GrownFunctions(fun, fun)
BY DEF TypesOK, GrownScopes, GrownFunctions

\* A scope that binds other symbols is the same scope in all that matters here.
LEMMA Rebound ==
    ASSUME Inv, NEW s \in DOMAIN scope, NEW b \in SUBSET Symbol,
           NEW sc, sc = [scope EXCEPT ![s].bound = b]
    PROVE  sc \in Seq(ScopeType) /\ GrownScopes(scope, sc) /\ ScopesGood(sc)
           /\ DOMAIN sc = DOMAIN scope
<1>1. scope \in Seq(ScopeType) /\ TypesOK
  BY DEF Inv, TypesOK
<1>2. PICK x : x = [scope[s] EXCEPT !.bound = b]
  OBVIOUS
<1>3. x \in ScopeType /\ x.IsFunction = scope[s].IsFunction /\ x.outer = scope[s].outer
      /\ x.captures = scope[s].captures /\ x.made = scope[s].made
  <2>1. scope[s] \in ScopeType
    BY <1>1
  <2> QED BY <1>2, <2>1 DEF ScopeType
<1>4. sc = [scope EXCEPT ![s] = x]
  BY <1>2
<1>5. sc \in Seq(ScopeType) /\ Len(sc) = Len(scope) /\ DOMAIN sc = DOMAIN scope
      /\ \A r \in DOMAIN scope : sc[r] = IF r = s THEN x ELSE scope[r]
  BY <1>1, <1>3, <1>4, SeqExcept
<1>6. GrownScopes(scope, sc)
  BY <1>1, <1>3, <1>5 DEF GrownScopes
<1>7. ScopesGood(sc)
  <2>1. ScopesGood(scope) /\ Global \in DOMAIN scope
    BY <1>1 DEF Inv, StacksGood, ScopesGood, Global
  <2> QED
    BY <2>1, <1>3, <1>5 DEF ScopesGood
<1> QED
  BY <1>5, <1>6, <1>7

\* Steps that change nothing but the symbols that scopes bind.
LEMMA StepRebinds ==
    ASSUME Inv, NEW s \in DOMAIN scope, NEW b \in SUBSET Symbol,
           scope' = [scope EXCEPT ![s].bound = b],
           UNCHANGED <<fun, lazy, linear, curfunc, calls, here>>
    PROVE  Inv'
<1>1. scope \in Seq(ScopeType) /\ TypesOK
  BY DEF Inv, TypesOK
<1>2. PICK sc : sc = scope'
  OBVIOUS
<1>7. sc \in Seq(ScopeType)
  BY <1>2, Rebound
<1>8. GrownScopes(scope, sc) /\ ScopesGood(sc)
  BY <1>2, Rebound
<1>9. fun \in Seq(FunctionType) /\ FunctionsGood(scope, fun) /\ GrownFunctions(fun, fun)
  BY <1>1, NothingGrown DEF Inv, StacksGood, TypesOK
<1>10. FunctionsGood(sc, fun)
  BY <1>1, <1>7, <1>8, <1>9, GrownFunctionsGood, Zenon
<1>11. ASSUME NEW l \in DOMAIN lazy PROVE LazyGood(sc, fun, lazy[l])
  BY <1>1, <1>7, <1>8, <1>9, GrownLazy, Zenon DEF Inv, StacksGood
<1>12. CallsGood(sc, fun, calls, curfunc, linear, here)
  BY <1>1, <1>7, <1>8, <1>9, GrownCalls, Zenon DEF Inv, StacksGood
<1>13. TypesOK'
  BY <1>1, <1>2, <1>7 DEF TypesOK
<1>14. StacksGood'
  BY <1>2, <1>8, <1>10, <1>11, <1>12, Zenon DEF StacksGood
<1> QED
  BY <1>13, <1>14, Zenon DEF Inv

\* Scope x is added, and put on top of the stack.
IsAdded(x, sc, q) ==
    /\ sc \in Seq(ScopeType) /\ q \in Seq(Nat)
    /\ Len(sc) \in DOMAIN sc /\ Len(sc) \in Nat /\ sc[Len(sc)] = x
    /\ GrownScopes(scope, sc)
    /\ ScopesGood(sc)
    /\ StackTo(sc, q, Len(sc)) /\ Stack(sc, q)
    /\ Len(q) = Len(linear) + 1 /\ q[Len(linear) + 1] = Len(sc)
    /\ \A k \in 1..Len(linear) : q[k] = linear[k]

\* A new scope, on top of the current stack.
LEMMA ScopeAdded ==
    ASSUME Inv, NEW x \in ScopeType, x.outer \in DOMAIN scope, x.IsFunction \/ x.outer = here
    PROVE  IsAdded(x, Append(scope, x), Append(linear, Len(Append(scope, x))))
<1>1. scope \in Seq(ScopeType) /\ TypesOK /\ ScopesGood(scope)
  BY DEF Inv, TypesOK, StacksGood
<1>2. PICK sc : sc = Append(scope, x)
  OBVIOUS
<1>3. PICK n \in Nat : n = Len(scope)
  BY <1>1
<1>4. /\ sc \in Seq(ScopeType) /\ Len(sc) = n + 1 /\ DOMAIN sc = 1..n + 1
      /\ (\A s \in 1..n : sc[s] = scope[s]) /\ sc[n + 1] = x
  BY <1>1, <1>2, <1>3
<1>5. GrownScopes(scope, sc)
  BY <1>1, <1>3, <1>4 DEF GrownScopes
<1>6. ScopesGood(sc)
  <2>1. n > 0 /\ ~scope[1].IsFunction /\ \A s \in 1..n : scope[s].outer < s
    BY <1>1, <1>3 DEF ScopesGood, Global
  <2>2. ~sc[1].IsFunction
    BY <2>1, <1>4
  <2>3. ASSUME NEW s \in 1..n + 1 PROVE sc[s].outer < s
    <3>1. CASE s = n + 1
      <4>1. x.outer \in 1..n
        BY <1>1, <1>3
      <4> QED BY <3>1, <4>1, <1>3, <1>4
    <3>2. CASE s \in 1..n
      BY <3>2, <2>1, <1>4
    <3> QED BY <3>1, <3>2, <1>3
  <2> QED
    BY <2>2, <2>3, <1>4 DEF ScopesGood, Global
<1>7. StackTo(sc, linear, here)
  <2>1. StackTo(scope, linear, here)
    BY Current, Zenon
  <2> QED BY <1>1, <1>4, <1>5, <2>1, GrownStack, Zenon
<1>8. /\ Len(sc) \in DOMAIN sc /\ Len(sc) \in Nat /\ sc[Len(sc)] = x
      /\ sc[Len(sc)].IsFunction \/ sc[Len(sc)].outer = here
  BY <1>3, <1>4
<1>9. IsPushed(sc, linear, Len(sc), Append(linear, Len(sc)))
  BY <1>4, <1>7, <1>8, StackPushed, Zenon
<1>10. PICK q : q = Append(linear, Len(sc))
  OBVIOUS
<1>11. q \in Seq(Nat) /\ Stack(sc, q)
  BY <1>9, <1>10 DEF IsPushed, StackTo, Stack
<1>12. IsAdded(x, sc, q)
  BY <1>4, <1>5, <1>6, <1>8, <1>9, <1>10, <1>11, Zenon DEF IsAdded, IsPushed
<1> QED
  BY <1>2, <1>10, <1>12, Zenon

\* A call's link to its caller concerns the stack up to base only.
LEMMA LinkLonger ==
    ASSUME NEW fn, NEW c, NEW stk \in Seq(Nat), NEW q \in Seq(Nat),
           NEW e \in EntryType, Link(fn, c, stk, e),
           NEW n \in Nat, n <= Len(stk), n <= Len(q), \A k \in 1..n : q[k] = stk[k],
           e.base <= n
    PROVE  Link(fn, c, q, e)
<1>1. /\ e.linear \in Seq(Nat) /\ e.base \in Nat /\ Len(e.linear) \in Nat
      /\ Len(stk) \in Nat /\ Len(q) \in Nat
  BY DEF EntryType
<1>2. ASSUME Len(e.linear) <= n, Keeps(stk, e.linear) PROVE Keeps(q, e.linear)
  <2>1. \A k \in 1..Len(e.linear) : k \in 1..n
    BY <1>1, <1>2
  <2> QED
    BY <1>1, <1>2, <2>1 DEF Keeps
<1>3. e.base = Len(e.linear) + 1 \/ e.base = Len(e.linear) => Len(e.linear) <= n
  BY <1>1
<1> QED
  BY <1>2, <1>3 DEF Link

\* let, for and newScope open a scope inside the one the code stands in.
LEMMA StepAddScope == ASSUME Inv, AddScope PROVE Inv'
<1>1. PICK x : x = NewScope(FALSE, <<>>, here, {})
  OBVIOUS
<1>2. PICK sc, q : sc = Append(scope, x) /\ q = Append(linear, Len(sc))
  OBVIOUS
<1>3. scope' = sc /\ linear' = q /\ here' = Len(sc)
      /\ UNCHANGED <<fun, lazy, curfunc, calls>> /\ InCode
  BY <1>1, <1>2 DEF AddScope
<1>4. /\ Level(scope, fun, curfunc, linear, here, Base) /\ linear \in Seq(Nat)
      /\ Sits(scope, fun, curfunc, linear, Base) /\ here \in DOMAIN scope
      /\ curfunc \in DOMAIN fun /\ Stack(scope, linear) /\ Len(linear) \in Nat
      /\ (calls # <<>> => Link(fun, curfunc, linear, Last(calls)))
  BY <1>3, Current, Zenon
<1>5. IsAdded(x, sc, q)
  <2>1. here \in Nat
    BY DEF Inv, TypesOK
  <2>2. x \in ScopeType /\ x.outer = here /\ ~x.IsFunction
    BY <1>1, <2>1 DEF NewScope, ScopeType
  <2>3. IsAdded(x, Append(scope, x), Append(linear, Len(Append(scope, x))))
    BY <1>4, <2>2, ScopeAdded
  <2> QED
    BY <1>2, <2>3, Zenon
<1>5a. /\ sc \in Seq(ScopeType) /\ q \in Seq(Nat) /\ Len(sc) \in DOMAIN sc
       /\ Len(sc) \in Nat
       /\ GrownScopes(scope, sc) /\ ScopesGood(sc)
       /\ StackTo(sc, q, Len(sc)) /\ Stack(sc, q)
       /\ Len(q) = Len(linear) + 1 /\ q[Len(linear) + 1] = Len(sc)
       /\ \A k \in 1..Len(linear) : q[k] = linear[k]
       /\ sc[Len(sc)] = x
  BY <1>5, Zenon DEF IsAdded
<1>6. TypesOK /\ scope \in Seq(ScopeType) /\ fun \in Seq(FunctionType)
      /\ FunctionsGood(scope, fun) /\ GrownFunctions(fun, fun) /\ calls \in Seq(EntryType)
  BY NothingGrown DEF Inv, StacksGood, TypesOK
<1>7. FunctionsGood(sc, fun)
  BY <1>5a, <1>6, GrownFunctionsGood, Zenon
<1>8. ASSUME NEW l \in DOMAIN lazy PROVE LazyGood(sc, fun, lazy[l])
  BY <1>5a, <1>6, GrownLazy, Zenon DEF Inv, StacksGood
<1>9. CallsGood(sc, fun, calls, curfunc, linear, here)
  BY <1>5a, <1>6, GrownCalls, Zenon DEF Inv, StacksGood
<1>10. Sits(sc, fun, curfunc, q, Base)
  <2>1. Sits(sc, fun, curfunc, linear, Base)
    BY <1>4, <1>5a, <1>6, GrownSits, Zenon
  <2>2. ~sc[q[Len(linear) + 1]].IsFunction
    BY <1>1, <1>5a DEF NewScope
  <2> QED
    BY <1>4, <1>5a, <2>1, <2>2, SitsLonger, Zenon
<1>11. Level(sc, fun, curfunc, q, Len(sc), BaseBelow(calls, Len(calls) + 1))
  BY <1>3, <1>4, <1>5a, <1>6, <1>10, BaseIsBelow, Zenon DEF Level, InCode
<1>12. calls # <<>> => Link(fun, curfunc, q, calls[Len(calls)])
  <2> SUFFICES ASSUME calls # <<>> PROVE Link(fun, curfunc, q, Last(calls))
    BY Zenon DEF Last
  <2>1. Last(calls) \in EntryType /\ Last(calls).base = Base
    BY <1>6 DEF Last, Base
  <2>2. Base <= Len(linear) /\ Len(linear) <= Len(q)
    BY <1>4, <1>5a DEF Sits
  <2>3. Last(calls).base <= Len(linear) /\ Len(linear) <= Len(linear)
    BY <2>1, <2>2, <1>4
  <2> QED
    BY <1>4, <1>5a, <2>1, <2>2, <2>3, LinkLonger, Zenon
<1>13. CallsGood(sc, fun, calls, curfunc, q, Len(sc))
  BY <1>9, <1>11, <1>12, CallMoved
<1>14. TypesOK'
  BY <1>3, <1>5a, <1>6 DEF TypesOK
<1>15. StacksGood'
  BY <1>3, <1>5a, <1>7, <1>8, <1>13, Zenon DEF StacksGood
<1> QED
  BY <1>14, <1>15, Zenon DEF Inv

\* Closing a scope leads to the one around it.
LEMMA StepRemoveScope == ASSUME Inv, RemoveScope PROVE Inv'
<1>1. /\ UNCHANGED <<scope, fun, lazy, curfunc, calls>> /\ InCode
      /\ linear' = Front(linear) /\ here' = scope[here].outer /\ Len(linear) > Base
  BY DEF RemoveScope
<1>2. /\ linear \in Seq(Nat) /\ Sits(scope, fun, curfunc, linear, Base)
      /\ curfunc \in DOMAIN fun /\ Stack(scope, linear) /\ Len(linear) \in Nat
      /\ Last(linear) = here /\ Len(linear) > 0
      /\ (calls # <<>> => Link(fun, curfunc, linear, Last(calls)))
  BY <1>1, Current, Zenon
<1>3. Base \in Nat /\ Base < Len(linear) /\ Len(linear) > 1
      /\ Len(linear) \in Base + 1..Len(linear) /\ Len(linear) \in 2..Len(linear)
  BY <1>1, <1>2 DEF Sits
<1>4. scope[here].outer = linear[Len(linear) - 1]
  <2>1. ~scope[linear[Len(linear)]].IsFunction
    BY <1>2, <1>3, Zenon DEF Sits
  <2>2. scope[linear[Len(linear)]].outer = linear[Len(linear) - 1]
    BY <1>2, <1>3, <2>1, Zenon DEF Stack
  <2> QED
    BY <1>2, <2>2 DEF Last
<1>5. TypesOK /\ scope \in Seq(ScopeType) /\ calls \in Seq(EntryType)
  BY DEF Inv, TypesOK
<1>6. PICK q : q = Front(linear)
  OBVIOUS
<1>7. /\ StackTo(scope, q, linear[Len(linear) - 1])
      /\ Len(q) = Len(linear) - 1
      /\ \A k \in 1..Len(linear) - 1 : q[k] = linear[k]
  BY <1>2, <1>3, <1>5, <1>6, StackPopped, Zenon
<1>8. q \in Seq(Nat) /\ linear[Len(linear) - 1] \in Nat
  <2>1. q \in Seq(Nat) /\ Len(q) \in Nat /\ Len(q) > 0 /\ q[Len(q)] = linear[Len(linear) - 1]
    BY <1>7 DEF StackTo, Stack
  <2> QED BY <2>1
<1>9. Sits(scope, fun, curfunc, q, Base)
  BY <1>2, <1>3, <1>7, <1>8, SitsShorter, Zenon
<1>10. Level(scope, fun, curfunc, q, linear[Len(linear) - 1], BaseBelow(calls, Len(calls) + 1))
  BY <1>1, <1>2, <1>5, <1>7, <1>9, BaseIsBelow, Zenon DEF Level, InCode
<1>11. calls # <<>> => Link(fun, curfunc, q, calls[Len(calls)])
  <2> SUFFICES ASSUME calls # <<>> PROVE Link(fun, curfunc, q, Last(calls))
    BY Zenon DEF Last
  <2>1. Last(calls) \in EntryType /\ Last(calls).base = Base
    BY <1>5 DEF Last, Base
  <2>2. PICK n \in Nat : n = Len(linear) - 1
    BY <1>3
  <2>3. n <= Len(linear) /\ n <= Len(q) /\ Last(calls).base <= n
    BY <1>2, <1>3, <1>7, <2>1, <2>2
  <2>4. \A k \in 1..n : q[k] = linear[k]
    BY <1>7, <2>2
  <2> QED
    BY <1>2, <1>8, <2>1, <2>2, <2>3, <2>4, LinkLonger, Zenon
<1>12. CallsGood(scope, fun, calls, curfunc, linear, here)
  BY Zenon DEF Inv, StacksGood
<1>13. CallsGood(scope, fun, calls, curfunc, q, linear[Len(linear) - 1])
  BY <1>10, <1>11, <1>12, CallMoved
<1>14. TypesOK'
  BY <1>1, <1>4, <1>5, <1>6, <1>8 DEF TypesOK
<1>15. StacksGood'
  BY <1>1, <1>4, <1>6, <1>13, Zenon DEF StacksGood, Inv
<1> QED
  BY <1>14, <1>15, Zenon DEF Inv

\* Function g is among those of fn, which are the old ones and perhaps g.
IsMade(g, fn, f) ==
    /\ fn \in Seq(FunctionType)
    /\ GrownFunctions(fun, fn)
    /\ FunctionsGood(scope, fn)
    /\ f \in DOMAIN fn /\ f \in Nat /\ fn[f] = g /\ f \notin {Main, Builtin}

\* A function that is made is found by its number, which is not main's.
LEMMA MadeAt ==
    ASSUME NEW g, g.kind \notin {"main", "builtin"}, NEW fn, fn = Made(g),
           fn \in Seq(FunctionType), GrownFunctions(fun, fn), FunctionsGood(scope, fn),
           \E f \in DOMAIN fn : fn[f] = g
    PROVE  IsMade(g, fn, At(g))
<1>1. At(g) \in DOMAIN fn /\ fn[At(g)] = g
  BY DEF At
<1>2. At(g) \in Nat
  BY <1>1
<1>3. fn[Main].kind = "main" /\ fn[Builtin].kind = "builtin"
  BY DEF FunctionsGood, Function
<1>4. At(g) \notin {Main, Builtin}
  BY <1>1, <1>3
<1> QED
  BY <1>1, <1>2, <1>4 DEF IsMade

\* A sound function may be added.
LEMMA FunctionMade ==
    ASSUME Inv, NEW g \in FunctionType, g.parent <= Len(fun), Sound(scope, fun, g)
    PROVE  IsMade(g, Made(g), At(g))
<1>1. /\ TypesOK /\ scope \in Seq(ScopeType) /\ fun \in Seq(FunctionType)
      /\ FunctionsGood(scope, fun) /\ GrownScopes(scope, scope) /\ GrownFunctions(fun, fun)
  BY NothingGrown DEF Inv, StacksGood, TypesOK
<1>2. PICK fn : fn = Made(g)
  OBVIOUS
<1>3. PICK n \in Nat : n = Len(fun)
  BY <1>1
<1>4. CASE g \in ToSet(fun)
  <2>1. fn = fun
    BY <1>2, <1>4 DEF Made
  <2>2. \E f \in DOMAIN fn : fn[f] = g
    BY <1>4, <2>1 DEF ToSet
  <2>3. fn \in Seq(FunctionType) /\ GrownFunctions(fun, fn) /\ FunctionsGood(scope, fn)
    BY <1>1, <2>1
  <2> QED
    BY <2>2, <2>3, <1>2, MadeAt DEF Sound
<1>5. CASE g \notin ToSet(fun)
  <2>1. fn = Append(fun, g)
    BY <1>2, <1>5 DEF Made
  <2>2. /\ fn \in Seq(FunctionType) /\ Len(fn) = n + 1 /\ DOMAIN fn = 1..n + 1
        /\ (\A f \in 1..n : fn[f] = fun[f]) /\ fn[n + 1] = g
    BY <1>1, <1>3, <2>1
  <2>3. GrownFunctions(fun, fn)
    BY <1>1, <1>3, <2>2 DEF GrownFunctions
  <2>4. ASSUME NEW f \in 3..Len(fn) PROVE fn[f].parent < f /\ Sound(scope, fn, fn[f])
    <3>1. CASE f = n + 1
      <4>1. Sound(scope, fn, g)
        BY <1>1, <2>2, <2>3, GrownSound, Zenon
      <4>2. g.parent < n + 1
        BY <1>3 DEF FunctionType
      <4> QED BY <3>1, <4>1, <4>2, <2>2
    <3>2. CASE f \in 3..n
      <4>1. fn[f] = fun[f] /\ fun[f] \in FunctionType
        BY <1>1, <1>3, <2>2, <3>2
      <4>2. fun[f].parent < f /\ Sound(scope, fun, fun[f])
        BY <1>1, <1>3, <3>2 DEF FunctionsGood
      <4>3. fun[f].parent <= Len(fun)
        <5>1. fun[f].parent \in Nat
          BY <4>1 DEF FunctionType
        <5> QED BY <5>1, <4>2, <3>2, <1>3
      <4>4. Sound(scope, fn, fun[f])
        BY <1>1, <2>2, <2>3, <4>1, <4>2, <4>3, GrownSound, Zenon
      <4> QED BY <4>1, <4>2, <4>4
    <3> QED BY <3>1, <3>2, <2>2, <1>3
  <2>5. FunctionsGood(scope, fn)
    <3>1. n > 1 /\ 1 \in 1..n /\ 2 \in 1..n
      BY <1>1, <1>3 DEF FunctionsGood
    <3>2. fn[1] = fun[1] /\ fn[2] = fun[2] /\ Len(fn) > 1
      BY <3>1, <2>2, <1>3
    <3> QED BY <1>1, <2>4, <3>2 DEF FunctionsGood, Main, Builtin
  <2>6. \E f \in DOMAIN fn : fn[f] = g
    BY <2>2, <1>3
  <2> QED
    BY <2>2, <2>3, <2>5, <2>6, <1>2, MadeAt DEF Sound
<1> QED
  BY <1>4, <1>5

\* What is captured is a good stack again, and the function that runs sits on
\* it as it does on the whole one.
LEMMA Captured ==
    ASSUME Inv
    PROVE  /\ NewClosing(linear) \in Seq(Nat)
           /\ StackTo(scope, NewClosing(linear), here)
           /\ InCode => \E b \in Nat : Sits(scope, fun, curfunc, NewClosing(linear), b)
<1>1. PICK r : r = NewClosing(linear)
  OBVIOUS
<1>2. /\ TypesOK /\ scope \in Seq(ScopeType) /\ Stack(scope, linear)
      /\ StackTo(scope, linear, here)
      /\ (InCode => Sits(scope, fun, curfunc, linear, Base))
  BY Current, Zenon DEF Inv, TypesOK
<1>3. PICK t \in Nat : IsCut(scope, linear, t, r)
  BY <1>1, <1>2, Cut, Zenon DEF NewClosing
<1>4. StackTo(scope, r, here)
  BY <1>2, <1>3, CutStack, Zenon
<1>5. r \in Seq(Nat)
  BY <1>3 DEF IsCut
<1>6. ASSUME InCode PROVE \E b \in Nat : Sits(scope, fun, curfunc, r, b)
  <2>1. Sits(scope, fun, curfunc, r, Base - t + 1) /\ t <= Base
    BY <1>2, <1>3, <1>6, CutSits, Zenon
  <2>2. Base - t + 1 \in Nat
    BY <2>1 DEF Sits
  <2> QED BY <2>1, <2>2
<1> QED
  BY <1>1, <1>4, <1>5, <1>6

\* Functions made of code that runs, or of source by a builtin.
LEMMA CodeSound ==
    ASSUME Inv, NEW kind \in {"closure", "thunk"}, NEW born \in Seq(Nat),
           kind = "thunk" => InCode,
           NEW g, g = Function(kind, NewClosing(linear), curfunc, born, here, fun[curfunc].made)
    PROVE  g \in FunctionType /\ g.parent <= Len(fun) /\ Sound(scope, fun, g)
<1>1. PICK r : r = NewClosing(linear)
  OBVIOUS
<1>2. /\ r \in Seq(Nat) /\ StackTo(scope, r, here)
      /\ InCode => \E b \in Nat : Sits(scope, fun, curfunc, r, b)
  BY <1>1, Captured, Zenon
<1>3. /\ curfunc \in 1..Len(fun) /\ here \in Nat /\ fun[curfunc].made \in SUBSET Marks
      /\ Len(fun) \in Nat /\ curfunc \in Nat
  <2>1. curfunc \in 1..Len(fun)
    BY Current, Zenon
  <2>2. fun \in Seq(FunctionType) /\ here \in Nat
    BY DEF Inv, TypesOK
  <2>3. fun[curfunc] \in FunctionType
    BY <2>1, <2>2
  <2> QED BY <2>1, <2>2, <2>3, SMTT(30) DEF FunctionType
<1>4. /\ g.kind = kind /\ g.closing = r /\ g.parent = curfunc /\ g.born = born
      /\ g.home = here /\ g.made = fun[curfunc].made
  BY <1>1 DEF Function
<1>5. g \in FunctionType
  BY <1>1, <1>2, <1>3 DEF Function, FunctionType, Kind
<1>6. Sound(scope, fun, g)
  BY <1>2, <1>3, <1>4 DEF Sound, InCode
<1> QED
  BY <1>3, <1>4, <1>5, <1>6

\* A closure is made where the code stands.
LEMMA StepCreateClosure == ASSUME Inv, CreateClosure PROVE Inv'
<1>1. PICK born : born = IF InCode THEN fun[curfunc].born ELSE NewClosing(linear)
  OBVIOUS
<1>2. PICK g : g = Function("closure", NewClosing(linear), curfunc, born, here, fun[curfunc].made)
  OBVIOUS
<1>3. fun' = Made(g) /\ UNCHANGED <<scope, lazy, linear, curfunc, calls, here>>
  BY <1>1, <1>2 DEF CreateClosure
<1>4. /\ TypesOK /\ scope \in Seq(ScopeType) /\ fun \in Seq(FunctionType)
      /\ GrownScopes(scope, scope)
  BY NothingGrown DEF Inv, TypesOK
<1>5. born \in Seq(Nat)
  <2>1. NewClosing(linear) \in Seq(Nat) /\ curfunc \in 1..Len(fun)
    BY Captured, Current, Zenon
  <2>2. fun[curfunc] \in FunctionType
    BY <1>4, <2>1
  <2> QED BY <1>1, <2>1, <2>2 DEF FunctionType
<1>6. g \in FunctionType /\ g.parent <= Len(fun) /\ Sound(scope, fun, g)
  BY <1>2, <1>5, CodeSound
<1>7. PICK fn : fn = Made(g)
  OBVIOUS
<1>8. fn \in Seq(FunctionType) /\ GrownFunctions(fun, fn) /\ FunctionsGood(scope, fn)
  BY <1>6, <1>7, FunctionMade, Zenon DEF IsMade
<1>9. ASSUME NEW l \in DOMAIN lazy PROVE LazyGood(scope, fn, lazy[l])
  BY <1>4, <1>8, GrownLazy, Zenon DEF Inv, StacksGood
<1>10. CallsGood(scope, fn, calls, curfunc, linear, here)
  BY <1>4, <1>8, GrownCalls, Zenon DEF Inv, StacksGood
<1>11. TypesOK'
  BY <1>3, <1>4, <1>7, <1>8 DEF TypesOK
<1>12. StacksGood'
  BY <1>3, <1>7, <1>8, <1>9, <1>10, Zenon DEF StacksGood, Inv
<1> QED
  BY <1>11, <1>12, Zenon DEF Inv

\* What a call remembers of its caller.
LEMMA EntryIs ==
    ASSUME Inv, NEW base \in Nat, NEW l \in Nat
    PROVE  /\ Entry(base, l) \in EntryType
           /\ Entry(base, l).curfunc = curfunc /\ Entry(base, l).linear = linear
           /\ Entry(base, l).here = here /\ Entry(base, l).base = base
BY DEF Inv, TypesOK, Entry, EntryType

\* A function that is evaluated on a stack of its own, or on the current one.
LEMMA StepEnter ==
    ASSUME Inv, NEW g \in FunctionType, g.parent <= Len(fun), Sound(scope, fun, g),
           NEW stk \in Seq(Nat), StackTo(scope, stk, g.home), NEW l \in Nat,
           Enter(g, stk, Len(stk), l),
           g.kind # "closure", g.kind = "eval" => stk = linear
    PROVE  Inv'
<1>1. PICK fn, f, e : fn = Made(g) /\ f = At(g) /\ e = Entry(Len(stk), l)
  OBVIOUS
<1>2. /\ calls' = Append(calls, e) /\ fun' = fn /\ curfunc' = f /\ linear' = stk
      /\ here' = g.home /\ UNCHANGED <<scope, lazy>>
  BY <1>1 DEF Enter
<1>3. /\ TypesOK /\ scope \in Seq(ScopeType) /\ fun \in Seq(FunctionType)
      /\ calls \in Seq(EntryType) /\ GrownScopes(scope, scope)
  BY NothingGrown DEF Inv, TypesOK
<1>4. IsMade(g, fn, f)
  BY <1>1, FunctionMade, Zenon
<1>5. /\ fn \in Seq(FunctionType) /\ GrownFunctions(fun, fn) /\ FunctionsGood(scope, fn)
      /\ f \in DOMAIN fn /\ f \in Nat /\ fn[f] = g /\ f \notin {Main, Builtin}
  BY <1>4, Zenon DEF IsMade
<1>6. ASSUME NEW k \in DOMAIN lazy PROVE LazyGood(scope, fn, lazy[k])
  BY <1>3, <1>5, GrownLazy, Zenon DEF Inv, StacksGood
<1>7. /\ e \in EntryType /\ e.curfunc = curfunc /\ e.linear = linear /\ e.here = here
      /\ e.base = Len(stk)
  <2>1. Len(stk) \in Nat
    OBVIOUS
  <2> QED BY <1>1, <2>1, EntryIs
<1>8. CallsGood(scope, fn, calls, e.curfunc, e.linear, e.here)
  <2>1. CallsGood(scope, fn, calls, curfunc, linear, here)
    BY <1>3, <1>5, GrownCalls, Zenon DEF Inv, StacksGood
  <2> QED BY <2>1, <1>7
<1>9. Level(scope, fn, f, stk, g.home, e.base)
  <2>1. Len(stk) \in 1..Len(stk) /\ stk[Len(stk)] = g.home /\ Len(stk) + 1..Len(stk) = {}
    BY DEF StackTo, Stack
  <2>2. Sits(scope, fn, f, stk, Len(stk))
    BY <1>5, <2>1 DEF Sits
  <2> QED BY <1>5, <1>7, <2>2 DEF Level
<1>10. Link(fn, f, stk, e)
  <2>1. g.kind # "builtin"
    BY DEF Sound
  <2>2. ASSUME g.kind = "eval" PROVE e.base = Len(e.linear) /\ Keeps(stk, e.linear)
    <3>1. stk = e.linear
      BY <1>7, <2>2
    <3>2. Len(stk) \in Nat
      OBVIOUS
    <3> QED BY <1>7, <3>1, <3>2 DEF Keeps
  <2> QED BY <1>5, <2>1, <2>2 DEF Link
<1>11. CallsGood(scope, fn, Append(calls, e), f, stk, g.home)
  BY <1>3, <1>7, <1>8, <1>9, <1>10, CallPushed, Zenon
<1>12. TypesOK'
  BY <1>2, <1>3, <1>5, <1>7 DEF TypesOK, FunctionType
<1>13. StacksGood'
  BY <1>2, <1>5, <1>6, <1>11, Zenon DEF StacksGood, Inv
<1> QED
  BY <1>12, <1>13, Zenon DEF Inv

\* An argument is evaluated on the stack of the call.
LEMMA StepEvalArgument == ASSUME Inv, EvalArgument PROVE Inv'
<1>1. PICK g : g = Function("thunk", NewClosing(linear), curfunc, NewClosing(linear),
                            here, fun[curfunc].made)
  OBVIOUS
<1>2. Enter(g, linear, Len(linear), 0) /\ InCode
  BY <1>1 DEF EvalArgument
<1>3. NewClosing(linear) \in Seq(Nat)
  BY Captured
<1>4. g \in FunctionType /\ g.parent <= Len(fun) /\ Sound(scope, fun, g)
  BY <1>1, <1>2, <1>3, CodeSound
<1>5. g.home = here /\ g.kind = "thunk"
  BY <1>1 DEF Function
<1>6. linear \in Seq(Nat) /\ StackTo(scope, linear, g.home) /\ 0 \in Nat
  BY <1>5, Current
<1> QED
  BY <1>2, <1>4, <1>5, <1>6, StepEnter

\* eval and source run code where their caller stands.
LEMMA StepEval == ASSUME Inv, Eval PROVE Inv'
<1>1. PICK r, g : r = NewClosing(linear)
                  /\ g = Function("eval", r, 0, r, here, {"detached"})
  OBVIOUS
<1>2. Enter(g, linear, Len(linear), 0)
  BY <1>1 DEF Eval
<1>3. r \in Seq(Nat) /\ StackTo(scope, r, here) /\ here \in Nat /\ Len(fun) \in Nat
  BY <1>1, Captured DEF Inv, TypesOK
<1>4. /\ g.kind = "eval" /\ g.closing = r /\ g.parent = 0 /\ g.home = here
      /\ g.made = {"detached"}
  BY <1>1 DEF Function
<1>5. g \in FunctionType
  BY <1>1, <1>3 DEF Function, FunctionType, Kind, Marks
<1>6. g.parent <= Len(fun) /\ Sound(scope, fun, g)
  BY <1>3, <1>4 DEF Sound
<1>7. linear \in Seq(Nat) /\ StackTo(scope, linear, g.home) /\ 0 \in Nat
  BY <1>4, Current
<1> QED
  BY <1>2, <1>4, <1>5, <1>6, <1>7, StepEnter

\* Forcing an argument puts back the stack it was passed from.
LEMMA StepForce == ASSUME Inv, NEW l \in DOMAIN lazy, ForceArg(l) PROVE Inv'
<1>1. PICK g, x, stk : g = ForcedFunction(l) /\ x = lazy[l] /\ stk = x.Stack
  OBVIOUS
<1>2. Enter(g, stk, Len(stk), l)
  BY <1>1 DEF ForceArg
<1>3. /\ TypesOK /\ LazyGood(scope, fun, x) /\ l \in Nat /\ x \in LazyType
      /\ fun \in Seq(FunctionType)
  BY <1>1 DEF Inv, TypesOK, StacksGood
<1>4. /\ NewClosing(linear) \in Seq(Nat) /\ x.Stack \in Seq(Nat) /\ x.home \in Nat
      /\ x.CurFunc \in 1..Len(fun) /\ x.CurFunc # Builtin /\ Len(fun) \in Nat
      /\ x.CurFunc \in Nat
  BY <1>3, Captured DEF LazyGood, LazyType
<1>5. fun[x.CurFunc].made \in SUBSET Marks
  <2>1. fun[x.CurFunc] \in FunctionType
    BY <1>3, <1>4
  <2> QED BY <2>1 DEF FunctionType
<1>6. /\ g.kind = "forced" /\ g.closing = stk /\ g.parent = x.CurFunc /\ g.home = x.home
      /\ g.made = fun[x.CurFunc].made \cup {"forced"}
  BY <1>1 DEF ForcedFunction, Function
<1>7. g \in FunctionType
  BY <1>1, <1>4, <1>5 DEF ForcedFunction, Function, FunctionType, Kind, Marks
<1>8. stk \in Seq(Nat) /\ StackTo(scope, stk, g.home)
  BY <1>1, <1>3, <1>4, <1>6 DEF LazyGood
<1>9. Sound(scope, fun, g)
  BY <1>1, <1>3, <1>4, <1>6, <1>8 DEF Sound, LazyGood
<1> QED
  BY <1>2, <1>3, <1>4, <1>6, <1>7, <1>8, <1>9, StepEnter, SMTT(30)

\* Where a function stands, when it is one that can be called.
LEMMA HomeIs ==
    ASSUME Inv, NEW f \in DOMAIN fun, f \notin {Main, Builtin}
    PROVE  f \in 3..Len(fun) /\ Sound(scope, fun, fun[f]) /\ fun[f] \in FunctionType
           /\ fun[f].parent < f /\ fun[f].home \in DOMAIN scope
<1>1. f \in 3..Len(fun) /\ fun[f] \in FunctionType
  BY DEF Inv, TypesOK, Main, Builtin
<1>2. Sound(scope, fun, fun[f]) /\ fun[f].parent < f
  BY <1>1 DEF Inv, StacksGood, FunctionsGood
<1>3. /\ Stack(scope, fun[f].closing)
      /\ fun[f].closing[Len(fun[f].closing)] = fun[f].home
  BY <1>2 DEF Sound, StackTo
<1>4. Len(fun[f].closing) \in DOMAIN fun[f].closing
  BY <1>3 DEF Stack
<1>5. fun[f].home \in DOMAIN scope
  BY <1>3, <1>4 DEF Stack
<1> QED
  BY <1>1, <1>2, <1>5

\* An argument passed unevaluated can be run where it was passed.
LEMMA ArgumentGood ==
    ASSUME Inv, InCode
    PROVE  SourceLazyArg \in LazyType /\ LazyGood(scope, fun, SourceLazyArg)
<1>1. PICK x : x = SourceLazyArg
  OBVIOUS
<1>2. x.Stack = linear /\ x.CurFunc = curfunc /\ x.home = here /\ x \in LazyType
  BY <1>1 DEF SourceLazyArg, LazyType, Inv, TypesOK
<1>3. /\ curfunc \in DOMAIN fun /\ StackTo(scope, linear, here)
      /\ Sits(scope, fun, curfunc, linear, Base) /\ linear \in Seq(Nat)
  BY Current, Zenon
<1>4. Base \in Nat
  BY <1>3 DEF Sits
<1>5. LazyGood(scope, fun, x)
  BY <1>2, <1>3, <1>4 DEF LazyGood, InCode
<1> QED
  BY <1>1, <1>2, <1>5

\* A call pushes a scope that stands inside the function's home.
LEMMA StepCall ==
    ASSUME Inv, NEW f \in DOMAIN fun, NEW args \in Seq(LazyType), Len(args) <= 1,
           \A i \in 1..Len(args) : LazyGood(scope, fun, args[i]), Call(f, args)
    PROVE  Inv'
<1>1. PICK x : x = NewScope(TRUE, fun[f].born, fun[f].home, fun[f].made)
  OBVIOUS
<1>2. PICK sc, q, e : /\ sc = Append(scope, x) /\ q = Append(linear, Len(sc))
                      /\ e = Entry(Len(linear) + 1, 0)
  OBVIOUS
<1>3. /\ fun[f].kind = "closure" /\ calls' = Append(calls, e) /\ scope' = sc
      /\ linear' = q /\ curfunc' = f /\ here' = Len(sc) /\ lazy' = lazy \o args
      /\ UNCHANGED fun
  BY <1>1, <1>2 DEF Call
<1>4. /\ TypesOK /\ scope \in Seq(ScopeType) /\ fun \in Seq(FunctionType)
      /\ calls \in Seq(EntryType) /\ lazy \in Seq(LazyType)
      /\ FunctionsGood(scope, fun) /\ GrownFunctions(fun, fun)
  BY NothingGrown DEF Inv, TypesOK, StacksGood
<1>5. f \notin {Main, Builtin}
  BY <1>3, <1>4 DEF FunctionsGood, Function
<1>6. /\ f \in 3..Len(fun) /\ Sound(scope, fun, fun[f]) /\ fun[f] \in FunctionType
      /\ fun[f].home \in DOMAIN scope
  BY <1>5, HomeIs
<1>7. x \in ScopeType /\ x.outer = fun[f].home /\ x.IsFunction
  BY <1>1, <1>6 DEF NewScope, ScopeType, FunctionType
<1>8. IsAdded(x, sc, q)
  <2>1. IsAdded(x, Append(scope, x), Append(linear, Len(Append(scope, x))))
    BY <1>6, <1>7, ScopeAdded
  <2> QED BY <1>2, <2>1, Zenon
<1>9. /\ sc \in Seq(ScopeType) /\ q \in Seq(Nat) /\ Len(sc) \in DOMAIN sc
      /\ Len(sc) \in Nat
      /\ GrownScopes(scope, sc) /\ ScopesGood(sc)
      /\ StackTo(sc, q, Len(sc)) /\ Stack(sc, q)
      /\ Len(q) = Len(linear) + 1 /\ q[Len(linear) + 1] = Len(sc)
      /\ (\A k \in 1..Len(linear) : q[k] = linear[k])
      /\ sc[Len(sc)] = x
  BY <1>8, Zenon DEF IsAdded
<1>10. linear \in Seq(Nat) /\ Len(linear) \in Nat /\ Len(linear) + 1 \in Nat
  BY <1>4 DEF TypesOK
<1>11. /\ e \in EntryType /\ e.curfunc = curfunc /\ e.linear = linear /\ e.here = here
       /\ e.base = Len(linear) + 1
  BY <1>2, <1>10, EntryIs
<1>12. FunctionsGood(sc, fun)
  BY <1>4, <1>9, GrownFunctionsGood, Zenon
<1>13. CallsGood(sc, fun, calls, e.curfunc, e.linear, e.here)
  <2>1. CallsGood(sc, fun, calls, curfunc, linear, here)
    BY <1>4, <1>9, GrownCalls, Zenon DEF Inv, StacksGood
  <2> QED BY <2>1, <1>11
<1>14. Level(sc, fun, f, q, Len(sc), e.base)
  <2>1. e.base \in 1..Len(q) /\ e.base + 1..Len(q) = {} /\ q[e.base] = Len(sc)
    BY <1>9, <1>10, <1>11
  <2>2. sc[q[e.base]].IsFunction /\ sc[q[e.base]].outer = fun[f].home
    BY <1>7, <1>9, <2>1
  <2>3. Sits(sc, fun, f, q, e.base)
    BY <1>5, <2>1, <2>2 DEF Sits
  <2> QED BY <1>5, <1>9, <2>3 DEF Level
<1>15. Link(fun, f, q, e)
  <2>1. Keeps(q, linear)
    BY <1>9, <1>10 DEF Keeps
  <2> QED BY <1>3, <1>11, <2>1 DEF Link
<1>16. CallsGood(sc, fun, Append(calls, e), f, q, Len(sc))
  BY <1>4, <1>11, <1>13, <1>14, <1>15, CallPushed, Zenon
<1>17. PICK ls : ls = lazy \o args
  OBVIOUS
<1>18. /\ ls \in Seq(LazyType) /\ Len(ls) = Len(lazy) + Len(args) /\ Len(lazy) \in Nat
       /\ DOMAIN ls = 1..Len(lazy) + Len(args) /\ Len(args) \in Nat
       /\ (\A k \in 1..Len(lazy) : ls[k] = lazy[k])
       /\ (\A i \in 1..Len(args) : ls[Len(lazy) + i] = args[i])
  BY <1>4, <1>17
<1>19. ASSUME NEW k \in DOMAIN ls PROVE LazyGood(sc, fun, ls[k])
  <2>1. CASE k \in 1..Len(lazy)
    <3>1. LazyGood(scope, fun, lazy[k])
      BY <1>4, <2>1 DEF Inv, StacksGood
    <3>2. LazyGood(sc, fun, lazy[k])
      BY <1>4, <1>9, <3>1, GrownLazy, Zenon
    <3> QED BY <2>1, <3>2, <1>18
  <2>2. CASE k \notin 1..Len(lazy)
    <3>1. k - Len(lazy) \in 1..Len(args) /\ k = Len(lazy) + (k - Len(lazy))
      BY <2>2, <1>18
    <3>2. PICK i \in 1..Len(args) : ls[k] = args[i]
      BY <3>1, <1>18
    <3>3. LazyGood(scope, fun, args[i])
      OBVIOUS
    <3>4. LazyGood(sc, fun, args[i])
      BY <1>4, <1>9, <3>3, GrownLazy, Zenon
    <3> QED BY <3>2, <3>4
  <2> QED BY <2>1, <2>2
<1>20. TypesOK'
  <2>1. f \in Nat
    BY <1>6
  <2> QED BY <1>3, <1>4, <1>9, <1>11, <1>17, <1>18, <2>1 DEF TypesOK
<1>21. StacksGood'
  BY <1>3, <1>9, <1>12, <1>16, <1>17, <1>19, Zenon DEF StacksGood
<1> QED
  BY <1>20, <1>21, Zenon DEF Inv

\* A builtin runs on its caller's stack as it is.
LEMMA StepCallBuiltin == ASSUME Inv, CallBuiltin PROVE Inv'
<1>1. PICK e : e = Entry(Len(linear), 0)
  OBVIOUS
<1>2. /\ calls' = Append(calls, e) /\ curfunc' = Builtin
      /\ UNCHANGED <<scope, fun, lazy, linear, here>>
  BY <1>1 DEF CallBuiltin
<1>3. /\ TypesOK /\ fun \in Seq(FunctionType) /\ calls \in Seq(EntryType)
      /\ FunctionsGood(scope, fun) /\ linear \in Seq(Nat) /\ Len(linear) \in Nat
      /\ StackTo(scope, linear, here)
  BY Current DEF Inv, TypesOK, StacksGood
<1>4. /\ e \in EntryType /\ e.curfunc = curfunc /\ e.linear = linear /\ e.here = here
      /\ e.base = Len(linear)
  BY <1>1, <1>3, EntryIs
<1>5. CallsGood(scope, fun, calls, e.curfunc, e.linear, e.here)
  BY <1>4 DEF Inv, StacksGood
<1>6. Builtin \in DOMAIN fun /\ fun[Builtin].kind = "builtin"
  BY <1>3 DEF FunctionsGood, Function, Builtin
<1>7. Level(scope, fun, Builtin, linear, here, e.base)
  BY <1>3, <1>4, <1>6 DEF Level
<1>8. Link(fun, Builtin, linear, e)
  BY <1>3, <1>4, <1>6 DEF Link, Keeps
<1>9. CallsGood(scope, fun, Append(calls, e), Builtin, linear, here)
  BY <1>3, <1>4, <1>5, <1>7, <1>8, CallPushed, Zenon
<1>10. TypesOK'
  BY <1>2, <1>3, <1>4 DEF TypesOK, Builtin
<1>11. StacksGood'
  BY <1>2, <1>9, Zenon DEF StacksGood, Inv
<1> QED
  BY <1>10, <1>11, Zenon DEF Inv

\* The end of a call, once its caller's stack is back.
LEMMA CallEnded ==
    ASSUME Inv, calls # <<>>, CallEnds, linear' = Last(calls).linear,
           here' = Last(calls).here, UNCHANGED <<scope, fun>>,
           lazy' \in Seq(LazyType), DOMAIN lazy' = DOMAIN lazy,
           \A l \in DOMAIN lazy : /\ lazy'[l].Stack = lazy[l].Stack
                                  /\ lazy'[l].CurFunc = lazy[l].CurFunc
                                  /\ lazy'[l].home = lazy[l].home
    PROVE  Inv'
<1>1. PICK e, cs : e = Last(calls) /\ cs = Front(calls)
  OBVIOUS
<1>2. /\ TypesOK /\ calls \in Seq(EntryType)
      /\ CallsGood(scope, fun, calls, curfunc, linear, here)
  BY DEF Inv, TypesOK, StacksGood
<1>3. cs \in Seq(EntryType) /\ e \in EntryType
  BY <1>1, <1>2 DEF Front, Last
<1>4. CallsGood(scope, fun, cs, e.curfunc, e.linear, e.here)
  BY <1>1, <1>2, CallPopped, Zenon
<1>5. calls' = cs /\ curfunc' = e.curfunc /\ linear' = e.linear /\ here' = e.here
  BY <1>1 DEF CallEnds
<1>6. ASSUME NEW l \in DOMAIN lazy PROVE LazyGood(scope, fun, lazy'[l])
  <2>1. LazyGood(scope, fun, lazy[l])
    BY DEF Inv, StacksGood
  <2> QED BY <2>1 DEF LazyGood
<1>7. TypesOK'
  BY <1>2, <1>3, <1>5 DEF TypesOK, EntryType
<1>8. StacksGood'
  BY <1>4, <1>5, <1>6, Zenon DEF StacksGood, Inv
<1> QED
  BY <1>7, <1>8, Zenon DEF Inv

\* Arguments that a step leaves alone keep what they captured.
LEMMA LazyStays ==
    ASSUME Inv, UNCHANGED lazy
    PROVE  /\ lazy' \in Seq(LazyType) /\ DOMAIN lazy' = DOMAIN lazy
           /\ \A l \in DOMAIN lazy : /\ lazy'[l].Stack = lazy[l].Stack
                                     /\ lazy'[l].CurFunc = lazy[l].CurFunc
                                     /\ lazy'[l].home = lazy[l].home
BY DEF Inv, TypesOK

\* A stack that keeps the caller's and is no longer is the caller's.
LEMMA SameStack ==
    ASSUME NEW stk \in Seq(Nat), NEW caller \in Seq(Nat), Keeps(stk, caller),
           Len(stk) = Len(caller)
    PROVE  stk = caller
<1>1. \A i \in 1..Len(stk) : stk[i] = caller[i]
  BY DEF Keeps
<1> QED
  BY <1>1, SameSeq

\* A function that returns has its caller's stack below its own scope.
LEMMA StepReturn == ASSUME Inv, Return PROVE Inv'
<1>1. /\ calls # <<>> /\ fun[curfunc].kind = "closure" /\ Len(linear) = Base
      /\ CallEnds /\ linear' = Front(linear) /\ here' = Last(calls).here
      /\ UNCHANGED <<scope, fun, lazy>>
  BY DEF Return, Ends
<1>2. /\ Link(fun, curfunc, linear, Last(calls)) /\ linear \in Seq(Nat)
      /\ Len(linear) \in Nat /\ Len(linear) > 0
  BY <1>1, Current, Zenon
<1>3. PICK caller : caller = Last(calls).linear
  OBVIOUS
<1>4. Last(calls) \in EntryType /\ caller \in Seq(Nat) /\ Len(caller) \in Nat
  <2>1. calls \in Seq(EntryType)
    BY DEF Inv, TypesOK
  <2>2. Last(calls) \in EntryType
    BY <1>1, <2>1 DEF Last
  <2> QED BY <1>3, <2>2 DEF EntryType
<1>5. Base = Len(caller) + 1 /\ Keeps(linear, caller)
  BY <1>1, <1>2, <1>3 DEF Link, Base
<1>6. PICK q : q = Front(linear)
  OBVIOUS
<1>7. q \in Seq(Nat) /\ Len(q) = Len(caller) /\ \A i \in 1..Len(caller) : q[i] = linear[i]
  <2>1. Len(linear) = Len(caller) + 1 /\ Len(linear) - 1 = Len(caller)
    BY <1>1, <1>2, <1>4, <1>5
  <2>2. q = SubSeq(linear, 1, Len(caller))
    BY <1>6, <2>1 DEF Front
  <2> QED BY <1>2, <1>4, <2>1, <2>2
<1>8. Keeps(q, caller)
  BY <1>4, <1>5, <1>7, SMTT(30) DEF Keeps
<1>9. q = caller
  BY <1>4, <1>7, <1>8, SameStack
<1> QED
  BY <1>1, <1>3, <1>6, <1>9, LazyStays, CallEnded

\* The end of an argument puts the saved stack back.
LEMMA StepArgumentDone == ASSUME Inv, ArgumentDone PROVE Inv'
BY LazyStays, CallEnded DEF ArgumentDone, Ends

\* The end of a forced argument puts the forcer's stack back.
LEMMA StepForceDone == ASSUME Inv, ForceDone PROVE Inv'
<1>1. PICK n : n = Last(calls).lazy
  OBVIOUS
<1>2. PICK ls : ls = [lazy EXCEPT ![n].Forced = TRUE]
  OBVIOUS
<1>3. lazy \in Seq(LazyType)
  BY DEF Inv, TypesOK
<1>4. ls \in Seq(LazyType) /\ DOMAIN ls = DOMAIN lazy
      /\ \A l \in DOMAIN lazy : /\ ls[l].Stack = lazy[l].Stack
                                /\ ls[l].CurFunc = lazy[l].CurFunc
                                /\ ls[l].home = lazy[l].home
  <2>1. CASE n \in DOMAIN lazy
    <3>1. PICK x : x = [lazy[n] EXCEPT !.Forced = TRUE]
      OBVIOUS
    <3>2. lazy[n] \in LazyType
      BY <1>3, <2>1
    <3>3. /\ x \in LazyType /\ x.Stack = lazy[n].Stack /\ x.CurFunc = lazy[n].CurFunc
          /\ x.home = lazy[n].home
      BY <3>1, <3>2 DEF LazyType
    <3>4. ls = [lazy EXCEPT ![n] = x]
      BY <1>2, <3>1
    <3>5. /\ ls \in Seq(LazyType) /\ DOMAIN ls = DOMAIN lazy
          /\ \A l \in DOMAIN lazy : ls[l] = IF l = n THEN x ELSE lazy[l]
      BY <1>3, <2>1, <3>3, <3>4, SeqExcept
    <3> QED BY <3>3, <3>5
  <2>2. CASE n \notin DOMAIN lazy
    <3>1. ls = lazy
      BY <1>2, <1>3, <2>2
    <3> QED BY <1>3, <3>1
  <2> QED BY <2>1, <2>2
<1>5. lazy' = ls
  BY <1>1, <1>2 DEF ForceDone
<1> QED
  BY <1>4, <1>5, CallEnded DEF ForceDone, Ends

\* Builtins and evaluated code leave the stack as their caller had it.
LEMMA StepBackInPlace ==
    ASSUME Inv, calls # <<>>, fun[curfunc].kind \in {"eval", "builtin"},
           Len(linear) = Base, CallEnds, here' = Last(calls).here,
           UNCHANGED <<scope, fun, lazy, linear>>
    PROVE  Inv'
<1>1. /\ Link(fun, curfunc, linear, Last(calls)) /\ linear \in Seq(Nat)
      /\ Len(linear) \in Nat
  BY Current, Zenon
<1>2. PICK caller : caller = Last(calls).linear
  OBVIOUS
<1>3. caller \in Seq(Nat)
  <2>1. calls \in Seq(EntryType)
    BY DEF Inv, TypesOK
  <2>2. Last(calls) \in EntryType
    BY <2>1 DEF Last
  <2> QED BY <1>2, <2>2 DEF EntryType
<1>4. Base = Len(caller) /\ Keeps(linear, caller)
  BY <1>1, <1>2 DEF Link, Base
<1>5. linear = caller
  BY <1>1, <1>3, <1>4, SameStack
<1> QED
  BY <1>2, <1>5, LazyStays, CallEnded

\* A builtin returns to the stack it found.
LEMMA StepBuiltinReturns == ASSUME Inv, BuiltinReturns PROVE Inv'
<1>1. curfunc = Builtin /\ calls # <<>> /\ Len(linear) = Base
  BY Current DEF BuiltinReturns, InCode, Builtin, Main
<1>2. fun[curfunc].kind = "builtin"
  BY <1>1 DEF Inv, StacksGood, FunctionsGood, Function
<1> QED
  BY <1>1, <1>2, StepBackInPlace DEF BuiltinReturns

\* Evaluated code that has closed its scopes left the caller's stack.
LEMMA StepEvalDone == ASSUME Inv, EvalDone PROVE Inv'
BY StepBackInPlace DEF EvalDone, Ends

\* The first level, of every program and after every error.
LEMMA MainLevel ==
    ASSUME NEW sc \in Seq(ScopeType), ScopesGood(sc),
           NEW fn \in Seq(FunctionType), FunctionsGood(sc, fn)
    PROVE  CallsGood(sc, fn, <<>>, Main, <<Global>>, Global)
<1>1. PICK stk : stk = <<Global>>
  OBVIOUS
<1>2. stk \in Seq(Nat) /\ Len(stk) = 1 /\ stk[1] = Global /\ DOMAIN stk = {1}
  BY <1>1 DEF Global
<1>3. Global \in DOMAIN sc /\ Main \in DOMAIN fn /\ fn[Main].home = Global
  BY DEF ScopesGood, FunctionsGood, Global, Main, Function
<1>4. StackTo(sc, stk, Global)
  <2>1. 2..Len(stk) = {}
    BY <1>2
  <2> QED BY <1>2, <1>3, <2>1 DEF StackTo, Stack
<1>5. Sits(sc, fn, Main, stk, 1)
  <2>1. 1 \in 1..Len(stk) /\ 1 + 1..Len(stk) = {}
    BY <1>2
  <2> QED BY <1>2, <1>3, <2>1 DEF Sits
<1>6. Level(sc, fn, Main, stk, Global, 1)
  BY <1>3, <1>4, <1>5 DEF Level, Main, Builtin
<1>7. BaseBelow(<<>>, Len(<<>>) + 1) = 1 /\ 1..Len(<<>>) = {}
  BY DEF BaseBelow
<1>8. CallsGood(sc, fn, <<>>, Main, stk, Global)
  BY <1>6, <1>7 DEF CallsGood
<1> QED
  BY <1>1, <1>8

\* An error goes back to the global scope and the main function.
LEMMA StepFail == ASSUME Inv, Fail PROVE Inv'
<1>1. /\ linear' = <<Global>> /\ curfunc' = Main /\ calls' = <<>> /\ here' = Global
      /\ UNCHANGED <<scope, fun, lazy>>
  BY DEF Fail
<1>2. CallsGood(scope, fun, <<>>, Main, <<Global>>, Global)
  BY MainLevel DEF Inv, TypesOK, StacksGood
<1>3. TypesOK'
  BY <1>1 DEF Inv, TypesOK, Main, Global
<1>4. StacksGood'
  BY <1>1, <1>2, Zenon DEF StacksGood, Inv
<1> QED
  BY <1>3, <1>4, Zenon DEF Inv

\* Binding and removing symbols moves no scope.
LEMMA StepBinds ==
    ASSUME Inv, NEW sym \in Symbol, BindSymbol(sym) \/ Update(sym) \/ RemoveSymbol(sym)
    PROVE  Inv'
<1>1. Last(linear) \in DOMAIN scope
  BY Current
<1>2. PICK s \in DOMAIN scope : s = Last(linear)
  BY <1>1
<1>3. scope[s].bound \in SUBSET Symbol
  <2>1. scope[s] \in ScopeType
    BY DEF Inv, TypesOK
  <2> QED BY <2>1 DEF ScopeType
<1>4. UNCHANGED <<fun, lazy, linear, curfunc, calls, here>>
  BY DEF BindSymbol, Update, RemoveSymbol
<1>5. \/ scope' = [scope EXCEPT ![s].bound = scope[s].bound \cup {sym}]
      \/ scope' = [scope EXCEPT ![s].bound = scope[s].bound \ {sym}]
  BY <1>2 DEF BindSymbol, Update, RemoveSymbol, Bind
<1>6. PICK b \in SUBSET Symbol : scope' = [scope EXCEPT ![s].bound = b]
  BY <1>3, <1>5
<1> QED
  BY <1>4, <1>6, StepRebinds

\* The invariant holds at first.
LEMMA InitGood == Init => Inv
<1> SUFFICES ASSUME Init PROVE Inv
  OBVIOUS
<1>1. TypesOK
  BY DEF Init, TypesOK, NewScope, Function, ScopeType, FunctionType, LazyType, EntryType,
         Kind, Marks, Global, Main
<1>2. ScopesGood(scope)
  BY DEF Init, ScopesGood, NewScope, Global
<1>3. FunctionsGood(scope, fun)
  <2>1. Len(fun) = 2 /\ 3..Len(fun) = {}
    BY DEF Init
  <2> QED BY <2>1 DEF Init, FunctionsGood, Main, Builtin
<1>4. CallsGood(scope, fun, calls, curfunc, linear, here)
  <2>1. CallsGood(scope, fun, <<>>, Main, <<Global>>, Global)
    BY <1>1, <1>2, <1>3, MainLevel DEF TypesOK
  <2> QED BY <2>1 DEF Init
<1>5. DOMAIN lazy = {}
  BY DEF Init
<1> QED
  BY <1>1, <1>2, <1>3, <1>4, <1>5 DEF Inv, StacksGood

\* Every step of a program keeps the invariant.
LEMMA NextGood == Inv /\ [Next]_vars => Inv'
<1> SUFFICES ASSUME Inv, [Next]_vars PROVE Inv'
  OBVIOUS
<1>1. CASE AddScope BY <1>1, StepAddScope
<1>2. CASE RemoveScope BY <1>2, StepRemoveScope
<1>3. CASE \E sym \in Symbol : BindSymbol(sym) \/ Update(sym) \/ RemoveSymbol(sym)
  BY <1>3, StepBinds
<1>4. CASE CreateClosure BY <1>4, StepCreateClosure
<1>5. CASE Return BY <1>5, StepReturn
<1>6. CASE \E f \in DOMAIN fun : Call(f, <<>>)
  <2>1. PICK f \in DOMAIN fun : Call(f, <<>>)
    BY <1>6
  <2>2. <<>> \in Seq(LazyType) /\ Len(<<>>) <= 1 /\ 1..Len(<<>>) = {}
    OBVIOUS
  <2> QED BY <2>1, <2>2, StepCall
<1>7. CASE \E f \in DOMAIN fun : InCode /\ Call(f, <<SourceLazyArg>>)
  <2>1. PICK f \in DOMAIN fun : InCode /\ Call(f, <<SourceLazyArg>>)
    BY <1>7
  <2>2. PICK x \in LazyType : x = SourceLazyArg /\ LazyGood(scope, fun, x)
    BY <2>1, ArgumentGood
  <2>3. PICK args : args = <<x>>
    OBVIOUS
  <2>4. args \in Seq(LazyType) /\ Len(args) = 1 /\ args[1] = x /\ Call(f, args)
    BY <2>1, <2>2, <2>3
  <2>5. Len(args) <= 1 /\ \A i \in 1..Len(args) : LazyGood(scope, fun, args[i])
    BY <2>2, <2>4
  <2> QED BY <2>4, <2>5, StepCall
<1>8. CASE EvalArgument BY <1>8, StepEvalArgument
<1>9. CASE ArgumentDone BY <1>9, StepArgumentDone
<1>10. CASE CallBuiltin BY <1>10, StepCallBuiltin
<1>11. CASE BuiltinReturns BY <1>11, StepBuiltinReturns
<1>12. CASE Eval BY <1>12, StepEval
<1>13. CASE EvalDone BY <1>13, StepEvalDone
<1>14. CASE ForceDone BY <1>14, StepForceDone
<1>15. CASE \E l \in DOMAIN lazy : ForceArg(l) BY <1>15, StepForce
<1>16. CASE Fail BY <1>16, StepFail
<1>17. CASE UNCHANGED vars
  <2>1. UNCHANGED <<scope, fun, lazy, linear, curfunc, calls, here>>
    BY <1>17 DEF vars
  <2> QED
    BY <2>1 DEF Inv, TypesOK, StacksGood
<1> QED
  BY <1>1, <1>2, <1>3, <1>4, <1>5, <1>6, <1>7, <1>8, <1>9, <1>10, <1>11, <1>12,
     <1>13, <1>14, <1>15, <1>16, <1>17 DEF Next

\* Stacks stay good in every program: each chain outward by the source is
\* whole, and each code sits on its stack as its source says.
THEOREM StacksStayGood == Spec => []Inv
BY InitGood, NextGood, PTL DEF Spec

\* BindsHere: a definition lands in the scope its code stands in, however
\* calls, builtins, forced arguments and errors came and went.
THEOREM BindsHereAlways == Spec => []BindsHere
<1>1. Inv => BindsHere
  BY Current DEF BindsHere
<1> QED
  BY <1>1, StacksStayGood, PTL

-----------------------------------------------------------------------------
(* The functions that are defined by steps outward: each takes, at a scope *)
(* or function, a step to a smaller number, so Descent says that it exists *)

OutwardOf(sc) ==
    LET outward[s \in 0..Len(sc)] ==
            IF s = 0 THEN {0} ELSE {s} \cup outward[sc[s].outer]
    IN  outward

\* A scope is made after the one around it.
LEMMA OuterBelow ==
    ASSUME NEW sc \in Seq(ScopeType), ScopesGood(sc), NEW s \in 1..Len(sc)
    PROVE  sc[s].outer \in 0..s - 1 /\ sc[s].outer \in 0..Len(sc) /\ Len(sc) \in Nat
<1>1. sc[s] \in ScopeType /\ s \in DOMAIN sc /\ Len(sc) \in Nat
  OBVIOUS
<1>2. sc[s].outer \in Nat /\ sc[s].outer < s
  BY <1>1 DEF ScopeType, ScopesGood
<1> QED
  BY <1>1, <1>2

\* The scopes around a scope: itself, and those around its outer one.
LEMMA OutwardSteps ==
    ASSUME NEW sc \in Seq(ScopeType), ScopesGood(sc)
    PROVE  /\ OutwardOf(sc)[0] = {0}
           /\ \A s \in 1..Len(sc) : OutwardOf(sc)[s] = {s} \cup OutwardOf(sc)[sc[s].outer]
<1> DEFINE N == Len(sc)
           V == SUBSET Nat
           next == [s \in 1..N |-> sc[s].outer]
           rule == [s \in 1..N |-> [v \in V |-> {s} \cup v]]
           Is(g) == g = [s \in 0..N |-> IF s = 0 THEN {0} ELSE {s} \cup g[sc[s].outer]]
<1>1. N \in Nat /\ {0} \in V
  OBVIOUS
<1>2. next \in [1..N -> Nat] /\ \A s \in 1..N : next[s] < s
  BY OuterBelow
<1>3. rule \in [1..N -> [V -> V]]
  <2>1. \A s \in 1..N : \A v \in V : {s} \cup v \in V
    OBVIOUS
  <2>2. \A s \in 1..N : [v \in V |-> {s} \cup v] \in [V -> V]
    <3> HIDE DEF N, V
    <3> QED BY <2>1
  <2> HIDE DEF N, V
  <2> QED BY <2>2
<1>4. \E h : IsDescent(h, N, V, {0}, next, rule)
  <2> HIDE DEF N, V, next, rule
  <2> QED BY <1>1, <1>2, <1>3, Descent, Zenon
<1>5. PICK h \in [0..N -> V] : h[0] = {0} /\ \A s \in 1..N : h[s] = rule[s][h[next[s]]]
  BY <1>4 DEF IsDescent
<1>6. ASSUME NEW s \in 1..N PROVE h[s] = {s} \cup h[sc[s].outer]
  <2>1. next[s] = sc[s].outer /\ h[sc[s].outer] \in V
    BY OuterBelow
  <2>2. h[s] = rule[s][h[sc[s].outer]]
    BY <1>5, <2>1
  <2> QED BY <2>1, <2>2
<1>7. Is(h)
  BY <1>1, <1>5, <1>6
<1>8. OutwardOf(sc) = CHOOSE g : Is(g)
  BY DEF OutwardOf
<1>9. Is(OutwardOf(sc))
  <2> HIDE DEF Is
  <2> QED BY <1>7, <1>8
<1>10. PICK g : g = OutwardOf(sc)
  OBVIOUS
<1>11. Is(g)
  BY <1>9, <1>10
<1>12. g[0] = {0} /\ \A s \in 1..N : g[s] = {s} \cup g[sc[s].outer]
  BY <1>1, <1>11, SMTT(30)
<1> QED
  BY <1>10, <1>12

\* The binder of a symbol: this scope, or the binder further out.
LEMMA BinderSteps ==
    ASSUME TypesOK, ScopesGood(scope), NEW sym
    PROVE  /\ Binder(sym)[0] = 0
           /\ \A s \in 1..Len(scope) :
                 Binder(sym)[s] = IF sym \in scope[s].bound THEN s
                                  ELSE Binder(sym)[scope[s].outer]
<1> DEFINE N == Len(scope)
           next == [s \in 1..N |-> scope[s].outer]
           rule == [s \in 1..N |->
                       [v \in Nat |-> IF sym \in scope[s].bound THEN s ELSE v]]
           Is(g) == g = [s \in 0..N |-> IF s = 0 \/ sym \in scope[s].bound THEN s
                                        ELSE g[scope[s].outer]]
<1>0. scope \in Seq(ScopeType)
  BY DEF TypesOK
<1>1. N \in Nat /\ 0 \in Nat
  BY <1>0
<1>2. next \in [1..N -> Nat] /\ \A s \in 1..N : next[s] < s
  BY <1>0, OuterBelow
<1>3. rule \in [1..N -> [Nat -> Nat]]
  OBVIOUS
<1>4. \E h : IsDescent(h, N, Nat, 0, next, rule)
  <2> HIDE DEF N, next, rule
  <2> QED BY <1>1, <1>2, <1>3, Descent, Zenon
<1>5. PICK h \in [0..N -> Nat] : h[0] = 0 /\ \A s \in 1..N : h[s] = rule[s][h[next[s]]]
  BY <1>4 DEF IsDescent
<1>6. ASSUME NEW s \in 1..N
      PROVE  h[s] = IF sym \in scope[s].bound THEN s ELSE h[scope[s].outer]
  <2>1. next[s] = scope[s].outer /\ h[scope[s].outer] \in Nat
    BY <1>0, OuterBelow
  <2>2. h[s] = rule[s][h[scope[s].outer]]
    BY <1>5, <2>1
  <2> QED BY <2>1, <2>2
<1>7. Is(h)
  BY <1>1, <1>5, <1>6
<1>8. Binder(sym) = CHOOSE g : Is(g)
  BY DEF Binder
<1>9. Is(Binder(sym))
  <2> HIDE DEF Is
  <2> QED BY <1>7, <1>8
<1>10. PICK g : g = Binder(sym)
  OBVIOUS
<1>11. Is(g)
  BY <1>9, <1>10
<1>12. g[0] = 0 /\ \A s \in 1..N : g[s] = IF sym \in scope[s].bound THEN s
                                          ELSE g[scope[s].outer]
  BY <1>1, <1>11, SMTT(30)
<1> QED
  BY <1>10, <1>12

-----------------------------------------------------------------------------
(* A stack above the nearest function's scope is a chain by the source *)

Chain(sc, q) ==
    /\ Stack(sc, q)
    /\ \A k \in 2..Len(q) : ~sc[q[k]].IsFunction

\* What is searched for a symbol is a chain.
LEMMA CutChain ==
    ASSUME NEW sc \in Seq(ScopeType), NEW stk, NEW h, StackTo(sc, stk, h),
           NEW t \in Nat, NEW q, IsCut(sc, stk, t, q)
    PROVE  Chain(sc, q) /\ q[Len(q)] = h
<1>1. StackTo(sc, q, h)
  BY CutStack, Zenon
<1>2. /\ t \in 1..Len(stk) /\ Len(stk) \in Nat /\ Len(q) = Len(stk) - t + 1
      /\ \A i \in 1..Len(q) : q[i] = stk[t + i - 1]
  BY DEF IsCut, StackTo, Stack
<1>3. ASSUME NEW k \in 2..Len(q) PROVE ~sc[q[k]].IsFunction
  <2>1. k \in 1..Len(q) /\ t + k - 1 \in t + 1..Len(stk)
    <3>1. t \in Nat /\ Len(stk) \in Nat /\ Len(q) = Len(stk) - t + 1
      BY <1>2
    <3> QED BY <3>1
  <2>2. q[k] = stk[t + k - 1]
    BY <1>2, <2>1
  <2> QED
    BY <2>1, <2>2 DEF IsCut
<1> QED
  BY <1>1, <1>3 DEF Chain, StackTo

\* Each scope of a chain is the one around the next.
LEMMA ChainOuter ==
    ASSUME NEW sc \in Seq(ScopeType), NEW q, Chain(sc, q)
    PROVE  /\ q \in Seq(Nat) /\ Len(q) \in Nat /\ Len(q) > 0
           /\ \A k \in 1..Len(q) : q[k] \in 1..Len(sc) /\ q[k] \in DOMAIN sc
           /\ \A k \in 2..Len(q) : sc[q[k]].outer = q[k - 1]
<1>1. q \in Seq(Nat) /\ Len(q) \in Nat /\ Len(q) > 0 /\ DOMAIN q = 1..Len(q)
  BY DEF Chain, Stack
<1>2. \A k \in 1..Len(q) : q[k] \in 1..Len(sc) /\ q[k] \in DOMAIN sc
  BY <1>1 DEF Chain, Stack
<1>3. \A k \in 2..Len(q) : sc[q[k]].outer = q[k - 1]
  BY DEF Chain, Stack
<1> QED
  BY <1>1, <1>2, <1>3

\* What holds for the top of a chain and is handed down holds for all of it.
LEMMA DownChain ==
    ASSUME NEW n \in Nat, NEW T \in SUBSET (1..n), n \in T,
           NEW low \in 1..n, \A k \in low..n : k > low /\ k \in T => k - 1 \in T
    PROVE  \A k \in low..n : k \in T
<1> DEFINE S == {m \in Nat : \A k \in low..n : n - k <= m => k \in T}
<1>1. 0 \in S
  OBVIOUS
<1>2. ASSUME NEW m \in S PROVE m + 1 \in S
  <2>1. m \in Nat /\ \A k \in low..n : n - k <= m => k \in T
    OBVIOUS
  <2>2. ASSUME NEW k \in low..n, n - k <= m + 1 PROVE k \in T
    <3>1. CASE n - k <= m
      BY <2>1, <3>1
    <3>2. CASE ~(n - k <= m)
      <4>1. k + 1 \in low..n /\ n - (k + 1) <= m /\ k + 1 > low /\ (k + 1) - 1 = k
        BY <2>1, <2>2, <3>2
      <4>2. k + 1 \in T
        BY <2>1, <4>1
      <4> QED BY <4>1, <4>2
    <3> QED BY <3>1, <3>2
  <2> QED BY <2>1, <2>2
<1>3. S = Nat
  <2>1. S \in SUBSET Nat
    OBVIOUS
  <2> HIDE DEF S
  <2> QED BY <1>1, <1>2, <2>1, Induction
<1>4. ASSUME NEW k \in low..n PROVE k \in T
  <2>1. n - k \in S
    BY <1>3
  <2> QED BY <2>1
<1> QED
  BY <1>4

\* LookupSymbol finds the topmost scope that binds the symbol.
LEMMA LookupIs ==
    ASSUME NEW q \in Seq(Nat), NEW sym
    PROVE  \/ /\ LookupSymbol(q, sym) = 0
              /\ \A k \in 1..Len(q) : sym \notin scope[q[k]].bound
           \/ \E k \in 1..Len(q) :
                 /\ LookupSymbol(q, sym) = q[k]
                 /\ sym \in scope[q[k]].bound
                 /\ \A j \in k + 1..Len(q) : sym \notin scope[q[j]].bound
<1> DEFINE with == {k \in DOMAIN q : sym \in scope[q[k]].bound}
<1>1. DOMAIN q = 1..Len(q) /\ Len(q) \in Nat
  OBVIOUS
<1>2. CASE with = {}
  <2>1. LookupSymbol(q, sym) = 0
    BY <1>2 DEF LookupSymbol
  <2> QED BY <1>1, <1>2, <2>1
<1>3. CASE with # {}
  <2> DEFINE top == CHOOSE k \in with : \A j \in with : j <= k
  <2>1. with \subseteq 1..Len(q)
    BY <1>1
  <2>2. \E k \in with : \A j \in with : j <= k
    <3> HIDE DEF with
    <3> QED BY <1>1, <1>3, <2>1, Greatest
  <2>3. top \in with /\ \A j \in with : j <= top
    <3> HIDE DEF with
    <3> QED BY <2>2
  <2>4. LookupSymbol(q, sym) = q[top]
    BY <1>3 DEF LookupSymbol
  <2>5. PICK k : k = top
    OBVIOUS
  <2> HIDE DEF top
  <2>6. k \in 1..Len(q) /\ sym \in scope[q[k]].bound
    BY <1>1, <2>3, <2>5
  <2>7. ASSUME NEW j \in k + 1..Len(q) PROVE sym \notin scope[q[j]].bound
    <3>1. j \in DOMAIN q /\ ~(j <= k)
      BY <1>1, <2>6
    <3> QED BY <3>1, <2>3, <2>5
  <2> QED
    BY <2>4, <2>5, <2>6, <2>7
<1> QED
  BY <1>2, <1>3

-----------------------------------------------------------------------------
(* Lookups find what the source binds *)

\* The search through a chain on which code p sits: it finds the binder of the
\* scope on top, or what binds there is what binds where p stands.
SearchFinds(sym, h, p, r) ==
    /\ r # 0 => r = Binder(sym)[h]
    /\ r = 0 => Binder(sym)[h] = Binder(sym)[fun[p].home]
    /\ r = 0 /\ p = Main => Binder(sym)[h] = 0

\* A search along a chain finds the binder, or leaves it to the code's home.
LEMMA ChainSearch ==
    ASSUME TypesOK, ScopesGood(scope), NEW sym, NEW q, Chain(scope, q),
           NEW p, NEW b, Sits(scope, fun, p, q, b)
    PROVE  SearchFinds(sym, q[Len(q)], p, LookupSymbol(q, sym))
<1> DEFINE B == Binder(sym)
           n == Len(q)
<1>0. PICK h, r : h = q[n] /\ r = LookupSymbol(q, sym)
  OBVIOUS
<1>1. /\ scope \in Seq(ScopeType) /\ B[0] = 0
      /\ \A s \in 1..Len(scope) : B[s] = IF sym \in scope[s].bound THEN s
                                         ELSE B[scope[s].outer]
  BY BinderSteps DEF TypesOK
<1>2. /\ q \in Seq(Nat) /\ n \in Nat /\ n > 0
      /\ \A k \in 1..n : q[k] \in 1..Len(scope) /\ q[k] \in DOMAIN scope
      /\ \A k \in 2..n : scope[q[k]].outer = q[k - 1]
  BY <1>1, ChainOuter
<1> HIDE DEF B
<1>3. ASSUME NEW low \in 1..n, \A j \in low + 1..n : sym \notin scope[q[j]].bound
      PROVE  B[h] = B[q[low]]
  <2> DEFINE T == {k \in 1..n : B[h] = B[q[k]]}
  <2>1. n \in T /\ T \in SUBSET (1..n)
    BY <1>0, <1>2
  <2>2. ASSUME NEW k \in low..n, k > low, k \in T PROVE k - 1 \in T
    <3>1. k \in 2..n /\ k \in 1..n /\ k \in low + 1..n /\ k - 1 \in 1..n
      BY <1>2, <2>2
    <3>2. q[k] \in 1..Len(scope) /\ scope[q[k]].outer = q[k - 1]
      BY <1>2, <3>1
    <3>3. B[q[k]] = B[q[k - 1]]
      BY <1>1, <1>3, <3>1, <3>2
    <3> QED BY <2>2, <3>1, <3>3
  <2>3. \A k \in low..n : k \in T
    <3>1. n \in Nat /\ low \in 1..n
      BY <1>2
    <3> HIDE DEF T, n
    <3> QED BY <2>1, <2>2, <3>1, DownChain
  <2>4. low \in T
    <3>1. low \in low..n
      BY <1>2
    <3> HIDE DEF T
    <3> QED BY <2>3, <3>1
  <2> QED BY <2>4
<1>4. ASSUME r # 0 PROVE r = B[h]
  <2>1. PICK k \in 1..n : /\ r = q[k] /\ sym \in scope[q[k]].bound
                          /\ \A j \in k + 1..n : sym \notin scope[q[j]].bound
    BY <1>0, <1>2, <1>4, LookupIs
  <2>2. B[h] = B[q[k]]
    BY <1>3, <2>1
  <2>3. B[q[k]] = q[k]
    BY <1>1, <1>2, <2>1
  <2> QED BY <2>1, <2>2, <2>3
<1>5. ASSUME r = 0
      PROVE  B[h] = B[fun[p].home] /\ (p = Main => B[h] = 0)
  <2>1. \A k \in 1..n : sym \notin scope[q[k]].bound
    <3>1. \A k \in 1..n : q[k] # 0
      BY <1>2
    <3> QED BY <1>0, <1>2, <1>5, <3>1, LookupIs
  <2>2. b \in 1..n
    BY DEF Sits
  <2>3. B[h] = B[q[b]]
    <3>1. \A j \in b + 1..n : j \in 1..n
      BY <1>2, <2>2
    <3> QED BY <1>3, <2>1, <2>2, <3>1
  <2>4. B[q[b]] = B[scope[q[b]].outer]
    BY <1>1, <1>2, <2>1, <2>2
  <2>5. B[h] = B[fun[p].home]
    BY <2>3, <2>4 DEF Sits
  <2>6. ASSUME p = Main PROVE B[h] = 0
    <3>1. b = 1 /\ q[b] = Global
      BY <2>6 DEF Sits
    <3>2. Global \in 1..Len(scope) /\ scope[Global].outer \in 0..Global - 1
      BY <1>1, <1>2, <2>2, <3>1, OuterBelow
    <3>3. scope[Global].outer = 0
      BY <3>2 DEF Global
    <3> QED BY <1>1, <2>3, <2>4, <3>1, <3>3
  <2> QED BY <2>5, <2>6
<1> QED
  BY <1>0, <1>4, <1>5 DEF B, SearchFinds

\* The part of a stack that LookupSymbolUntilFunction searches.
LEMMA Searched ==
    ASSUME Inv, NEW stk, NEW h, StackTo(scope, stk, h), NEW q, q = FromFunction(stk)
    PROVE  /\ Chain(scope, q) /\ q[Len(q)] = h /\ q \in Seq(Nat)
           /\ \A p, b : Sits(scope, fun, p, stk, b) =>
                 \E c \in Nat : Sits(scope, fun, p, q, c)
           /\ \A sym : LookupSymbolUntilFunction(stk, sym) = LookupSymbol(q, sym)
           /\ \A sym : LookupSymbol(q, sym) \in Nat
<1>1. TypesOK /\ scope \in Seq(ScopeType) /\ Stack(scope, stk)
  BY DEF Inv, TypesOK, StackTo
<1>2. PICK t \in Nat : IsCut(scope, stk, t, q)
  BY <1>1, Cut
<1>3. Chain(scope, q) /\ q[Len(q)] = h
  BY <1>1, <1>2, CutChain, ZenonT(40)
<1>4. q \in Seq(Nat)
  BY <1>2 DEF IsCut
<1>5. ASSUME NEW p, NEW b, Sits(scope, fun, p, stk, b)
      PROVE  \E c \in Nat : Sits(scope, fun, p, q, c)
  <2>1. Sits(scope, fun, p, q, b - t + 1)
    BY <1>1, <1>2, <1>5, CutSits, Zenon
  <2>2. b - t + 1 \in Nat
    BY <2>1 DEF Sits
  <2> QED BY <2>1, <2>2
<1>6. ASSUME NEW sym
      PROVE  /\ LookupSymbolUntilFunction(stk, sym) = LookupSymbol(q, sym)
             /\ LookupSymbol(q, sym) \in Nat
  <2>1. LookupSymbolUntilFunction(stk, sym) = LookupSymbol(q, sym)
    BY DEF LookupSymbolUntilFunction
  <2>2. \A k \in 1..Len(q) : q[k] \in Nat
    BY <1>4
  <2> QED BY <1>4, <2>1, <2>2, LookupIs
<1> QED
  BY <1>3, <1>4, <1>5, <1>6

\* Functions with a parent were made by code.
LEMMA ParentIs ==
    ASSUME Inv, NEW f \in 1..Len(fun)
    PROVE  /\ fun[f].parent \in 0..f - 1 /\ f \in Nat /\ Len(fun) \in Nat
           /\ fun[Main].parent = 0 /\ fun[Builtin].parent = 0
           /\ f \notin {Main, Builtin} =>
                 f \in 3..Len(fun) /\ Sound(scope, fun, fun[f]) /\ fun[f].home \in 1..Len(scope)
<1>1. fun[Main].parent = 0 /\ fun[Builtin].parent = 0
  BY DEF Inv, StacksGood, FunctionsGood, Function
<1>2. /\ fun[f] \in FunctionType /\ Len(fun) \in Nat /\ f \in Nat /\ f \in DOMAIN fun
      /\ DOMAIN scope = 1..Len(scope)
  BY DEF Inv, TypesOK
<1>3. CASE f \in {Main, Builtin}
  BY <1>1, <1>2, <1>3
<1>4. CASE f \notin {Main, Builtin}
  <2>1. /\ f \in 3..Len(fun) /\ Sound(scope, fun, fun[f]) /\ fun[f].parent < f
        /\ fun[f].home \in DOMAIN scope
    BY <1>2, <1>4, HomeIs
  <2>2. fun[f].parent \in Nat
    BY <1>2 DEF FunctionType
  <2> QED BY <1>1, <1>2, <2>1, <2>2
<1> QED
  BY <1>3, <1>4

\* The search along parents: own closing first, then the parent's.
LEMMA ParentSteps ==
    ASSUME Inv, NEW sym
    PROVE  \A f \in 1..Len(fun) :
              ParentChain(sym)[f] =
                 IF fun[f].parent = 0 THEN 0
                 ELSE IF LookupSymbolUntilFunction(fun[f].closing, sym) # 0
                      THEN LookupSymbolUntilFunction(fun[f].closing, sym)
                      ELSE ParentChain(sym)[fun[f].parent]
<1> DEFINE N == Len(fun)
           found(f) == LookupSymbolUntilFunction(fun[f].closing, sym)
           next == [f \in 1..N |-> fun[f].parent]
           rule == [f \in 1..N |->
                       [v \in Nat |-> IF fun[f].parent = 0 THEN 0
                                      ELSE IF found(f) # 0 THEN found(f) ELSE v]]
           Is(g) == g = [f \in 0..N |-> IF f = 0 \/ fun[f].parent = 0 THEN 0
                                        ELSE IF found(f) # 0 THEN found(f)
                                             ELSE g[fun[f].parent]]
<1>1. N \in Nat /\ 0 \in Nat
  BY DEF Inv, TypesOK
<1>2. next \in [1..N -> Nat] /\ \A f \in 1..N : next[f] < f
  BY ParentIs
<1>3. ASSUME NEW f \in 1..N, fun[f].parent # 0 PROVE found(f) \in Nat
  <2>1. Sound(scope, fun, fun[f])
    BY <1>3, ParentIs
  <2>2. StackTo(scope, fun[f].closing, fun[f].home)
    BY <2>1 DEF Sound
  <2> QED BY <2>2, Searched
<1>4. rule \in [1..N -> [Nat -> Nat]]
  <2> HIDE DEF found, N
  <2> QED BY <1>3
<1>5. \E h : IsDescent(h, N, Nat, 0, next, rule)
  <2> HIDE DEF N, next, rule
  <2> QED BY <1>1, <1>2, <1>4, Descent, Zenon
<1>6. PICK h \in [0..N -> Nat] : h[0] = 0 /\ \A f \in 1..N : h[f] = rule[f][h[next[f]]]
  BY <1>5 DEF IsDescent
<1>7. ASSUME NEW f \in 1..N
      PROVE  h[f] = IF fun[f].parent = 0 THEN 0
                    ELSE IF found(f) # 0 THEN found(f) ELSE h[fun[f].parent]
  <2>1. next[f] = fun[f].parent /\ fun[f].parent \in 0..N
    BY ParentIs
  <2>2. h[fun[f].parent] \in Nat
    BY <2>1
  <2>3. h[f] = rule[f][h[fun[f].parent]]
    BY <1>6, <2>1
  <2> HIDE DEF found
  <2> QED BY <2>2, <2>3
<1>8. Is(h)
  <2> HIDE DEF found
  <2> QED BY <1>1, <1>6, <1>7
<1>9. ParentChain(sym) = CHOOSE g : Is(g)
  BY DEF ParentChain
<1>10. Is(ParentChain(sym))
  <2> HIDE DEF Is
  <2> QED BY <1>8, <1>9
<1>11. PICK g : g = ParentChain(sym)
  OBVIOUS
<1>12. Is(g)
  BY <1>10, <1>11
<1>13. ASSUME NEW f \in 1..N
       PROVE  g[f] = IF fun[f].parent = 0 THEN 0
                     ELSE IF found(f) # 0 THEN found(f) ELSE g[fun[f].parent]
  <2> HIDE DEF found
  <2>1. f \in 0..N /\ f # 0
    BY <1>1
  <2> QED BY <1>12, <2>1
<1> QED
  BY <1>11, <1>13

\* Along the chain of parents, code that was compiled with the code around it
\* is searched in the order of the source.
LEMMA ParentsAreLexical ==
    ASSUME Inv, NEW sym
    PROVE  \A f \in 3..Len(fun) : "detached" \notin fun[f].made =>
              ParentChain(sym)[f] = Binder(sym)[fun[f].home]
<1> DEFINE Right(f) == "detached" \notin fun[f].made =>
                          ParentChain(sym)[f] = Binder(sym)[fun[f].home]
           S == {m \in Nat : \A f \in 3..Len(fun) : f <= m => Right(f)}
<1>1. TypesOK /\ ScopesGood(scope) /\ Len(fun) \in Nat
  BY DEF Inv, TypesOK, StacksGood
<1>2. 0 \in S
  <2> HIDE DEF Right
  <2> QED BY <1>1
<1>3. ASSUME NEW m \in S PROVE m + 1 \in S
  <2>1. m \in Nat /\ \A f \in 3..Len(fun) : f <= m => Right(f)
    <3> HIDE DEF Right
    <3> QED OBVIOUS
  <2>2. ASSUME NEW f \in 3..Len(fun), f = m + 1 PROVE Right(f)
    <3> SUFFICES ASSUME "detached" \notin fun[f].made
                 PROVE  ParentChain(sym)[f] = Binder(sym)[fun[f].home]
      OBVIOUS
    <3>1. /\ f \in 1..Len(fun) /\ fun[f].parent \in 0..f - 1 /\ Sound(scope, fun, fun[f])
          /\ f \in Nat
      <4>1. f \in 1..Len(fun) /\ f \notin {Main, Builtin}
        BY <1>1 DEF Main, Builtin
      <4> QED BY <4>1, ParentIs
    <3>2. PICK p : p = fun[f].parent
      OBVIOUS
    <3>3. p # 0 /\ "detached" \notin fun[p].made
      BY <3>1, <3>2 DEF Sound
    <3>4. p # Builtin
      BY <3>3 DEF Inv, StacksGood, FunctionsGood, Function
    <3>5. p \in 1..Len(fun) /\ p <= m /\ p \in Nat
      BY <1>1, <2>1, <2>2, <3>1, <3>2, <3>3
    <3>6. PICK stk, q : stk = fun[f].closing /\ q = FromFunction(stk)
      OBVIOUS
    <3>7. StackTo(scope, stk, fun[f].home) /\ \E b \in Nat : Sits(scope, fun, p, stk, b)
      BY <3>1, <3>2, <3>3, <3>4, <3>6 DEF Sound
    <3>8. /\ Chain(scope, q) /\ q[Len(q)] = fun[f].home
          /\ LookupSymbolUntilFunction(stk, sym) = LookupSymbol(q, sym)
          /\ \A b : Sits(scope, fun, p, stk, b) => \E c \in Nat : Sits(scope, fun, p, q, c)
      BY <3>6, <3>7, Searched
    <3>9. PICK c \in Nat : Sits(scope, fun, p, q, c)
      BY <3>7, <3>8
    <3>10. PICK r : r = LookupSymbol(q, sym)
      OBVIOUS
    <3>11. /\ r # 0 => r = Binder(sym)[fun[f].home]
           /\ r = 0 => Binder(sym)[fun[f].home] = Binder(sym)[fun[p].home]
           /\ r = 0 /\ p = Main => Binder(sym)[fun[f].home] = 0
      <4>1. SearchFinds(sym, q[Len(q)], p, LookupSymbol(q, sym))
        BY <1>1, <3>8, <3>9, ChainSearch, Zenon
      <4> QED BY <3>8, <3>10, <4>1, Zenon DEF SearchFinds
    <3>12. ParentChain(sym)[f] = IF r # 0 THEN r ELSE ParentChain(sym)[p]
      BY <3>1, <3>2, <3>3, <3>6, <3>8, <3>10, ParentSteps
    <3>13. CASE p = Main
      <4>1. ParentChain(sym)[p] = 0
        BY <3>5, <3>13, ParentIs, ParentSteps
      <4> QED BY <3>11, <3>12, <3>13, <4>1
    <3>14. CASE p # Main
      <4>1. p \in 3..Len(fun)
        BY <3>4, <3>5, <3>14 DEF Main, Builtin
      <4>2. ParentChain(sym)[p] = Binder(sym)[fun[p].home]
        BY <2>1, <3>3, <3>5, <4>1
      <4> QED BY <3>11, <3>12, <4>2
    <3> QED BY <3>13, <3>14
  <2>3. ASSUME NEW f \in 3..Len(fun), f <= m + 1 PROVE Right(f)
    <3> HIDE DEF Right
    <3>1. f <= m \/ f = m + 1
      BY <1>1, <2>1, <2>3
    <3> QED BY <2>1, <2>2, <3>1
  <2> HIDE DEF Right
  <2> QED BY <2>1, <2>3
<1>4. S = Nat
  <2>1. S \in SUBSET Nat
    OBVIOUS
  <2> HIDE DEF S
  <2> QED BY <1>2, <1>3, <2>1, Induction
<1>5. ASSUME NEW f \in 3..Len(fun) PROVE Right(f)
  <2>1. f \in S /\ f \in Nat
    BY <1>1, <1>4
  <2> HIDE DEF Right
  <2> QED BY <2>1
<1> QED
  BY <1>5

\* LookupIsLexical: a variable that the source binds is the one that the
\* search of LexicalLookupSymbol finds, whatever functions were made, passed
\* around and called before, and by whom.
THEOREM LookupIsLexicalAlways == Spec => []LookupIsLexical
<1>1. ASSUME Inv PROVE LookupIsLexical
  <2> SUFFICES ASSUME "detached" \notin fun[curfunc].made, NEW sym \in Symbol,
                      Lexical(sym) # 0
               PROVE  LexicalLookup(sym) = Lexical(sym)
    BY DEF LookupIsLexical
  <2>1. /\ TypesOK /\ ScopesGood(scope) /\ StackTo(scope, linear, here)
        /\ curfunc \in 1..Len(fun) /\ (InCode => Sits(scope, fun, curfunc, linear, Base))
    BY <1>1, Current DEF Inv, StacksGood
  <2>2. InCode
    BY <1>1 DEF InCode, Inv, StacksGood, FunctionsGood, Function
  <2>3. PICK q : q = FromFunction(linear)
    OBVIOUS
  <2>4. PICK own : own = LookupSymbol(q, sym)
    OBVIOUS
  <2>5. /\ Chain(scope, q) /\ q[Len(q)] = here
        /\ LookupSymbolUntilFunction(linear, sym) = own
        /\ \A b : Sits(scope, fun, curfunc, linear, b) =>
                     \E c \in Nat : Sits(scope, fun, curfunc, q, c)
    BY <1>1, <2>1, <2>3, <2>4, Searched
  <2>6. PICK c \in Nat : Sits(scope, fun, curfunc, q, c)
    BY <2>1, <2>2, <2>5
  <2>7. /\ own # 0 => own = Binder(sym)[here]
        /\ own = 0 => Binder(sym)[here] = Binder(sym)[fun[curfunc].home]
        /\ own = 0 /\ curfunc = Main => Binder(sym)[here] = 0
    <3>1. SearchFinds(sym, q[Len(q)], curfunc, LookupSymbol(q, sym))
      BY <2>1, <2>5, <2>6, ChainSearch, Zenon
    <3> QED BY <2>4, <2>5, <3>1, Zenon DEF SearchFinds
  <2>8. CASE own # 0
    BY <2>5, <2>7, <2>8 DEF LexicalLookup, Lexical
  <2>9. CASE own = 0
    <3>1. curfunc \notin {Main, Builtin}
      BY <2>2, <2>7, <2>9 DEF Lexical, InCode
    <3>2. curfunc \in 3..Len(fun) /\ Sound(scope, fun, fun[curfunc])
      BY <1>1, <2>1, <3>1, ParentIs
    <3>3. fun[curfunc].parent # 0
      BY <3>2 DEF Sound
    <3>4. LookupInParentChain(sym) = Binder(sym)[fun[curfunc].home]
      BY <1>1, <3>2, ParentsAreLexical DEF LookupInParentChain
    <3>5. LookupInParentChain(sym) = Lexical(sym)
      BY <2>7, <2>9, <3>4 DEF Lexical
    <3> QED BY <2>5, <2>9, <3>3, <3>5 DEF LexicalLookup
  <2> QED BY <2>8, <2>9
<1> QED
  BY <1>1, StacksStayGood, PTL

-----------------------------------------------------------------------------
(* Lookups stay inside: what a function's object captured when the code    *)
(* around it was compiled are scopes around it, unless it was made by an   *)
(* argument that was forced.                                               *)

BornInside(sc, captured, home, made) ==
    "forced" \notin made => \A k \in DOMAIN captured : captured[k] \in OutwardOf(sc)[home]

BornGood(sc, fn) ==
    /\ \A f \in DOMAIN fn : BornInside(sc, fn[f].born, fn[f].home, fn[f].made)
    /\ \A s \in DOMAIN sc : sc[s].IsFunction =>
          BornInside(sc, sc[s].captures, sc[s].outer, sc[s].made)

InvBorn == Inv /\ BornGood(scope, fun)

\* 0 stands for nothing found, and every scope is around itself.
LEMMA OutwardHolds ==
    ASSUME NEW sc \in Seq(ScopeType), ScopesGood(sc)
    PROVE  /\ \A s \in 0..Len(sc) : 0 \in OutwardOf(sc)[s]
           /\ \A s \in 1..Len(sc) : s \in OutwardOf(sc)[s]
           /\ \A s \in 1..Len(sc) : OutwardOf(sc)[sc[s].outer] \subseteq OutwardOf(sc)[s]
<1> DEFINE O == OutwardOf(sc)
<1>1. /\ O[0] = {0} /\ Len(sc) \in Nat
      /\ \A s \in 1..Len(sc) : O[s] = {s} \cup O[sc[s].outer]
  BY OutwardSteps
<1> HIDE DEF O
<1> DEFINE S == {m \in Nat : \A s \in 0..Len(sc) : s <= m => 0 \in O[s]}
<1>2. 0 \in S
  BY <1>1
<1>3. ASSUME NEW m \in S PROVE m + 1 \in S
  <2>1. ASSUME NEW s \in 0..Len(sc), s = m + 1 PROVE 0 \in O[s]
    <3>1. s \in 1..Len(sc) /\ sc[s].outer \in 0..s - 1 /\ sc[s].outer \in 0..Len(sc)
      BY <1>1, <2>1, OuterBelow
    <3>2. 0 \in O[sc[s].outer]
      BY <2>1, <3>1
    <3> QED BY <1>1, <3>1, <3>2
  <2>2. \A s \in 0..Len(sc) : s <= m + 1 => s <= m \/ s = m + 1
    BY <1>1
  <2> QED BY <2>1, <2>2
<1>4. S = Nat
  <2>1. S \in SUBSET Nat
    OBVIOUS
  <2> HIDE DEF S
  <2> QED BY <1>2, <1>3, <2>1, Induction
<1>5. ASSUME NEW s \in 0..Len(sc) PROVE 0 \in O[s]
  <2>1. s \in S
    BY <1>1, <1>4
  <2> QED BY <2>1
<1>6. \A s \in 1..Len(sc) : s \in O[s] /\ O[sc[s].outer] \subseteq O[s]
  BY <1>1
<1> QED
  BY <1>5, <1>6 DEF O

\* Scopes that are added change nothing outward of the old ones.
LEMMA OutwardGrown ==
    ASSUME NEW sc \in Seq(ScopeType), ScopesGood(sc), NEW sc2 \in Seq(ScopeType),
           ScopesGood(sc2), GrownScopes(sc, sc2)
    PROVE  \A s \in 0..Len(sc) : OutwardOf(sc2)[s] = OutwardOf(sc)[s]
<1> DEFINE O == OutwardOf(sc)
           P == OutwardOf(sc2)
<1>1. /\ O[0] = {0} /\ Len(sc) \in Nat /\ DOMAIN sc = 1..Len(sc)
      /\ \A s \in 1..Len(sc) : O[s] = {s} \cup O[sc[s].outer]
  BY OutwardSteps
<1>2. /\ P[0] = {0} /\ Len(sc2) \in Nat
      /\ \A s \in 1..Len(sc2) : P[s] = {s} \cup P[sc2[s].outer]
  BY OutwardSteps
<1> HIDE DEF O, P
<1> DEFINE S == {m \in Nat : \A s \in 0..Len(sc) : s <= m => P[s] = O[s]}
<1>3. 0 \in S
  <2>1. P[0] = O[0] /\ \A s \in 0..Len(sc) : s <= 0 => s = 0
    BY <1>1, <1>2
  <2> QED BY <2>1
<1>4. ASSUME NEW m \in S PROVE m + 1 \in S
  <2>1. ASSUME NEW s \in 0..Len(sc), s = m + 1 PROVE P[s] = O[s]
    <3>1. s \in 1..Len(sc) /\ sc[s].outer \in 0..s - 1 /\ sc[s].outer \in 0..Len(sc)
      BY <1>1, <2>1, OuterBelow
    <3>2. P[sc[s].outer] = O[sc[s].outer]
      BY <2>1, <3>1
    <3>3. s \in 1..Len(sc2) /\ sc2[s].outer = sc[s].outer
      BY <1>1, <1>2, <3>1 DEF GrownScopes
    <3>4. P[s] = {s} \cup P[sc[s].outer] /\ O[s] = {s} \cup O[sc[s].outer]
      BY <1>1, <1>2, <3>1, <3>3
    <3> QED BY <3>2, <3>4
  <2>2. \A s \in 0..Len(sc) : s <= m + 1 => s <= m \/ s = m + 1
    BY <1>1
  <2> QED BY <2>1, <2>2
<1>5. S = Nat
  <2>1. S \in SUBSET Nat
    OBVIOUS
  <2> HIDE DEF S
  <2> QED BY <1>3, <1>4, <2>1, Induction
<1>6. ASSUME NEW s \in 0..Len(sc) PROVE P[s] = O[s]
  <2>1. s \in S
    BY <1>1, <1>5
  <2> QED BY <2>1
<1> QED
  BY <1>6 DEF O, P

\* Everything on a chain is around its top, and so is what is around where
\* the code stands that sits on it.
LEMMA ChainInside ==
    ASSUME NEW sc \in Seq(ScopeType), ScopesGood(sc), NEW q, Chain(sc, q)
    PROVE  /\ \A k \in 1..Len(q) : q[k] \in OutwardOf(sc)[q[Len(q)]]
           /\ \A k \in 1..Len(q) : OutwardOf(sc)[q[k]] \subseteq OutwardOf(sc)[q[Len(q)]]
           /\ \A fn, p, b : Sits(sc, fn, p, q, b) =>
                 OutwardOf(sc)[fn[p].home] \subseteq OutwardOf(sc)[q[Len(q)]]
<1> DEFINE O == OutwardOf(sc)
           n == Len(q)
           T == {k \in 1..n : O[q[k]] \subseteq O[q[n]]}
<1>1. \A s \in 1..Len(sc) : s \in O[s] /\ O[sc[s].outer] \subseteq O[s]
  BY OutwardHolds
<1>2. /\ q \in Seq(Nat) /\ n \in Nat /\ n > 0
      /\ (\A k \in 1..n : q[k] \in 1..Len(sc))
      /\ \A k \in 2..n : sc[q[k]].outer = q[k - 1]
  BY ChainOuter
<1> HIDE DEF O
<1>3. n \in T /\ T \in SUBSET (1..n) /\ 1 \in 1..n
  BY <1>2
<1>4. ASSUME NEW k \in 1..n, k > 1, k \in T PROVE k - 1 \in T
  <2>1. k \in 2..n /\ k - 1 \in 1..n
    BY <1>2, <1>4
  <2>2. O[q[k - 1]] \subseteq O[q[k]]
    BY <1>1, <1>2, <2>1
  <2> QED BY <1>4, <2>1, <2>2
<1>5. \A k \in 1..n : k \in T
  <2>1. n \in Nat
    BY <1>2
  <2> HIDE DEF T, n
  <2> QED BY <1>3, <1>4, <2>1, DownChain
<1>6. ASSUME NEW k \in 1..n PROVE q[k] \in O[q[n]] /\ O[q[k]] \subseteq O[q[n]]
  BY <1>1, <1>2, <1>5
<1>7. ASSUME NEW fn, NEW p, NEW b, Sits(sc, fn, p, q, b)
      PROVE  O[fn[p].home] \subseteq O[q[n]]
  <2>1. b \in 1..n /\ (q[b] = fn[p].home \/ sc[q[b]].outer = fn[p].home)
    BY <1>7 DEF Sits
  <2>2. O[q[b]] \subseteq O[q[n]] /\ q[b] \in 1..Len(sc)
    BY <1>2, <1>5, <2>1
  <2> QED BY <1>1, <2>1, <2>2
<1> QED
  BY <1>6, <1>7 DEF O

\* The scopes that running code captures are around it, and so is whatever is
\* around where its function stands.
LEMMA CapturedInside ==
    ASSUME Inv
    PROVE  /\ \A k \in DOMAIN NewClosing(linear) :
                 NewClosing(linear)[k] \in OutwardOf(scope)[here]
           /\ InCode => OutwardOf(scope)[fun[curfunc].home] \subseteq OutwardOf(scope)[here]
<1>1. PICK q : q = NewClosing(linear)
  OBVIOUS
<1>2. /\ scope \in Seq(ScopeType) /\ ScopesGood(scope) /\ StackTo(scope, linear, here)
      /\ (InCode => Sits(scope, fun, curfunc, linear, Base))
  BY Current DEF Inv, TypesOK, StacksGood
<1>3. q = FromFunction(linear)
  BY <1>1 DEF NewClosing
<1>4. /\ Chain(scope, q) /\ q[Len(q)] = here /\ q \in Seq(Nat)
      /\ \A p, b : Sits(scope, fun, p, linear, b) => \E c \in Nat : Sits(scope, fun, p, q, c)
  BY <1>2, <1>3, Searched
<1>5. \A k \in 1..Len(q) : q[k] \in OutwardOf(scope)[here]
  BY <1>2, <1>4, ChainInside
<1>6. ASSUME InCode
      PROVE  OutwardOf(scope)[fun[curfunc].home] \subseteq OutwardOf(scope)[here]
  <2>1. PICK c \in Nat : Sits(scope, fun, curfunc, q, c)
    BY <1>2, <1>4, <1>6
  <2> QED BY <1>2, <1>4, <2>1, ChainInside
<1>7. DOMAIN q = 1..Len(q)
  BY <1>4
<1> QED
  BY <1>1, <1>5, <1>6, <1>7

\* What was captured stays inside when scopes are added or bind other symbols.
LEMMA BornKept ==
    ASSUME Inv, BornGood(scope, fun), NEW sc \in Seq(ScopeType), ScopesGood(sc),
           GrownScopes(scope, sc)
    PROVE  /\ \A f \in DOMAIN fun : BornInside(sc, fun[f].born, fun[f].home, fun[f].made)
           /\ \A s \in DOMAIN scope : sc[s].IsFunction =>
                 BornInside(sc, sc[s].captures, sc[s].outer, sc[s].made)
<1>1. /\ scope \in Seq(ScopeType) /\ ScopesGood(scope) /\ FunctionsGood(scope, fun)
      /\ DOMAIN scope = 1..Len(scope) /\ Len(scope) \in Nat
  BY DEF Inv, TypesOK, StacksGood
<1>2. \A s \in 0..Len(scope) : OutwardOf(sc)[s] = OutwardOf(scope)[s]
  BY <1>1, OutwardGrown
<1>3. ASSUME NEW f \in DOMAIN fun
      PROVE  BornInside(sc, fun[f].born, fun[f].home, fun[f].made)
  <2>1. fun[f].home \in 0..Len(scope)
    <3>1. CASE f \in {Main, Builtin}
      <4>1. fun[f].home \in {0, 1} /\ Len(scope) > 0
        BY <1>1, <3>1 DEF FunctionsGood, Function, ScopesGood, Global
      <4> QED BY <1>1, <4>1
    <3>2. CASE f \notin {Main, Builtin}
      BY <1>1, <3>2, HomeIs
    <3> QED BY <3>1, <3>2
  <2>2. BornInside(scope, fun[f].born, fun[f].home, fun[f].made)
    BY DEF BornGood
  <2> QED BY <1>2, <2>1, <2>2 DEF BornInside
<1>4. ASSUME NEW s \in DOMAIN scope, sc[s].IsFunction
      PROVE  BornInside(sc, sc[s].captures, sc[s].outer, sc[s].made)
  <2>1. /\ sc[s].IsFunction = scope[s].IsFunction /\ sc[s].outer = scope[s].outer
        /\ sc[s].captures = scope[s].captures /\ sc[s].made = scope[s].made
    BY DEF GrownScopes
  <2>2. BornInside(scope, scope[s].captures, scope[s].outer, scope[s].made)
    BY <1>4, <2>1 DEF BornGood
  <2>3. scope[s].outer \in 0..Len(scope)
    BY <1>1, OuterBelow
  <2> QED BY <1>2, <2>1, <2>2, <2>3 DEF BornInside
<1> QED
  BY <1>3, <1>4

\* A function is added whose own captures are around it.
LEMMA BornFunction ==
    ASSUME Inv, BornGood(scope, fun), NEW g,
           BornInside(scope, g.born, g.home, g.made), UNCHANGED scope, fun' = Made(g)
    PROVE  BornGood(scope, fun)'
<1>1. PICK fn : fn = Made(g)
  OBVIOUS
<1>2. fun \in Seq(FunctionType)
  BY DEF Inv, TypesOK
<1>3. ASSUME NEW f \in DOMAIN fn PROVE fn[f] = g \/ (f \in DOMAIN fun /\ fn[f] = fun[f])
  <2>1. CASE g \in ToSet(fun)
    BY <1>1, <2>1 DEF Made
  <2>2. CASE g \notin ToSet(fun)
    <3>1. fn = Append(fun, g)
      BY <1>1, <2>2 DEF Made
    <3> QED BY <1>2, <3>1
  <2> QED BY <2>1, <2>2
<1>4. ASSUME NEW f \in DOMAIN fn
      PROVE  BornInside(scope, fn[f].born, fn[f].home, fn[f].made)
  <2>1. CASE fn[f] = g
    BY <2>1
  <2>2. CASE f \in DOMAIN fun /\ fn[f] = fun[f]
    <3>1. BornInside(scope, fun[f].born, fun[f].home, fun[f].made)
      BY <2>2 DEF BornGood
    <3> QED BY <2>2, <3>1
  <2> QED BY <1>3, <2>1, <2>2
<1>5. BornGood(scope, fn)
  BY <1>4 DEF BornGood
<1> QED
  BY <1>1, <1>5

\* A scope is added whose captures are around it.
LEMMA BornScope ==
    ASSUME Inv, BornGood(scope, fun), NEW x, NEW q, IsAdded(x, scope', q),
           scope' = Append(scope, x), UNCHANGED fun,
           x.IsFunction => BornInside(scope, x.captures, x.outer, x.made),
           x.outer \in DOMAIN scope
    PROVE  BornGood(scope, fun)'
<1>1. PICK sc : sc = scope'
  OBVIOUS
<1>2. /\ scope \in Seq(ScopeType) /\ sc \in Seq(ScopeType) /\ ScopesGood(sc)
      /\ GrownScopes(scope, sc) /\ ScopesGood(scope) /\ sc[Len(sc)] = x
  BY <1>1 DEF IsAdded, Inv, TypesOK, StacksGood
<1>3. /\ \A f \in DOMAIN fun : BornInside(sc, fun[f].born, fun[f].home, fun[f].made)
      /\ \A s \in DOMAIN scope : sc[s].IsFunction =>
            BornInside(sc, sc[s].captures, sc[s].outer, sc[s].made)
  BY <1>2, BornKept
<1>4. ASSUME NEW s \in DOMAIN sc, sc[s].IsFunction
      PROVE  BornInside(sc, sc[s].captures, sc[s].outer, sc[s].made)
  <2>1. s \in DOMAIN scope \/ s = Len(sc)
    <3>1. sc = Append(scope, x)
      BY <1>1
    <3>2. DOMAIN sc = 1..Len(scope) + 1 /\ Len(sc) = Len(scope) + 1 /\ Len(scope) \in Nat
          /\ DOMAIN scope = 1..Len(scope)
      BY <1>2, <3>1
    <3> QED BY <3>2
  <2>2. CASE s \in DOMAIN scope
    BY <1>3, <1>4, <2>2
  <2>3. CASE s = Len(sc)
    <3>1. sc[s] = x
      BY <1>2, <2>3
    <3>2. BornInside(scope, x.captures, x.outer, x.made)
      BY <1>4, <3>1
    <3>3. OutwardOf(sc)[x.outer] = OutwardOf(scope)[x.outer]
      <4>1. x.outer \in 0..Len(scope)
        BY <1>2
      <4> QED BY <1>2, <4>1, OutwardGrown
    <3> QED BY <3>1, <3>2, <3>3 DEF BornInside
  <2> QED BY <2>1, <2>2, <2>3
<1>5. BornGood(sc, fun)
  BY <1>3, <1>4 DEF BornGood
<1> QED
  BY <1>1, <1>5

\* A scope of let, for or newScope captures nothing.
LEMMA BornAddScope == ASSUME InvBorn, AddScope PROVE BornGood(scope, fun)'
<1>1. PICK x : x = NewScope(FALSE, <<>>, here, {})
  OBVIOUS
<1>2. /\ x \in ScopeType /\ x.outer \in DOMAIN scope /\ x.outer = here
      /\ ~x.IsFunction
  BY <1>1, Current DEF NewScope, ScopeType, InvBorn, Inv, TypesOK
<1>3. IsAdded(x, Append(scope, x), Append(linear, Len(Append(scope, x))))
  BY <1>2, ScopeAdded DEF InvBorn
<1>4. scope' = Append(scope, x) /\ UNCHANGED fun
  BY <1>1 DEF AddScope
<1>5. PICK q : IsAdded(x, scope', q)
  BY <1>3, <1>4
<1> QED
  BY <1>2, <1>4, <1>5, BornScope DEF InvBorn

\* A call's scope has the captures of the function called.
LEMMA BornCall ==
    ASSUME InvBorn, NEW f \in DOMAIN fun, NEW args, Call(f, args)
    PROVE  BornGood(scope, fun)'
<1>1. PICK x : x = NewScope(TRUE, fun[f].born, fun[f].home, fun[f].made)
  OBVIOUS
<1>2. f \notin {Main, Builtin}
  BY DEF Call, InvBorn, Inv, StacksGood, FunctionsGood, Function
<1>3. fun[f] \in FunctionType /\ fun[f].home \in DOMAIN scope
  BY <1>2, HomeIs DEF InvBorn
<1>4. /\ x \in ScopeType /\ x.outer = fun[f].home /\ x.captures = fun[f].born
      /\ x.made = fun[f].made /\ x.IsFunction
  BY <1>1, <1>3 DEF NewScope, ScopeType, FunctionType
<1>5. IsAdded(x, Append(scope, x), Append(linear, Len(Append(scope, x))))
  BY <1>3, <1>4, ScopeAdded DEF InvBorn
<1>6. scope' = Append(scope, x) /\ UNCHANGED fun
  BY <1>1 DEF Call
<1>7. PICK q : IsAdded(x, scope', q)
  BY <1>5, <1>6
<1>8. BornInside(scope, x.captures, x.outer, x.made)
  BY <1>4 DEF InvBorn, BornGood
<1> QED
  BY <1>3, <1>4, <1>6, <1>7, <1>8, BornScope DEF InvBorn

\* Binding a symbol changes no captures.
LEMMA BornBinds ==
    ASSUME InvBorn, NEW sym \in Symbol, BindSymbol(sym) \/ Update(sym) \/ RemoveSymbol(sym)
    PROVE  BornGood(scope, fun)'
<1>1. PICK s \in DOMAIN scope : s = Last(linear)
  BY Current DEF InvBorn
<1>2. scope[s].bound \in SUBSET Symbol
  <2>1. scope[s] \in ScopeType
    BY DEF InvBorn, Inv, TypesOK
  <2> QED BY <2>1 DEF ScopeType
<1>3. UNCHANGED fun
  BY DEF BindSymbol, Update, RemoveSymbol
<1>4. \/ scope' = [scope EXCEPT ![s].bound = scope[s].bound \cup {sym}]
      \/ scope' = [scope EXCEPT ![s].bound = scope[s].bound \ {sym}]
  BY <1>1 DEF BindSymbol, Update, RemoveSymbol, Bind
<1>5. PICK b \in SUBSET Symbol : scope' = [scope EXCEPT ![s].bound = b]
  BY <1>2, <1>4
<1>6. PICK sc : sc = scope'
  OBVIOUS
<1>7. /\ sc \in Seq(ScopeType) /\ GrownScopes(scope, sc) /\ ScopesGood(sc)
      /\ DOMAIN sc = DOMAIN scope
  BY <1>5, <1>6, Rebound DEF InvBorn
<1>8. BornGood(sc, fun)
  BY <1>7, BornKept DEF InvBorn, BornGood
<1> QED
  BY <1>3, <1>6, <1>8

\* New functions capture scopes around them, or are marked as forced.
LEMMA BornMakes ==
    ASSUME InvBorn, \/ CreateClosure \/ EvalArgument \/ Eval
                    \/ \E l \in DOMAIN lazy : ForceArg(l)
    PROVE  BornGood(scope, fun)'
<1>1. PICK q : q = NewClosing(linear)
  OBVIOUS
<1>2. /\ \A k \in DOMAIN q : q[k] \in OutwardOf(scope)[here]
      /\ InCode => OutwardOf(scope)[fun[curfunc].home] \subseteq OutwardOf(scope)[here]
  BY <1>1, CapturedInside DEF InvBorn
<1>3. ASSUME NEW g, UNCHANGED scope, fun' = Made(g),
             BornInside(scope, g.born, g.home, g.made)
      PROVE  BornGood(scope, fun)'
  BY <1>3, BornFunction DEF InvBorn
<1>4. CASE CreateClosure
  <2>1. PICK born : born = IF InCode THEN fun[curfunc].born ELSE q
    OBVIOUS
  <2>2. PICK g : g = Function("closure", q, curfunc, born, here, fun[curfunc].made)
    OBVIOUS
  <2>3. fun' = Made(g) /\ UNCHANGED scope
    BY <1>1, <1>4, <2>1, <2>2 DEF CreateClosure
  <2>4. g.born = born /\ g.home = here /\ g.made = fun[curfunc].made
    BY <2>2 DEF Function
  <2>5. CASE InCode
    <3>1. curfunc \in DOMAIN fun
      BY Current DEF InvBorn
    <3>2. BornInside(scope, fun[curfunc].born, fun[curfunc].home, fun[curfunc].made)
      BY <3>1 DEF InvBorn, BornGood
    <3>3. BornInside(scope, g.born, g.home, g.made)
      BY <1>2, <2>1, <2>4, <2>5, <3>2 DEF BornInside
    <3> QED BY <1>3, <2>3, <3>3
  <2>6. CASE ~InCode
    <3>1. BornInside(scope, g.born, g.home, g.made)
      BY <1>2, <2>1, <2>4, <2>6 DEF BornInside
    <3> QED BY <1>3, <2>3, <3>1
  <2> QED BY <2>5, <2>6
<1>5. CASE EvalArgument
  <2>1. PICK g : g = Function("thunk", q, curfunc, q, here, fun[curfunc].made)
    OBVIOUS
  <2>2. fun' = Made(g) /\ UNCHANGED scope
    BY <1>1, <1>5, <2>1 DEF EvalArgument, Enter
  <2>3. g.born = q /\ g.home = here
    BY <2>1 DEF Function
  <2>4. BornInside(scope, g.born, g.home, g.made)
    BY <1>2, <2>3 DEF BornInside
  <2> QED BY <1>3, <2>2, <2>4
<1>6. CASE Eval
  <2>1. PICK g : g = Function("eval", q, 0, q, here, {"detached"})
    OBVIOUS
  <2>2. fun' = Made(g) /\ UNCHANGED scope
    BY <1>1, <1>6, <2>1 DEF Eval, Enter
  <2>3. g.born = q /\ g.home = here
    BY <2>1 DEF Function
  <2>4. BornInside(scope, g.born, g.home, g.made)
    BY <1>2, <2>3 DEF BornInside
  <2> QED BY <1>3, <2>2, <2>4
<1>7. CASE \E l \in DOMAIN lazy : ForceArg(l)
  <2>1. PICK l \in DOMAIN lazy : ForceArg(l)
    BY <1>7
  <2>2. PICK g : g = ForcedFunction(l)
    OBVIOUS
  <2>3. fun' = Made(g) /\ UNCHANGED scope
    BY <2>1, <2>2 DEF ForceArg, Enter
  <2>4. "forced" \in g.made
    BY <2>2 DEF ForcedFunction, Function
  <2>5. BornInside(scope, g.born, g.home, g.made)
    BY <2>4 DEF BornInside
  <2> QED BY <1>3, <2>3, <2>5
<1> QED
  BY <1>4, <1>5, <1>6, <1>7

\* Functions that no forced argument made captured scopes around them only.
THEOREM CapturesStayInside == Spec => []InvBorn
<1>1. Init => InvBorn
  <2> SUFFICES ASSUME Init PROVE BornGood(scope, fun)
    BY InitGood DEF InvBorn
  <2>1. scope \in Seq(ScopeType) /\ ScopesGood(scope)
    BY InitGood DEF Inv, TypesOK, StacksGood
  <2>2. Len(scope) = 1 /\ scope[1].IsFunction = FALSE /\ DOMAIN scope = {1}
    BY DEF Init, NewScope
  <2>3. 1 \in OutwardOf(scope)[1]
    BY <2>1, <2>2, OutwardHolds, SMTT(30)
  <2>4. DOMAIN fun = {1, 2} /\ fun[1].born = <<1>> /\ fun[1].home = 1 /\ fun[2].born = <<>>
    BY DEF Init, Function, Global
  <2>5. BornInside(scope, <<1>>, 1, fun[1].made)
    BY <2>3 DEF BornInside
  <2>6. BornInside(scope, <<>>, fun[2].home, fun[2].made)
    BY DEF BornInside
  <2> QED
    BY <2>2, <2>4, <2>5, <2>6 DEF BornGood
<1>2. InvBorn /\ [Next]_vars => InvBorn'
  <2> SUFFICES ASSUME InvBorn, [Next]_vars PROVE BornGood(scope, fun)'
    BY NextGood DEF InvBorn
  <2>1. ASSUME UNCHANGED <<scope, fun>> PROVE BornGood(scope, fun)'
    BY <2>1 DEF InvBorn
  <2>2. CASE AddScope BY <2>2, BornAddScope
  <2>3. CASE \E sym \in Symbol : BindSymbol(sym) \/ Update(sym) \/ RemoveSymbol(sym)
    BY <2>3, BornBinds
  <2>4. CASE \E f \in DOMAIN fun : \E args : Call(f, args)
    BY <2>4, BornCall
  <2>5. CASE \/ CreateClosure \/ EvalArgument \/ Eval
             \/ \E l \in DOMAIN lazy : ForceArg(l)
    BY <2>5, BornMakes
  <2>6. CASE \/ RemoveScope \/ Return \/ ArgumentDone \/ CallBuiltin \/ BuiltinReturns
             \/ EvalDone \/ ForceDone \/ Fail \/ UNCHANGED vars
    BY <2>1, <2>6 DEF RemoveScope, Return, ArgumentDone, CallBuiltin, BuiltinReturns,
       EvalDone, ForceDone, Fail, vars
  <2> QED
    BY <2>2, <2>3, <2>4, <2>5, <2>6 DEF Next
<1> QED
  BY <1>1, <1>2, PTL DEF Spec

\* What a search through the scopes of a function finds is around their top.
LEMMA SearchInside ==
    ASSUME Inv, NEW stk, NEW h, StackTo(scope, stk, h), NEW sym
    PROVE  /\ LookupSymbolUntilFunction(stk, sym) \in OutwardOf(scope)[h]
           /\ \A p, b : Sits(scope, fun, p, stk, b) =>
                 OutwardOf(scope)[fun[p].home] \subseteq OutwardOf(scope)[h]
<1>1. scope \in Seq(ScopeType) /\ ScopesGood(scope)
  BY DEF Inv, TypesOK, StacksGood
<1>2. PICK q : q = FromFunction(stk)
  OBVIOUS
<1>3. PICK r : r = LookupSymbol(q, sym)
  OBVIOUS
<1>4. /\ Chain(scope, q) /\ q[Len(q)] = h /\ q \in Seq(Nat)
      /\ \A p, b : Sits(scope, fun, p, stk, b) => \E c \in Nat : Sits(scope, fun, p, q, c)
      /\ LookupSymbolUntilFunction(stk, sym) = r
  BY <1>2, <1>3, Searched
<1>5. r = 0 \/ \E k \in 1..Len(q) : r = q[k]
  BY <1>3, <1>4, LookupIs
<1>6. h \in 1..Len(scope)
  <2>1. Len(q) \in 1..Len(q) /\ \A k \in 1..Len(q) : q[k] \in 1..Len(scope)
    BY <1>1, <1>4, ChainOuter
  <2> QED BY <1>4, <2>1
<1>7. 0 \in OutwardOf(scope)[h]
  <2>1. h \in 0..Len(scope)
    BY <1>6
  <2> QED BY <1>1, <2>1, OutwardHolds
<1>8. \A k \in 1..Len(q) : q[k] \in OutwardOf(scope)[h]
  BY <1>1, <1>4, ChainInside
<1>9. ASSUME NEW p, NEW b, Sits(scope, fun, p, stk, b)
      PROVE  OutwardOf(scope)[fun[p].home] \subseteq OutwardOf(scope)[h]
  <2>1. PICK c \in Nat : Sits(scope, fun, p, q, c)
    BY <1>4, <1>9
  <2> QED BY <1>1, <1>4, <2>1, ChainInside
<1> QED
  BY <1>4, <1>5, <1>7, <1>8, <1>9

\* What the chain of parents finds is around where the function stands.
LEMMA ParentsInside ==
    ASSUME Inv, NEW sym
    PROVE  \A f \in 3..Len(fun) : ParentChain(sym)[f] \in OutwardOf(scope)[fun[f].home]
<1> DEFINE Inside(f) == ParentChain(sym)[f] \in OutwardOf(scope)[fun[f].home]
           S == {m \in Nat : \A f \in 3..Len(fun) : f <= m => Inside(f)}
<1>1. Len(fun) \in Nat /\ scope \in Seq(ScopeType) /\ ScopesGood(scope)
  BY DEF Inv, TypesOK, StacksGood
<1>2. 0 \in S
  <2> HIDE DEF Inside
  <2> QED BY <1>1
<1>3. ASSUME NEW m \in S PROVE m + 1 \in S
  <2>1. m \in Nat /\ \A f \in 3..Len(fun) : f <= m => Inside(f)
    <3> HIDE DEF Inside
    <3> QED OBVIOUS
  <2>2. ASSUME NEW f \in 3..Len(fun), f = m + 1 PROVE Inside(f)
    <3>1. f \in 1..Len(fun) /\ f \notin {Main, Builtin}
      BY <1>1 DEF Main, Builtin
    <3>2. /\ fun[f].parent \in 0..f - 1 /\ Sound(scope, fun, fun[f]) /\ f \in Nat
          /\ fun[f].home \in 1..Len(scope)
      BY <3>1, ParentIs
    <3>3. PICK p, h, found : /\ p = fun[f].parent /\ h = fun[f].home
                             /\ found = LookupSymbolUntilFunction(fun[f].closing, sym)
      OBVIOUS
    <3>4. StackTo(scope, fun[f].closing, h)
      BY <3>2, <3>3 DEF Sound
    <3>5. found \in OutwardOf(scope)[h]
      BY <3>3, <3>4, SearchInside
    <3>6. 0 \in OutwardOf(scope)[h]
      <4>1. h \in 0..Len(scope)
        BY <3>2, <3>3
      <4> QED BY <1>1, <4>1, OutwardHolds
    <3>7. ParentChain(sym)[f] = IF p = 0 THEN 0 ELSE IF found # 0 THEN found
                                                    ELSE ParentChain(sym)[p]
      BY <3>1, <3>3, ParentSteps
    <3>8. ASSUME p # 0 PROVE ParentChain(sym)[p] \in OutwardOf(scope)[h]
      <4>1. p \in 1..Len(fun) /\ p <= m
        BY <1>1, <2>1, <2>2, <3>2, <3>3, <3>8
      <4>2. CASE p \in {Main, Builtin}
        <5>1. fun[p].parent = 0
          BY <4>1, <4>2, ParentIs
        <5>2. ParentChain(sym)[p] = 0
          BY <4>1, <5>1, ParentSteps
        <5> QED BY <3>6, <5>2
      <4>3. CASE p \notin {Main, Builtin}
        <5>1. p \in 3..Len(fun)
          BY <4>1, <4>3, ParentIs
        <5>2. ParentChain(sym)[p] \in OutwardOf(scope)[fun[p].home]
          BY <2>1, <4>1, <5>1
        <5>3. \E b \in Nat : Sits(scope, fun, p, fun[f].closing, b)
          BY <3>2, <3>3, <3>8, <4>3 DEF Sound
        <5>4. OutwardOf(scope)[fun[p].home] \subseteq OutwardOf(scope)[h]
          BY <3>4, <5>3, SearchInside
        <5> QED BY <5>2, <5>4
      <4> QED BY <4>2, <4>3
    <3> QED BY <3>3, <3>5, <3>6, <3>7, <3>8
  <2>3. ASSUME NEW f \in 3..Len(fun), f <= m + 1 PROVE Inside(f)
    <3> HIDE DEF Inside
    <3>1. f <= m \/ f = m + 1
      BY <1>1, <2>1, <2>3
    <3> QED BY <2>1, <2>2, <3>1
  <2> HIDE DEF Inside
  <2> QED BY <2>1, <2>3
<1>4. S = Nat
  <2>1. S \in SUBSET Nat
    OBVIOUS
  <2> HIDE DEF S
  <2> QED BY <1>2, <1>3, <2>1, Induction
<1>5. ASSUME NEW f \in 3..Len(fun) PROVE Inside(f)
  <2>1. f \in S /\ f \in Nat
    BY <1>1, <1>4
  <2> HIDE DEF Inside
  <2> QED BY <2>1
<1> QED
  BY <1>5

\* Last of all, what the scope's own function captured when it was compiled.
LEMMA CapturesInside ==
    ASSUME InvBorn, "forced" \notin scope[Head(FromFunction(linear))].made, NEW sym
    PROVE  LookupCaptures(linear, sym) \in OutwardOf(scope)[here]
<1>1. /\ Inv /\ scope \in Seq(ScopeType) /\ ScopesGood(scope)
      /\ StackTo(scope, linear, here) /\ here \in DOMAIN scope
  BY Current DEF InvBorn, Inv, TypesOK, StacksGood
<1>2. PICK q : q = FromFunction(linear)
  OBVIOUS
<1>3. Chain(scope, q) /\ q[Len(q)] = here /\ q \in Seq(Nat)
  BY <1>1, <1>2, Searched
<1>4. PICK s : s = Head(q)
  OBVIOUS
<1>5. s = q[1] /\ 1 \in 1..Len(q) /\ s \in 1..Len(scope) /\ s \in DOMAIN scope
  <2>1. /\ Len(q) \in Nat /\ Len(q) > 0
        /\ \A k \in 1..Len(q) : q[k] \in 1..Len(scope) /\ q[k] \in DOMAIN scope
    BY <1>1, <1>3, ChainOuter
  <2>2. 1 \in 1..Len(q) /\ s = q[1]
    BY <1>4, <2>1
  <2> QED BY <2>1, <2>2
<1>6. OutwardOf(scope)[s] \subseteq OutwardOf(scope)[here]
  BY <1>1, <1>3, <1>5, ChainInside
<1>7. 0 \in OutwardOf(scope)[here]
  <2>1. here \in 0..Len(scope)
    BY <1>1
  <2> QED BY <1>1, <2>1, OutwardHolds
<1>8. LookupCaptures(linear, sym) =
        IF scope[s].IsFunction THEN LookupSymbol(scope[s].captures, sym) ELSE 0
  BY <1>2, <1>4 DEF LookupCaptures
<1>9. ASSUME scope[s].IsFunction
      PROVE  LookupSymbol(scope[s].captures, sym) \in OutwardOf(scope)[here]
  <2>1. PICK captures : captures = scope[s].captures
    OBVIOUS
  <2>2. captures \in Seq(Nat)
    <3>1. scope[s] \in ScopeType
      BY <1>1, <1>5
    <3> QED BY <2>1, <3>1 DEF ScopeType
  <2>3. BornInside(scope, captures, scope[s].outer, scope[s].made)
    BY <1>5, <1>9, <2>1 DEF InvBorn, BornGood
  <2>4. "forced" \notin scope[s].made
    BY <1>2, <1>4
  <2>5. \A k \in DOMAIN captures : captures[k] \in OutwardOf(scope)[scope[s].outer]
    BY <2>3, <2>4 DEF BornInside
  <2>6. OutwardOf(scope)[scope[s].outer] \subseteq OutwardOf(scope)[s]
    BY <1>1, <1>5, OutwardHolds
  <2>7. LookupSymbol(captures, sym) = 0
           \/ \E k \in 1..Len(captures) : LookupSymbol(captures, sym) = captures[k]
    BY <2>2, LookupIs
  <2>8. DOMAIN captures = 1..Len(captures)
    BY <2>2
  <2> QED BY <1>6, <1>7, <2>1, <2>5, <2>6, <2>7, <2>8
<1> QED
  BY <1>7, <1>8, <1>9

\* What the running function and its parents captured, or its own closing.
LEMMA ClosingInside ==
    ASSUME Inv, NEW sym
    PROVE  /\ fun[curfunc].parent # 0 =>
                 LookupInParentChain(sym) \in OutwardOf(scope)[here]
           /\ fun[curfunc].parent = 0 =>
                 LookupSymbolUntilFunction(fun[curfunc].closing, sym) \in OutwardOf(scope)[here]
<1>1. /\ scope \in Seq(ScopeType) /\ ScopesGood(scope) /\ Global \in DOMAIN scope
      /\ here \in DOMAIN scope /\ curfunc \in 1..Len(fun)
      /\ InCode => OutwardOf(scope)[fun[curfunc].home] \subseteq OutwardOf(scope)[here]
  <2>1. Global \in DOMAIN scope
    BY DEF Inv, TypesOK, StacksGood, ScopesGood, Global
  <2> QED
    BY <2>1, Current, CapturedInside DEF Inv, TypesOK, StacksGood
<1>2. CASE curfunc = Builtin
  <2>1. fun[curfunc].parent = 0 /\ fun[curfunc].closing = <<>>
    BY <1>2 DEF Inv, StacksGood, FunctionsGood, Function
  <2>2. LookupSymbolUntilFunction(<<>>, sym) = 0
    <3>1. FromFunction(<<>>) = <<>>
      BY DEF FromFunction
    <3>2. LookupSymbol(<<>>, sym) = 0
      BY DEF LookupSymbol
    <3> QED BY <3>1, <3>2 DEF LookupSymbolUntilFunction
  <2>3. 0 \in OutwardOf(scope)[here]
    <3>1. here \in 0..Len(scope)
      BY <1>1
    <3> QED BY <1>1, <3>1, OutwardHolds
  <2> QED BY <2>1, <2>2, <2>3
<1>3. CASE curfunc = Main
  <2>1. /\ fun[curfunc].parent = 0 /\ fun[curfunc].closing = <<Global>>
        /\ fun[curfunc].home = Global
    BY <1>3 DEF Inv, StacksGood, FunctionsGood, Function
  <2>2. StackTo(scope, <<Global>>, Global)
    BY <1>1 DEF StackTo, Stack, Global
  <2>3. LookupSymbolUntilFunction(<<Global>>, sym) \in OutwardOf(scope)[Global]
    BY <2>2, SearchInside
  <2>4. InCode
    BY <1>3 DEF InCode, Main, Builtin
  <2> QED BY <1>1, <2>1, <2>3, <2>4
<1>4. CASE curfunc \notin {Main, Builtin}
  <2>1. curfunc \in 3..Len(fun) /\ Sound(scope, fun, fun[curfunc]) /\ InCode
    BY <1>1, <1>4, ParentIs DEF InCode
  <2>2. ParentChain(sym)[curfunc] \in OutwardOf(scope)[fun[curfunc].home]
    BY <2>1, ParentsInside
  <2>3. StackTo(scope, fun[curfunc].closing, fun[curfunc].home)
    BY <2>1 DEF Sound
  <2>4. LookupSymbolUntilFunction(fun[curfunc].closing, sym)
           \in OutwardOf(scope)[fun[curfunc].home]
    BY <2>3, SearchInside
  <2> QED BY <1>1, <2>1, <2>2, <2>4 DEF LookupInParentChain
<1> QED
  BY <1>2, <1>3, <1>4

\* LookupStaysInside: scoping is never dynamic.  Whatever LexicalLookupSymbol
\* finds is around the code that asks, inside builtins and evaluated code as
\* well; only functions that forced arguments made are left out.
THEOREM LookupStaysInsideAlways == Spec => []LookupStaysInside
<1>1. ASSUME InvBorn PROVE LookupStaysInside
  <2> SUFFICES ASSUME "forced" \notin scope[Head(FromFunction(linear))].made,
                      NEW sym \in Symbol
               PROVE  LexicalLookup(sym) \in Around
    BY DEF LookupStaysInside
  <2>1. Inv /\ StackTo(scope, linear, here)
    BY <1>1, Current DEF InvBorn
  <2>2. Around = OutwardOf(scope)[here]
    BY DEF Around, Outward, OutwardOf
  <2>3. LookupSymbolUntilFunction(linear, sym) \in Around
    BY <2>1, <2>2, SearchInside
  <2>4. /\ fun[curfunc].parent # 0 => LookupInParentChain(sym) \in Around
        /\ fun[curfunc].parent = 0 =>
              LookupSymbolUntilFunction(fun[curfunc].closing, sym) \in Around
    BY <2>1, <2>2, ClosingInside
  <2>5. LookupCaptures(linear, sym) \in Around
    BY <1>1, <2>2, CapturesInside
  <2> QED BY <2>3, <2>4, <2>5 DEF LexicalLookup
<1> QED
  BY <1>1, CapturesStayInside, PTL
=============================================================================
