----------------------------- MODULE Generator ------------------------------
(***************************************************************************)
(* The compiler of zygo/generator.go, from parsed forms to the             *)
(* instructions of module Vm.  A form is a record: t names its kind, and   *)
(* parts hold the forms in it.  Arguments of calls are names in Src, for   *)
(* they are compiled only when the call is made.                           *)
(***************************************************************************)
EXTENDS Integers, SequencesExt

CONSTANT Src    \* Src[n]: the form that n names

NoLabel == "no label"

(***************************************************************************)
(* The state of a generator: Tail, scopes and funcname, and the loopstack  *)
(* of its environment.  A result holds the instructions emitted, up to an  *)
(* error if there is one, and what Tail has become.                        *)
(***************************************************************************)
NewGenerator(fn, loops) == [tail |-> FALSE, scopes |-> 0, fn |-> fn, loops |-> loops]

Emit(code, g) == [ok |-> TRUE, code |-> code, tail |-> g.tail]
Error(code, g) == [ok |-> FALSE, code |-> code, tail |-> g.tail]

Before(code, r) == [r EXCEPT !.code = code \o @]
Then(r, code) == IF r.ok THEN [r EXCEPT !.code = @ \o code] ELSE r

PushValue == [op |-> "push", what |-> "value"]
Mark(m)   == [op |-> "push", what |-> m]
PopOne    == [op |-> "pop"]
SkipOne   == [op |-> "skip"]
BindOne   == [op |-> "bind"]
Enter     == [op |-> "addscope"]
Leave     == [op |-> "remscope"]
BranchBy(n) == [op |-> "branch", by |-> n]
JumpBy(n)   == [op |-> "jump", by |-> n]
PopUntil(m) == [op |-> "popuntil", mark |-> m]

Times(n, instr) == [i \in 1..n |-> instr]

\* The forms of a body, as one form: what GenerateBegin compiles.
Begin(body) == [t |-> "begin", body |-> body]

RECURSIVE Generate(_, _)

\* What is put after each of several forms compiled one after another, given
\* the code of the form.  GenerateBegin pops unless there is no code,
\* newScope pops whatever there is.
After(what, code) ==
    CASE what = "all"      -> <<>>
      [] what = "begin"    -> IF code = <<>> THEN <<>> ELSE <<PopOne>>
      [] what = "newScope" -> <<PopOne>>
      [] what = "letseq"   -> <<BindOne>>

Sequence(what, forms, g) ==
    LET Step(before, form) ==
          LET r == Generate(form, [g EXCEPT !.tail = before.tail])
          IN  IF before.ok THEN Before(before.code, Then(r, After(what, r.code))) ELSE before
    IN  FoldLeft(Step, Emit(<<>>, g), forms)

GenerateAll(forms, g) == Sequence("all", forms, g)

\* All but the last form are compiled out of tail position.
Several(what, forms, g) ==
    LET r == Sequence(what, Front(forms), [g EXCEPT !.tail = FALSE])
    IN  IF ~r.ok THEN r ELSE Before(r.code, Generate(Last(forms), g))

GenerateBegin(forms, g) ==
    IF forms = <<>> THEN Emit(<<>>, [g EXCEPT !.tail = FALSE])
    ELSE Several("begin", forms, g)

GenerateNewScope(forms, g) ==
    IF forms = <<>> THEN Emit(<<>>, [g EXCEPT !.tail = FALSE])
    ELSE Then(Before(<<Enter>>, Several("newScope", forms, [g EXCEPT !.scopes = @ + 1])), <<Leave>>)

\* let evaluates every value and then binds, letseq binds each in turn; the
\* values are compiled with the Tail of the whole form.
GenerateLet(sequential, values, body, g) ==
    LET in == [g EXCEPT !.scopes = @ + 1]
        bound == IF sequential
                 THEN Sequence("letseq", values, in)
                 ELSE Then(GenerateAll(values, in), Times(Len(values), BindOne))
    IN  IF ~bound.ok THEN Before(<<Enter>>, bound)
        ELSE Before(<<Enter>> \o bound.code,
                    Then(Generate(Begin(body), [in EXCEPT !.tail = bound.tail]), <<Leave>>))

\* The predicate's generator is Reset: no tail, and no scopes.
GenerateCond(clauses, default, g) ==
    LET Clause(clause, rest) ==
          LET pred == Generate(clause[1], [g EXCEPT !.tail = FALSE, !.scopes = 0])
              body == Generate(clause[2], g)
          IN  IF ~(rest.ok /\ pred.ok /\ body.ok) THEN Error(<<>>, g)
              ELSE Emit(pred.code \o <<BranchBy(Len(body.code) + 2)>> \o body.code
                          \o <<JumpBy(Len(rest.code) + 1)>> \o rest.code, g)
        r == FoldRight(Clause, clauses, Generate(default, g))
    IN  IF r.ok THEN Emit(r.code, g) ELSE Error(<<>>, g)

\* Only the last operand's generator knows scopes, Tail and funcname, and
\* errors in any operand are dropped with the rest of its code.
GenerateShortCircuit(forms, g) ==
    LET Operand(form, rest) ==
          Generate(form, NewGenerator("", g.loops)).code
            \o <<[op |-> "dup"], BranchBy(Len(rest) + 2), PopOne>> \o rest
    IN  Emit(FoldRight(Operand, Front(forms), Generate(Last(forms), g).code), g)

\* A def or set leaves its value; Tail is not put back.
GenerateDef(value, g) ==
    Then(Generate(value, [g EXCEPT !.tail = FALSE]), <<[op |-> "dup"], BindOne>>)

\* Assigning to an element leaves nothing.
GenerateDefElement(target, value, g) ==
    LET lhs == Generate(target, g)
    IN  IF ~lhs.ok THEN lhs
        ELSE Before(lhs.code, Then(Generate(value, [g EXCEPT !.tail = FALSE]),
                                   <<[op |-> "assign"]>>))

GenerateReturn(forms, g) ==
    CASE Len(forms) = 0 -> Emit(<<>>, g)
      [] Len(forms) = 1 -> Generate(forms[1], g)
      [] OTHER -> Before(<<Mark("marker")>>,
                    Then(GenerateAll(forms, g), <<[op |-> "vectorize", mark |-> "marker"]>>))

GenerateAssert(form, g) ==
    Then(Generate(form, g), <<BranchBy(2), [op |-> "reterr"], PushValue>>)

\* The loop meant by a label, the innermost one without a label.
Meant(label, g) ==
    {k \in DOMAIN g.loops :
        /\ label = NoLabel => k = Len(g.loops)
        /\ label # NoLabel => /\ g.loops[k].label = label
                              /\ \A j \in DOMAIN g.loops : g.loops[j].label = label => j <= k}

\* GenerateBreak and GenerateContinue.
GenerateLeave(op, label, g) ==
    IF Meant(label, g) = {} THEN Error(<<>>, g)
    ELSE LET loop == g.loops[CHOOSE k \in Meant(label, g) : TRUE]
             more == g.scopes - (loop.depth + 1)
         IN  Emit(<<[op |-> op, loop |-> loop.id,
                     scopes |-> IF more < 0 THEN 0 ELSE more]>>, g)

GenerateForLoop(f, g) ==
    LET in   == [g EXCEPT !.tail = FALSE, !.scopes = @ + 1,
                   !.loops = Append(@, [id |-> f.id, label |-> f.label, depth |-> g.scopes])]
        clean(r) == Then(r, <<PopUntil(f.id)>>)
        body == clean(Generate(Begin(f.body), in))
        init == clean(Generate(f.init, in))
        test == Generate(f.test, in)
        incr == clean(Generate(f.incr, in))
        again  == 5 + Len(init.code)
        jump   == again + 4 + Len(incr.code) + Len(test.code) + Len(body.code)
        head   == <<[op |-> "loopstart", loop |-> f.id, bottom |-> jump + 2, again |-> again],
                    Enter, Mark(f.id)>>
    IN  IF ~(body.ok /\ init.ok /\ test.ok /\ incr.ok) THEN Error(head, g)
        ELSE Emit(head \o <<SkipOne>> \o init.code
                    \o <<JumpBy(Len(incr.code) + 2), SkipOne>> \o incr.code
                    \o <<SkipOne>> \o test.code \o <<BranchBy(Len(body.code) + 3), SkipOne>>
                    \o body.code \o <<JumpBy(again - jump), SkipOne>>
                    \o <<[op |-> "clearmark", mark |-> f.id], Leave, PushValue>>, g)

\* A function's call of itself in tail position leaves the scopes and goes
\* to the function's second instruction; every other call is made by
\* CallExprInstr, which has the arguments uncompiled.
GenerateCallBySymbol(f, args, g) ==
    IF g.tail /\ f = g.fn
    THEN LET r == GenerateAll([i \in DOMAIN args |-> Src[args[i]]], [g EXCEPT !.tail = FALSE])
         IN  [Then(r, Times(g.scopes, Leave)
                        \o <<[op |-> "precall", f |-> f, nargs |-> Len(args)],
                             [op |-> "goto", to |-> 1]>>) EXCEPT !.tail = g.tail]
    ELSE Emit(<<[op |-> "callexpr", f |-> f, items |-> <<"callee">> \o args]>>, g)

GenerateBuilder(f, args, g) ==
    Emit(Times(Len(args) + 1, PushValue)
           \o <<[op |-> "dispatch", f |-> f, nargs |-> Len(args)]>>, g)

Generate(f, g) ==
    CASE f.t = "literal"  -> Emit(<<PushValue>>, g)
      [] f.t = "symbol"   -> Emit(<<[op |-> "env"]>>, g)
      [] f.t = "comment"  -> Emit(<<>>, g)
      [] f.t = "begin"    -> GenerateBegin(f.body, g)
      [] f.t = "newScope" -> GenerateNewScope(f.body, g)
      [] f.t \in {"let", "letseq"} -> GenerateLet(f.t = "letseq", f.values, f.body, g)
      [] f.t = "cond"     -> GenerateCond(f.clauses, f.default, g)
      [] f.t = "andor"    -> GenerateShortCircuit(f.body, g)
      [] f.t = "def"      -> GenerateDef(f.value, g)
      [] f.t = "element"  -> GenerateDefElement(f.target, f.value, g)
      [] f.t = "defn"     -> Emit(<<PushValue, BindOne, PushValue>>, g)
      [] f.t = "fn"       -> Emit(<<PushValue>>, g)
      [] f.t = "return"   -> GenerateReturn(f.body, g)
      [] f.t = "assert"   -> GenerateAssert(f.body, g)
      [] f.t = "for"      -> GenerateForLoop(f, g)
      [] f.t \in {"break", "continue"} -> GenerateLeave(f.t, f.label, g)
      [] f.t = "array"    -> Then(GenerateAll(f.body, g),
                                <<[op |-> "call", f |-> "array", nargs |-> Len(f.body)]>>)
      [] f.t = "call"     -> GenerateCallBySymbol(f.f, f.args, g)
      [] f.t = "builder"  -> GenerateBuilder(f.f, f.args, g)
      [] f.t = "debug"    -> Emit(<<SkipOne, PushValue>>, g)

\* buildSexpFun: the code of a function of n parameters.
FunctionCode(name, n, body) ==
    LET r == Generate(Begin(body), [NewGenerator(name, <<>>) EXCEPT !.tail = TRUE])
    IN  [r EXCEPT !.code = <<[op |-> "addfunc"]>> \o Times(n, BindOne) \o r.code
                             \o <<Leave, [op |-> "ret"]>>]

\* A program, an argument of a call, or the forms given to eval.
Standalone(form) == Generate(form, NewGenerator("", <<>>))
=============================================================================
