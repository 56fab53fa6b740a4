-------------------------------- MODULE MCVm --------------------------------
(***************************************************************************)
(* Programs compiled by Generator and run by Vm.  The symbols of a program *)
(* may turn out unbound, its conditions true or false, its builtins fail   *)
(* or panic; the comments give the source in Lisp.                         *)
(***************************************************************************)
EXTENDS VmCode

Literal == [t |-> "literal"]
Symbol  == [t |-> "symbol"]
Call(f, args) == [t |-> "call", f |-> f, args |-> args]
Cond(p, a, b) == [t |-> "cond", clauses |-> <<<<p, a>>>>, default |-> b]
AndOr(body) == [t |-> "andor", body |-> body]
Let(values, body) == [t |-> "let", values |-> values, body |-> body]
LetSeq(values, body) == [t |-> "letseq", values |-> values, body |-> body]
Array(body) == [t |-> "array", body |-> body]
Def(value) == [t |-> "def", value |-> value]
Begin(body) == [t |-> "begin", body |-> body]
NewScope(body) == [t |-> "newScope", body |-> body]
For(id, body) == [t |-> "for", id |-> id, label |-> id, init |-> Def(Literal),
                  test |-> Symbol, incr |-> Def(Symbol), body |-> body]
Break(label) == [t |-> "break", label |-> label]
Continue(label) == [t |-> "continue", label |-> label]
Returned(body) == [t |-> "return", body |-> body]
Asserted(body) == [t |-> "assert", body |-> body]
Comment == [t |-> "comment"]

MCSrc == [
    callee |-> Symbol,
    one    |-> Literal,
    x      |-> Symbol,
    \* (f x)   (+ 1 (f x))   (g 1 x)
    callf  |-> Call("f", <<"x">>),
    plus   |-> Call("+", <<"one", "callf">>),
    callg  |-> Call("g", <<"one", "x">>),
    \* [x (f x)]
    pair   |-> Array(<<Symbol, Call("f", <<"x">>)>>),
    \* code for eval and source: (def y (+ 1 (f x))) 1
    forms  |-> Begin(<<Def(Call("+", <<"one", "callf">>)), Comment, Literal>>),
    \* (break), which no loop of its own compilation encloses
    stray  |-> Break("no label"),
    note   |-> Comment,
    \* what the programs call
    meta   |-> Call("eval", <<"one">>),
    metav  |-> Call("evalvoid", <<"one">>),
    loop   |-> Call("h", <<>>),
    tail   |-> Call("t", <<"one", "x">>),
    mapped |-> Call("map", <<"one">>),
    void   |-> Call("v", <<>>),
    value  |-> Call("x", <<>>),
    \* the programs: (+ 1 (map f 1)), (+ (g 1 x) (+ 1 (f x)) //note), and so on
    apply  |-> Call("+", <<"one", "mapped">>),
    nested |-> Call("+", <<"callg", "plus", "note">>),
    evals  |-> Begin(<<Call("+", <<"one", "meta">>), Asserted(Symbol)>>),
    source |-> Call("source", <<"one">>),
    wrong  |-> Begin(<<Call("f", <<"pair", "value">>), Call("x", <<"one", "stray">>)>>),
    build  |-> Begin(<<[t |-> "builder", f |-> "struct", args |-> <<"x">>],
                       AndOr(<<Break("no label"), Symbol>>), [t |-> "debug"]>>),
    loops  |-> Begin(<<
        For("top", <<Let(<<Literal, Symbol>>,
            <<Cond(Symbol, Break("no label"), Array(<<Literal, Continue("top")>>))>>)>>),
        Call("+", <<"one", "loop">>),
        Call("+", <<"one", "tail">>)>>),
    recover |-> Begin(<<Call("+", <<"one", "metav">>)>>) ]

G == INSTANCE Generator WITH Src <- MCSrc

\* The functions, with the number of their parameters and their bodies.
MCDefn == [
    \* (defn f [a] (cond a (begin (def b a) b) (letseq [c a d [c]] (and c d))))
    f |-> [params |-> 1, body |-> <<Cond(Symbol, Begin(<<Def(Symbol), Symbol>>),
            LetSeq(<<Symbol, Array(<<Symbol>>)>>, <<AndOr(<<Symbol, Symbol>>)>>))>>],
    \* (defn g [a & rest] (return a rest))
    g |-> [params |-> 2, body |-> <<Returned(<<Symbol, Symbol>>)>>],
    \* (defn h [] (for outer: [...] (for inner: [...] (let [a 1 b c]
    \*   (newScope (cond d (break outer:) e [1 (continue outer:)] (break))))) 1) 2)
    h |-> [params |-> 0, body |-> <<
            For("outer", <<
              For("inner", <<Let(<<Literal, Symbol>>, <<NewScope(<<
                [t |-> "cond",
                 clauses |-> <<<<Symbol, Break("outer")>>,
                               <<Symbol, Array(<<Literal, Continue("outer")>>)>>>>,
                 default |-> Break("no label")]>>)>>)>>), Literal>>),
            Literal>>],
    \* (defn t [a & rest] (newScope (let [b a] (cond b 1 (t a rest a)))))
    t |-> [params |-> 2, body |-> <<NewScope(<<Let(<<Symbol>>,
            <<Cond(Symbol, Literal, Call("t", <<"x", "x", "one">>))>>)>>)>>],
    \* (defn v [] (return))
    v |-> [params |-> 0, body |-> <<Returned(<<>>)>>]
    ]

MCFunction == DOMAIN MCDefn
MCName == DOMAIN MCSrc \cup MCFunction
Compiled == [n \in MCName |->
    IF n \in MCFunction THEN G!FunctionCode(n, MCDefn[n].params, MCDefn[n].body)
    ELSE G!Standalone(MCSrc[n])]

MCCode == LET results == Compiled IN [n \in MCName |-> results[n].code]
MCFails == LET results == Compiled IN {n \in MCName : ~results[n].ok}
MCVarargs == {"g", "t"}
MCArity == [f \in MCFunction |-> MCDefn[f].params - (IF f \in MCVarargs THEN 1 ELSE 0)]
MCBuiltin == {"+", "array", "map", "eval", "source", "evalvoid", "struct"}
MCCallback == [b \in MCBuiltin |->
    CASE b = "map"      -> {<<"apply", "f", 1>>, <<"apply", "g", 1>>, <<"apply", "f", 0>>}
      [] b = "eval"     -> {<<"eval", "forms", 0>>, <<"eval", "stray", 0>>}
      [] b = "source"   -> {<<"source", "forms", 1>>, <<"source", "stray", 1>>}
      [] b = "evalvoid" -> {<<"eval", "void", 0>>}
      [] OTHER          -> {}]
MCLoopId == {"outer", "inner", "top"}

MCVoid == {"v", "void"}

\* All places reached from these, nothing when one of them is not fine.
RECURSIVE Closure(_, _, _)
Closure(n, seen, new) ==
    CASE new = {} -> seen
      [] \E x \in new : ~Fine(n, x) -> {}
      [] OTHER -> LET next == UNION {Successors(n, x) : x \in new} \ seen
                  IN  Closure(n, seen \cup next, next)

MCReached == [n \in MCName |->
    IF n \in MCFails THEN {} ELSE Closure(n, {Entry(n)}, {Entry(n)})]

\* All of the programs run what the machine can rely on, but for the one
\* whose (and (break) x) is outside a loop: the error is dropped.
ASSUME ProgramsProper == Program \ {"build"} \subseteq Proper
=============================================================================
