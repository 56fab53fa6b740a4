------------------------------- MODULE Scopes -------------------------------
(***************************************************************************)
(* Variables of zygo programs: the stack of scopes (linearstack), what a   *)
(* function captures when it is made (closing.go), and the search for a    *)
(* symbol through them (LexicalLookupSymbol in environment.go).            *)
(*                                                                         *)
(* No program is fixed: code may open and close scopes, define a symbol,   *)
(* make a function, call any function made so far from anywhere (they are  *)
(* values and travel), evaluate an argument, call a builtin, and builtins  *)
(* may evaluate code and force arguments that were passed unevaluated.     *)
(* Next to the code's state the model keeps where each scope and function  *)
(* stands in the source: that is what lookups are compared with.           *)
(***************************************************************************)
EXTENDS Integers, FiniteSets, SequencesExt

CONSTANTS
    Symbol,
    MaxScopes, MaxFunctions, MaxLazy,   \* bounds: objects ever allocated
    MaxCalls,                           \* bound: calls nested
    MaxBound                            \* bound: scopes that bind one symbol

ASSUME ScopeBoundsAssumption ==
    {MaxScopes, MaxFunctions, MaxLazy, MaxCalls, MaxBound} \subseteq Nat

VARIABLES
    scope,      \* scope[s]: the scopes made so far
    fun,        \* fun[f]: the function objects made so far
    lazy,       \* lazy[l]: the unevaluated arguments made so far
    linear,     \* linearstack, scopes by number
    curfunc,    \* the function that runs
    calls,      \* what each call in progress goes back to
    here        \* the scope that the running code stands in, by the source

vars == <<scope, fun, lazy, linear, curfunc, calls, here>>

Global == 1
Main == 1
Builtin == 2    \* any function written in Go: it captures nothing

\* captures belong to MyFunction, the object the compiler made; outer is the
\* scope around this one in the source, made as for functions.
NewScope(isFunction, captures, outer, made) ==
    [IsFunction |-> isFunction, captures |-> captures, bound |-> {},
     outer |-> outer, made |-> made]

\* born is what the compiler's own object captured when the code around the
\* function was compiled; home is where the function stands in the source.
\* made tells how the code came to be compiled: "detached" by a builtin that
\* was handed source, "forced" as an argument passed unevaluated.
Function(kind, closing, parent, born, home, made) ==
    [kind |-> kind, closing |-> closing, parent |-> parent, born |-> born,
     home |-> home, made |-> made]

-----------------------------------------------------------------------------
(* Capturing and looking up *)

\* From the nearest function's scope, or else the bottom, to the top.
FromFunction(stk) ==
    LET fs == {k \in DOMAIN stk : scope[stk[k]].IsFunction}
    IN  IF fs = {} THEN stk
        ELSE SubSeq(stk, CHOOSE k \in fs : \A j \in fs : j <= k, Len(stk))

\* Mutant of NewClosing: the scopes of callers are kept.
NewClosingWhole(stk) == stk

NewClosing(stk) == FromFunction(stk)

\* Stack.LookupSymbol: the topmost scope that binds sym, 0 when none does.
LookupSymbol(stk, sym) ==
    LET with == {k \in DOMAIN stk : sym \in scope[stk[k]].bound}
    IN  IF with = {} THEN 0 ELSE stk[CHOOSE k \in with : \A j \in with : j <= k]

LookupSymbolUntilFunction(stk, sym) == LookupSymbol(FromFunction(stk), sym)

\* The captures of the nearest function scope's MyFunction.
LookupCaptures(stk, sym) ==
    LET bottom == scope[Head(FromFunction(stk))]
    IN  IF bottom.IsFunction THEN LookupSymbol(bottom.captures, sym) ELSE 0

\* Mutant of LookupInParentChain: only the first closing is searched.
LookupInOwnClosing(sym) == LookupSymbolUntilFunction(fun[curfunc].closing, sym)

\* LookupSymbolInParentChainOfClosures, from each function: one without a
\* parent ends the chain, its own closing unread.
ParentChain(sym) ==
    LET chain[f \in 0..Len(fun)] ==
            IF f = 0 \/ fun[f].parent = 0 THEN 0
            ELSE LET found == LookupSymbolUntilFunction(fun[f].closing, sym)
                 IN  IF found # 0 THEN found ELSE chain[fun[f].parent]
    IN  chain

LookupInParentChain(sym) == ParentChain(sym)[curfunc]

\* LexicalLookupSymbol: the running function's scopes, what was captured by
\* it and its parents, and last the captures of the scope's MyFunction.
LexicalLookup(sym) ==
    LET own      == LookupSymbolUntilFunction(linear, sym)
        captured == IF fun[curfunc].parent # 0 THEN LookupInParentChain(sym)
                    ELSE LookupSymbolUntilFunction(fun[curfunc].closing, sym)
    IN  CASE own # 0      -> own
          [] own = 0 /\ captured # 0 -> captured
          [] OTHER        -> LookupCaptures(linear, sym)

-----------------------------------------------------------------------------
(* Calls in progress *)

\* base is how many scopes the new code finds on the stack: it may not close
\* those.  l is the argument being forced.
Entry(base, l) == [curfunc |-> curfunc, linear |-> linear, here |-> here,
                   base |-> base, lazy |-> l]

Base == IF calls = <<>> THEN 1 ELSE Last(calls).base

InCode == curfunc # Builtin

\* The running code is of this kind and has closed the scopes it opened.
Ends(kind) == calls # <<>> /\ fun[curfunc].kind = kind /\ Len(linear) = Base

CallEnds == calls' = Front(calls) /\ curfunc' = Last(calls).curfunc

\* AddScopeInstr, of let, for, newScope.
AddScope ==
    /\ InCode
    /\ Len(scope) < MaxScopes
    /\ scope' = Append(scope, NewScope(FALSE, <<>>, here, {}))
    /\ linear' = Append(linear, Len(scope'))
    /\ here' = Len(scope')
    /\ UNCHANGED <<fun, lazy, curfunc, calls>>

RemoveScope ==
    /\ InCode
    /\ Len(linear) > Base
    /\ linear' = Front(linear)
    /\ here' = scope[here].outer
    /\ UNCHANGED <<scope, fun, lazy, curfunc, calls>>

Bind(sym) ==
    /\ Cardinality({s \in DOMAIN scope : sym \in scope[s].bound}) < MaxBound
    /\ scope' = [scope EXCEPT ![Last(linear)].bound = @ \cup {sym}]

\* PopStackPutEnvInstr, and the builtins that assign.
BindSymbol(sym) ==
    /\ Bind(sym)
    /\ UNCHANGED <<fun, lazy, linear, curfunc, calls, here>>

\* UpdateInstr: a symbol that is found nowhere is bound here.
Update(sym) ==
    /\ InCode
    /\ LexicalLookup(sym) = 0
    /\ Bind(sym)
    /\ UNCHANGED <<fun, lazy, linear, curfunc, calls, here>>

\* The builtin rmsym.
RemoveSymbol(sym) ==
    /\ curfunc = Builtin
    /\ scope' = [scope EXCEPT ![Last(linear)].bound = @ \ {sym}]
    /\ UNCHANGED <<fun, lazy, linear, curfunc, calls, here>>

\* Functions do not change once they are made: equal ones are kept as one.
Made(function) == IF function \in ToSet(fun) THEN fun ELSE Append(fun, function)
At(function) == CHOOSE f \in DOMAIN Made(function) : Made(function)[f] = function

\* CreateClosureInstr; FuncBuilder compiles the function there and then.
CreateClosure ==
    /\ fun' = Made(Function("closure", NewClosing(linear), curfunc,
                  IF InCode THEN fun[curfunc].born ELSE NewClosing(linear),
                  here, fun[curfunc].made))
    /\ Len(fun') <= MaxFunctions
    /\ UNCHANGED <<scope, lazy, linear, curfunc, calls, here>>

\* NewSourceLazyArg: an argument for a parameter like #x.
SourceLazyArg == [Stack |-> linear, CurFunc |-> curfunc, home |-> here, Forced |-> FALSE]

\* CallFunction, and the AddFuncScopeInstr that functions start with; args are
\* the arguments that are passed unevaluated.
Call(f, args) ==
    /\ fun[f].kind = "closure"
    /\ Len(scope) < MaxScopes /\ Len(calls) < MaxCalls
    /\ calls' = Append(calls, Entry(Len(linear) + 1, 0))
    /\ scope' = Append(scope, NewScope(TRUE, fun[f].born, fun[f].home, fun[f].made))
    /\ linear' = Append(linear, Len(scope'))
    /\ curfunc' = f
    /\ here' = Len(scope')
    /\ lazy' = lazy \o args
    /\ Len(lazy') <= MaxLazy
    /\ UNCHANGED fun

\* RemoveScopeInstr and ReturnInstr, that functions end with.
Return ==
    /\ Ends("closure")
    /\ CallEnds
    /\ linear' = Front(linear)
    /\ here' = Last(calls).here
    /\ UNCHANGED <<scope, fun, lazy>>

\* A new function object without parameters or a scope of its own, entered.
Enter(function, stk, base, l) ==
    /\ Len(calls) < MaxCalls
    /\ calls' = Append(calls, Entry(base, l))
    /\ fun' = Made(function)
    /\ Len(fun') <= MaxFunctions
    /\ curfunc' = At(function)
    /\ linear' = stk
    /\ here' = function.home
    /\ UNCHANGED <<scope, lazy>>

\* EvalCallExpression of an argument of a call.
EvalArgument ==
    /\ InCode
    /\ Enter(Function("thunk", NewClosing(linear), curfunc, NewClosing(linear),
                      here, fun[curfunc].made), linear, Len(linear), 0)

ArgumentDone ==
    /\ Ends("thunk")
    /\ CallEnds
    /\ linear' = Last(calls).linear
    /\ here' = Last(calls).here
    /\ UNCHANGED <<scope, fun, lazy>>

\* CallUserFunction: no scope is made for a builtin.
CallBuiltin ==
    /\ InCode
    /\ Len(calls) < MaxCalls
    /\ calls' = Append(calls, Entry(Len(linear), 0))
    /\ curfunc' = Builtin
    /\ UNCHANGED <<scope, fun, lazy, linear, here>>

BuiltinReturns ==
    /\ curfunc = Builtin
    /\ CallEnds
    /\ here' = Last(calls).here
    /\ UNCHANGED <<scope, fun, lazy, linear>>

\* EvalFunction and SourceExpressions: the new function has no parent.
Eval ==
    /\ curfunc = Builtin
    /\ Enter(Function("eval", NewClosing(linear), 0, NewClosing(linear),
                      here, {"detached"}), linear, Len(linear), 0)

EvalDone ==
    /\ Ends("eval")
    /\ CallEnds
    /\ here' = Last(calls).here
    /\ UNCHANGED <<scope, fun, lazy, linear>>

-----------------------------------------------------------------------------
(* Arguments passed unevaluated *)

ForcedFunction(l) ==
    Function("forced", lazy[l].Stack, lazy[l].CurFunc, NewClosing(linear),
             lazy[l].home, fun[lazy[l].CurFunc].made \cup {"forced"})

\* Mutant of ForceArg: the code runs on the scopes of whoever forces it.
ForceInPlace(l) ==
    /\ curfunc = Builtin
    /\ ~lazy[l].Forced
    /\ Enter(ForcedFunction(l), linear, Len(linear), l)

\* SexpLazyArg.Force: the code runs on a copy of the stack of its caller.
ForceArg(l) ==
    /\ curfunc = Builtin
    /\ ~lazy[l].Forced
    /\ Enter(ForcedFunction(l), lazy[l].Stack, Len(lazy[l].Stack), l)

ForceDone ==
    /\ Ends("forced")
    /\ CallEnds
    /\ linear' = Last(calls).linear
    /\ here' = Last(calls).here
    /\ lazy' = [lazy EXCEPT ![Last(calls).lazy].Forced = TRUE]
    /\ UNCHANGED <<scope, fun>>

\* An error ends every call in progress: each goes back to what it captured.
Fail ==
    /\ linear' = <<Global>>
    /\ curfunc' = Main
    /\ calls' = <<>>
    /\ here' = Global
    /\ UNCHANGED <<scope, fun, lazy>>

-----------------------------------------------------------------------------
Init ==
    /\ scope = <<NewScope(FALSE, <<>>, 0, {})>>
    /\ fun = <<Function("main", <<Global>>, 0, <<Global>>, Global, {}),
               Function("builtin", <<>>, 0, <<>>, 0, {"detached"})>>
    /\ lazy = <<>>
    /\ linear = <<Global>>
    /\ curfunc = Main
    /\ calls = <<>>
    /\ here = Global

Next ==
    \/ AddScope \/ RemoveScope
    \/ \E sym \in Symbol : BindSymbol(sym) \/ Update(sym) \/ RemoveSymbol(sym)
    \/ CreateClosure \/ Return
    \/ \E f \in DOMAIN fun : Call(f, <<>>)
    \/ \E f \in DOMAIN fun : InCode /\ Call(f, <<SourceLazyArg>>)
    \/ EvalArgument \/ ArgumentDone
    \/ CallBuiltin \/ BuiltinReturns \/ Eval \/ EvalDone
    \/ ForceDone
    \/ \E l \in DOMAIN lazy : ForceArg(l)
    \/ Fail

Spec == Init /\ [][Next]_vars

-----------------------------------------------------------------------------
(* Properties *)

\* From each scope outward by the source, itself included: the first that
\* binds sym, 0 when it is free; and all of them.
Binder(sym) ==
    LET outward[s \in 0..Len(scope)] ==
            IF s = 0 \/ sym \in scope[s].bound THEN s ELSE outward[scope[s].outer]
    IN  outward

Outward ==
    LET outward[s \in 0..Len(scope)] ==
            IF s = 0 THEN {0} ELSE {s} \cup outward[scope[s].outer]
    IN  outward

Lexical(sym) == Binder(sym)[here]
Around == Outward[here]

\* Definitions land in the scope that the code stands in, whatever calls,
\* builtins, forced arguments and errors came before.
BindsHere == Last(linear) = here

\* A variable that the source binds is the one that the search of
\* LexicalLookupSymbol finds, in all code compiled with the code around it
\* and in arguments forced late, however deeply functions nest and travel.
LookupIsLexical ==
    "detached" \notin fun[curfunc].made =>
        \A sym \in Symbol : Lexical(sym) # 0 => LexicalLookup(sym) = Lexical(sym)

\* Scoping is never dynamic: whatever is found is a variable of the code
\* around, never one of a caller.  This holds for code given to eval and to
\* source and inside builtins too, but not inside the functions that forced
\* arguments make: their MyFunction captured the scopes of whoever forced.
LookupStaysInside ==
    "forced" \notin scope[Head(FromFunction(linear))].made =>
        \A sym \in Symbol : LexicalLookup(sym) \in Around
=============================================================================
