-------------------------------- MODULE Vm ----------------------------------
(***************************************************************************)
(* The stack machine of zygo/environment.go and zygo/vm.go.  A Zlisp holds *)
(* four stacks' worth of control: the current function and pc, the address *)
(* stack, the stack of scopes and the stack of operands.  Compiled code is *)
(* run by Run, but Run is re-entered from inside an instruction: the       *)
(* arguments of a call are each run by a Run of their own, and Go builtins *)
(* call back through Apply, EvalFunction and SourceExpressions.  The Go    *)
(* activations in progress, and the control state each has saved in a      *)
(* local variable, are the frames of "go".                                 *)
(*                                                                         *)
(* Values are not told apart.  What a stack slot can hold is a value, the  *)
(* marker, the mark of a loop, or nothing at all: TruncateToSize fills the *)
(* slots it adds with nil, and reading one is a Go panic.                  *)
(***************************************************************************)
EXTENDS Integers, FiniteSets, SequencesExt

CONSTANTS
    Name,       \* pieces of source that are compiled: programs, arguments, functions
    Code,       \* Code[n]: the instructions generated for n
    Fails,      \* the names whose generation fails
    Function,   \* the names that are functions
    Arity,      \* Arity[f]: the parameters of f, not counting the optional list
    Varargs,    \* the functions that take an optional list
    Void,       \* the names that end in a (return) without a value
    Builtin,    \* the functions written in Go
    Callback,   \* Callback[b]: what b may call back, as <<how, name, nargs>>
    Program,    \* the names the host evaluates
    LoopId,     \* the loops of the programs
    MaxGo,      \* bound: Go activations nested
    MaxAddr,    \* bound: compiled calls nested
    MaxMain     \* bound: longest main function more code is loaded into

VARIABLES
    main,       \* the instructions of mainfunc; LoadExpressions appends to it
    curfunc, pc,
    addr,       \* addrstack
    linear,     \* linearstack
    data,       \* datastack
    go,         \* Go activations in progress, the running one last
    ret         \* how the activation that just ended did: "none", "ok", "err", "panic"

env  == <<curfunc, pc, addr, linear, data>>
vars == <<main, env, go, ret>>

Hole == "hole"
Value == "value"
Marker == "marker"
Slot == {Hole, Value, Marker} \cup LoopId

\* What curfunc can point at: a function and where its code comes from.
MainFunc == <<"main", "main">>
Func(f)    == <<"func", f>>       \* made by buildSexpFun
Thunk(n)   == <<"thunk", n>>      \* callExprEval, evalGeneratedFunction
Sourced(n) == <<"source", n>>     \* __source
Go(b)      == <<"go", b>>         \* user function: no code

\* A nil slot of the address stack.
NilAddress == [fn |-> Go("nil"), pc |-> 0, operands |-> 0, scopes |-> 0]

RetInstr == [op |-> "ret"]

Body(f) == CASE f[1] = "main"   -> main
             [] f[1] = "thunk"  -> Append(Code[f[2]], RetInstr)
             [] f[1] = "go"     -> <<>>
             [] OTHER           -> Code[f[2]]

ReachedEnd == pc >= Len(Body(curfunc))

-----------------------------------------------------------------------------
(* Saved control state *)

\* vmControlState, and what else the Go function keeps in local variables.
\* sizes is captured when the frame is made; base is the operand size that
\* CallResolved or EvalFunction goes back to; i counts arguments or files.
Frame(kind, f, items, base) ==
    [kind |-> kind, f |-> f, items |-> items, i |-> 0, base |-> base,
     curfunc |-> curfunc, pc |-> pc,
     addr |-> Len(addr), linear |-> Len(linear), data |-> Len(data)]

\* captureControlState into a frame made earlier.
Captured(frame) == [frame EXCEPT !.curfunc = curfunc, !.pc = pc,
    !.addr = Len(addr), !.linear = Len(linear), !.data = Len(data)]

\* Stack.TruncateToSize, which also grows.
TruncateToSize(s, n, nil) ==
    [k \in 1..n |-> IF k <= Len(s) THEN s[k] ELSE nil]

Cut(n) == TruncateToSize(data, n, Hole)

\* restoreControlState, the operand stack excepted.
RestoreControl(frame) ==
    /\ addr' = TruncateToSize(addr, frame.addr, NilAddress)
    /\ linear' = TruncateToSize(linear, frame.linear, Hole)
    /\ curfunc' = frame.curfunc
    /\ pc' = frame.pc

Top == Last(go)
Below == Front(go)

\* The activation that runs is of this kind, and what it called last has
\* ended in this way, "none" when it has called nothing yet.
At(kind, how) == go # <<>> /\ Top.kind = kind /\ ret = how

-----------------------------------------------------------------------------
(* Calls *)

\* What an address stack entry records; operands and scopes are history, the
\* sizes the two stacks had when the call was made, arguments not counted.
Address(f, at, nargs) ==
    [fn |-> f, pc |-> at, operands |-> Len(data) - nargs, scopes |-> Len(linear)]

\* Mutant of Fits: the number of arguments is not checked.
FitsAny(f, nargs) == f \in Function

Fits(f, nargs) == IF f \in Varargs THEN nargs >= Arity[f] ELSE nargs = Arity[f]

\* Mutant of Wrangled: no list is made when there are no further arguments.
WrangledUnlessNone(f, nargs, s) ==
    IF f \in Varargs /\ nargs > Arity[f]
    THEN Append(SubSeq(s, 1, Len(s) - (nargs - Arity[f])), Value)
    ELSE s

\* wrangleOptargs: the arguments beyond the parameters become one list.
Wrangled(f, nargs, s) ==
    IF f \in Varargs
    THEN Append(SubSeq(s, 1, Len(s) - (nargs - Arity[f])), Value)
    ELSE s

\* The n topmost operands can be read: GetExpressions finds enough, none nil.
Enough(n) == Len(data) >= n
Solid(n) == \A k \in (Len(data) - n + 1)..Len(data) : data[k] # Hole
Drop(n) == SubSeq(data, 1, Len(data) - n)

\* CallUserFunction up to the call of the Go function: PopExpressions takes
\* the arguments, outside what recovers from panics.  rest is what is left of
\* the activations, extra what was popped before the arguments.
EnterBuiltin(b, nargs, rest, base, extra) ==
    LET n == nargs + extra
    IN  IF Enough(n) /\ Solid(n)
        THEN /\ Len(go) < MaxGo
             /\ data' = Drop(n)
             /\ go' = Append(rest, [Frame("user", b, <<>>, base) EXCEPT !.data = Len(data) - n])
             /\ addr' = Append(addr, Address(curfunc, pc + 1, n))
             /\ curfunc' = Go(b)
             /\ pc' = -1
             /\ ret' = "none"
             /\ UNCHANGED linear
        ELSE /\ go' = rest
             /\ ret' = IF Enough(n) THEN "panic" ELSE "err"
             /\ UNCHANGED env

-----------------------------------------------------------------------------
(* Run *)

Running == At("run", "none") /\ pc # -1 /\ ~ReachedEnd
Instr == Body(curfunc)[pc + 1]
Is(op) == Running /\ Instr.op = op

\* Jumps within the function: OutOfBounds otherwise.
InBounds(to) == to \in 0..Len(Body(curfunc))

Operands(s, next) ==
    /\ data' = s
    /\ pc' = next
    /\ UNCHANGED <<curfunc, addr, linear, go, ret>>

Fault(how) == ret' = how /\ UNCHANGED <<env, go>>

\* The operands an instruction pops one by one.  PopInstr forgives an empty
\* stack, DupInstr only reads.
Popped == CASE Instr.op \in {"branch", "bind", "update", "dispatch", "dup"} -> 1
            [] Instr.op = "assign" -> 2
            [] Instr.op = "pop" -> IF data = <<>> THEN 0 ELSE 1
            [] OTHER -> 0

Ready == Enough(Popped) /\ Solid(Popped)

OperandFault ==
    /\ Running
    /\ ~Ready
    /\ Fault(IF Enough(Popped) \/ ~Solid(Len(data)) THEN "panic" ELSE "err")

Push == Is("push") /\ Operands(Append(data, Instr.what), pc + 1)

\* A label, a loop start, a debug instruction.
Skip == Is("skip") /\ Operands(data, pc + 1)

LoopStart == Is("loopstart") /\ Operands(data, pc + 1)

Pop == Is("pop") /\ Ready /\ Operands(Drop(Popped), pc + 1)

Dup == Is("dup") /\ Ready /\ Operands(Append(data, Last(data)), pc + 1)

\* EnvToStackInstr: the symbol may not be bound.
EnvToStack ==
    /\ Is("env")
    /\ \/ Operands(Append(data, Value), pc + 1)
       \/ Fault("err")

\* PopStackPutEnvInstr, UpdateInstr, AssignInstr: the binding may be refused.
Bind ==
    /\ Is("bind") \/ Is("update") \/ Is("assign")
    /\ Ready
    /\ \/ Operands(Drop(Popped), pc + 1)
       \/ Fault("err")

\* The branch is taken or not with the truth of a value not modelled.
Branch ==
    /\ Is("branch") /\ Ready
    /\ \E to \in {pc + 1, pc + Instr.by} :
         IF InBounds(to) THEN Operands(Drop(1), to) ELSE Fault("err")

Jump ==
    /\ Is("jump") \/ Is("goto")
    /\ LET to == IF Instr.op = "jump" THEN pc + Instr.by ELSE Instr.to
       IN  IF InBounds(to) THEN Operands(data, to) ELSE Fault("err")

AddScope ==
    /\ Is("addscope") \/ Is("addfunc")
    /\ linear' = Append(linear, Instr.op)
    /\ pc' = pc + 1
    /\ UNCHANGED <<curfunc, addr, data, go, ret>>

\* Mutant of RemoveScope: the scope stays.
RemoveScopeStays ==
    /\ Is("remscope")
    /\ pc' = pc + 1
    /\ UNCHANGED <<curfunc, addr, linear, data, go, ret>>

RemoveScope ==
    /\ Is("remscope")
    /\ IF linear = <<>> THEN Fault("err")
       ELSE /\ linear' = Front(linear)
            /\ pc' = pc + 1
            /\ UNCHANGED <<curfunc, addr, data, go, ret>>

\* The places of a mark nothing but values lies above: popping down to it
\* meets it before the bottom of the stack or a nil slot.
MarkAt(m) == {k \in DOMAIN data :
    data[k] = m /\ \A j \in (k + 1)..Len(data) : data[j] \notin {m, Hole}}

\* PopUntilStackmarkInstr leaves the mark, ClearStackmarkInstr removes it,
\* VectorizeInstr makes one value of what is above the marker.
Unmark ==
    /\ Is("popuntil") \/ Is("clearmark") \/ Is("vectorize")
    /\ IF MarkAt(Instr.mark) = {}
       THEN Fault(IF Solid(Len(data)) THEN "err" ELSE "panic")
       ELSE \E k \in MarkAt(Instr.mark) :
              Operands(CASE Instr.op = "popuntil"  -> SubSeq(data, 1, k)
                         [] Instr.op = "clearmark" -> SubSeq(data, 1, k - 1)
                         [] OTHER -> Append(SubSeq(data, 1, k - 1), Value),
                       pc + 1)

\* FindLoop.  Every compilation makes Loop objects of its own: when a piece
\* of code was loaded twice, the loop meant is the nearest one above.
LoopStarts(l) == {k \in 0..pc : LET at == Body(curfunc)[k + 1]
                                IN  at.op = "loopstart" /\ at.loop = l}
FindLoop(l) == CHOOSE k \in LoopStarts(l) : \A j \in LoopStarts(l) : j <= k

\* BreakInstr, ContinueInstr.
LeaveLoop ==
    /\ Is("break") \/ Is("continue")
    /\ IF LoopStarts(Instr.loop) = {} \/ Len(linear) < Instr.scopes THEN Fault("err")
       ELSE LET start == FindLoop(Instr.loop)
                loop  == Body(curfunc)[start + 1]
            IN  /\ linear' = SubSeq(linear, 1, Len(linear) - Instr.scopes)
                /\ pc' = start + (IF Instr.op = "break" THEN loop.bottom ELSE loop.again)
                /\ UNCHANGED <<curfunc, addr, data, go, ret>>

\* PrepareCallInstr before the goto of a tail call: arity is not checked.
PrepareCall ==
    /\ Is("precall")
    /\ LET f == Instr.f
       IN  CASE f \notin Varargs -> Operands(data, pc + 1)
             [] f \in Varargs /\ Instr.nargs < Arity[f] -> Fault("err")
             [] OTHER -> IF Solid(Instr.nargs)
                         THEN Operands(Wrangled(f, Instr.nargs, data), pc + 1)
                         ELSE Fault("panic")

\* CallInstr, which the generator emits for array literals, and DispatchInstr
\* on a builder, which lies on top of its arguments.
CallGo ==
    \/ Is("call") /\ EnterBuiltin(Instr.f, Instr.nargs, go, -1, 0)
    \/ Is("dispatch") /\ Ready /\ EnterBuiltin(Instr.f, Instr.nargs, go, -1, 1)

\* CallExprInstr starts: its callee and arguments are evaluated in turn.
CallExpr ==
    /\ Is("callexpr")
    /\ Len(go) < MaxGo
    /\ go' = Append(go, Frame("call", Instr.f, Instr.items, Len(data)))
    /\ UNCHANGED <<env, ret>>

\* ReturnInstr, with or without the error of a failed assertion.
Return ==
    \/ /\ Is("ret")
       /\ CASE addr = <<>> -> Fault("err")
            [] addr # <<>> /\ Last(addr) = NilAddress -> Fault("panic")
            [] OTHER -> /\ curfunc' = Last(addr).fn
                        /\ pc' = Last(addr).pc
                        /\ addr' = Front(addr)
                        /\ UNCHANGED <<linear, data, go, ret>>
    \/ Is("reterr") /\ Fault("err")

\* Mutant of RunFails: the address stack is not restored, nor are the scopes.
RunFailsLeaks ==
    /\ At("run", "err")
    /\ curfunc' = Top.curfunc
    /\ pc' = Len(Body(Top.curfunc))
    /\ data' = Cut(Top.data)
    /\ go' = Below
    /\ UNCHANGED <<addr, linear, ret>>

\* An instruction failed: Run restores what it captured and passes the error.
RunFails ==
    /\ At("run", "err")
    /\ RestoreControl([Top EXCEPT !.pc = Len(Body(Top.curfunc))])
    /\ data' = Cut(Top.data)
    /\ go' = Below
    /\ UNCHANGED ret

\* The loop of Run is over: the top operand is its result.
RunEnds ==
    /\ At("run", "none") /\ (pc = -1 \/ ReachedEnd)
    /\ go' = Below
    /\ ret' = IF data # <<>> /\ Last(data) = Hole THEN "panic" ELSE "ok"
    /\ data' = IF data = <<>> THEN <<>> ELSE Front(data)
    /\ UNCHANGED <<curfunc, pc, addr, linear>>

Execute ==
    /\ \/ Push \/ Skip \/ LoopStart \/ Pop \/ Dup \/ EnvToStack \/ Bind
       \/ Branch \/ Jump \/ AddScope \/ RemoveScope \/ Unmark \/ LeaveLoop
       \/ PrepareCall \/ CallGo \/ CallExpr \/ Return \/ OperandFault
    /\ UNCHANGED main

-----------------------------------------------------------------------------
(* CallExprInstr.Execute: EvalCallExpression of the callee and of each      *)
(* argument, then CallResolved.  items[1] is the callee; f is what it names. *)

IsSymbol(n) == Len(Code[n]) = 1 /\ Code[n][1].op = "env"

\* The first item is the callee, whose value is not pushed.
Arg(v) ==
    /\ data' = IF Top.i = 0 THEN data ELSE Append(data, v)
    /\ go' = [go EXCEPT ![Len(go)].i = @ + 1]

\* CallResolved drops the arguments it has pushed.
CallFails ==
    /\ data' = Cut(Top.base)
    /\ go' = Below
    /\ ret' = "err"

\* CallFunction: the next instruction is the first of f.
EnterFunction(f, at, nargs) ==
    /\ Len(addr) < MaxAddr
    /\ addr' = Append(addr, Address(curfunc, at, nargs))
    /\ curfunc' = f
    /\ pc' = 0
    /\ UNCHANGED linear

EvalItem ==
    /\ At("call", "none")
    /\ Top.i < Len(Top.items)
    /\ LET n == Top.items[Top.i + 1] IN
       \/ /\ n \in Fails \/ IsSymbol(n)
          /\ CallFails
          /\ UNCHANGED <<curfunc, pc, addr, linear>>
       \/ /\ n \notin Fails /\ (IsSymbol(n) \/ Code[n] = <<>>)
          /\ Arg(Value)
          /\ UNCHANGED <<curfunc, pc, addr, linear, ret>>
       \/ /\ n \notin Fails /\ ~IsSymbol(n) /\ Code[n] # <<>>
          /\ Len(go) < MaxGo
          /\ EnterFunction(Thunk(n), -1, 0)
          /\ go' = Append(Append(Below, Captured(Top)),
                          [Frame("run", n, <<>>, -1)
                             EXCEPT !.curfunc = Thunk(n), !.pc = 0, !.addr = Len(addr) + 1])
          /\ UNCHANGED <<data, ret>>

\* EvalCallExpression always goes back to the control state it captured.
ItemDone ==
    /\ At("call", "ok")
    /\ RestoreControl(Top)
    /\ data' = LET s == Cut(Top.data)
               IN  IF Top.i = 0 THEN s ELSE Append(s, Value)
    /\ go' = [go EXCEPT ![Len(go)].i = @ + 1]
    /\ ret' = "none"

ItemFails ==
    /\ At("call", "err")
    /\ RestoreControl(Top)
    /\ data' = TruncateToSize(Cut(Top.data), Top.base, Hole)
    /\ go' = Below
    /\ UNCHANGED ret

\* Every argument is on the stack.
CallResolved ==
    /\ At("call", "none")
    /\ Top.i = Len(Top.items)
    /\ LET f == Top.f
           nargs == Len(Top.items) - 1
       IN  \/ /\ f \in Function
              /\ CASE ~Fits(f, nargs) ->
                        CallFails /\ UNCHANGED <<curfunc, pc, addr, linear>>
                   [] Fits(f, nargs) /\ f \in Varargs /\ ~Solid(nargs) ->
                        Fault("panic")
                   [] OTHER ->
                        /\ EnterFunction(Func(f), pc + 1, nargs)
                        /\ data' = Wrangled(f, nargs, data)
                        /\ go' = Below
                        /\ UNCHANGED ret
           \/ /\ f \in Builtin
              /\ EnterBuiltin(f, nargs, Below, Top.base, 0)
           \* any other value is not called: alone in parentheses it is itself
           \/ /\ f \notin Function \cup Builtin
              /\ IF nargs = 0
                 THEN /\ data' = Append(data, Value)
                      /\ pc' = pc + 1
                      /\ go' = Below
                      /\ UNCHANGED <<curfunc, addr, linear, ret>>
                 ELSE CallFails /\ UNCHANGED <<curfunc, pc, addr, linear>>

-----------------------------------------------------------------------------
(* CallUserFunction around the Go function *)

\* Mutant of BuiltinDone: the instruction after the call is skipped.
BuiltinDoneSkips(s) ==
    /\ data' = Append(s, Value)
    /\ curfunc' = Last(addr).fn
    /\ pc' = Last(addr).pc + 1
    /\ addr' = Front(addr)
    /\ go' = Below
    /\ ret' = "none"
    /\ UNCHANGED linear

\* PushExpr of the result, then back to the caller.
BuiltinDone(s) ==
    /\ data' = Append(s, Value)
    /\ IF Len(addr) > Top.addr
       THEN /\ curfunc' = Last(addr).fn
            /\ pc' = Last(addr).pc
            /\ addr' = Front(addr)
       ELSE /\ curfunc' = Top.curfunc
            /\ pc' = Top.pc + 1
            /\ UNCHANGED addr
    /\ go' = Below
    /\ ret' = "none"
    /\ UNCHANGED linear

\* SourceFileFunction pops the result of the last file it ran.
BuiltinReturns ==
    /\ At("user", "none") \/ At("user", "ok")
    /\ \/ Top.i = 0 /\ BuiltinDone(data)
       \/ Top.i > 0 /\ data # <<>> /\ Last(data) # Hole /\ BuiltinDone(Front(data))

\* Mutant of BuiltinFails: the panic goes on after the restoring.
BuiltinFailsOn ==
    /\ go # <<>> /\ Top.kind = "user"
    /\ RestoreControl(Top)
    /\ data' = Cut(Top.data)
    /\ go' = Below
    /\ ret' = IF ret = "panic" THEN "panic" ELSE "err"

\* An error, its own or passed on, or a panic: recovered here, and only here.
BuiltinFails ==
    /\ go # <<>> /\ Top.kind = "user"
    /\ RestoreControl(Top)
    /\ data' = LET s == Cut(Top.data)
               IN  IF Top.base < 0 THEN s ELSE TruncateToSize(s, Top.base, Hole)
    /\ go' = Below
    /\ ret' = "err"

MayCall(how) == {c \in Callback[Top.f] : c[1] = how}

\* Run of a function just entered, as its Go caller sees it.
Entering(frame, f, args) ==
    go' = go \o <<frame, [Frame("run", frame.f, <<>>, -1) EXCEPT
                        !.curfunc = f, !.pc = 0,
                        !.addr = Len(addr) + 1, !.data = Len(data) + args]>>

\* Apply of a compiled function, as map, apply, flatMap and timeit use it.
Apply ==
    /\ At("user", "none") \/ At("user", "ok")
    /\ Len(go) + 1 < MaxGo
    /\ Top.i = 0
    /\ \E c \in MayCall("apply") :
         LET f == c[2]
             k == c[3]
             s == data \o [j \in 1..k |-> Value]
         IN  /\ Fits(f, k)
             /\ Len(addr) < MaxAddr
             /\ addr' = Append(addr, Address(curfunc, -1, 0))
             /\ curfunc' = Func(f)
             /\ pc' = 0
             /\ data' = Wrangled(f, k, s)
             /\ Entering(Frame("apply", f, <<>>, -1), Func(f), Len(Wrangled(f, k, s)) - Len(data))
             /\ ret' = "none"
             /\ UNCHANGED linear

\* A call that does not fit is an error, Apply restores.
ApplyRefused ==
    /\ At("user", "none") \/ At("user", "ok")
    /\ \E c \in MayCall("apply") : ~Fits(c[2], c[3])
    /\ ret' = "err"
    /\ UNCHANGED <<env, go>>

ApplyDone ==
    /\ At("apply", "ok")
    /\ go' = Below
    /\ UNCHANGED <<env, ret>>

ApplyFails ==
    /\ At("apply", "err")
    /\ RestoreControl(Top)
    /\ data' = Cut(Top.data)
    /\ go' = Below
    /\ UNCHANGED ret

\* EvalFunction: the code is a function called from the builtin itself.
Eval ==
    /\ At("user", "none")
    /\ Len(go) + 1 < MaxGo
    /\ \E c \in MayCall("eval") :
         LET n == c[2]
         IN  \/ /\ n \in Fails
                /\ Fault("err")
             \/ /\ n \notin Fails
                /\ Code[n] # <<>>
                /\ EnterFunction(Thunk(n), pc + 1, 0)
                /\ Entering(Frame("eval", n, <<>>, Len(data)), Thunk(n), 0)
                /\ UNCHANGED <<data, ret>>

\* Extra operands are dropped; fewer than there were is the panic "we've
\* shrunk the datastack during eval, don't be sloppy".
EvalDone ==
    /\ At("eval", "ok")
    /\ go' = Below
    /\ IF Len(data) < Top.base
       THEN ret' = "panic" /\ UNCHANGED data
       ELSE data' = Cut(Top.base) /\ UNCHANGED ret
    /\ UNCHANGED <<curfunc, pc, addr, linear>>

EvalFails ==
    /\ At("eval", "err")
    /\ go' = Below
    /\ UNCHANGED <<env, ret>>

\* SourceExpressions, once for each file named.
Source ==
    /\ At("user", "none")
    /\ Len(go) + 1 < MaxGo
    /\ \E c \in MayCall("source") :
         LET n == c[2]
         IN  /\ Top.i < c[3]
             /\ \/ n \in Fails /\ Fault("err")
                \/ /\ n \notin Fails
                   /\ curfunc' = Sourced(n)
                   /\ pc' = 0
                   /\ go' = go \o <<Frame("source", n, <<>>, -1),
                                   [Frame("run", n, <<>>, -1) EXCEPT
                                      !.curfunc = Sourced(n), !.pc = 0]>>
                   /\ UNCHANGED <<addr, linear, data, ret>>

\* The deferred function puts pc and curfunc back on every way out.
SourceDone ==
    /\ go # <<>> /\ Top.kind = "source" /\ ret # "none"
    /\ curfunc' = Top.curfunc
    /\ pc' = Top.pc
    /\ UNCHANGED <<addr, linear>>
    /\ IF ret = "ok"
       THEN /\ data' = Append(data, Value)
            /\ go' = [Below EXCEPT ![Len(Below)].i = @ + 1]
            /\ ret' = "none"
       ELSE /\ go' = Below
            /\ UNCHANGED <<data, ret>>

\* A panic leaves the other activations without a trace.
Unwind ==
    /\ ret = "panic" /\ go # <<>> /\ Top.kind \notin {"user", "source"}
    /\ go' = Below
    /\ UNCHANGED <<env, ret>>

Activations ==
    /\ \/ RunFails \/ RunEnds \/ EvalItem \/ ItemDone \/ ItemFails \/ CallResolved
       \/ BuiltinReturns \/ BuiltinFails
       \/ Apply \/ ApplyRefused \/ ApplyDone \/ ApplyFails
       \/ Eval \/ EvalDone \/ EvalFails \/ Source \/ SourceDone \/ Unwind
    /\ UNCHANGED main

-----------------------------------------------------------------------------
(* The host *)

Idle == go = <<>> /\ ret # "panic"

\* EvalString: LoadExpressions appends to mainfunc, after a pop when the
\* code loaded before has not been run to its end, and Run goes on at pc.
EvalString ==
    /\ Idle /\ Len(main) <= MaxMain
    /\ \E p \in Program \ Fails :
         main' = main \o (IF ReachedEnd THEN <<>> ELSE <<[op |-> "pop"]>>) \o Code[p]
    /\ curfunc' = MainFunc
    /\ go' = <<[Frame("run", "main", <<>>, -1) EXCEPT !.curfunc = MainFunc]>>
    /\ ret' = "none"
    /\ UNCHANGED <<pc, addr, linear, data>>

Clear ==
    /\ Idle
    /\ main' = <<>>
    /\ curfunc' = MainFunc
    /\ pc' = 0
    /\ addr' = <<>>
    /\ linear' = TruncateToSize(linear, 1, Hole)
    /\ data' = <<>>
    /\ ret' = "none"
    /\ UNCHANGED go

Init ==
    /\ main = <<>>
    /\ curfunc = MainFunc /\ pc = 0
    /\ addr = <<>> /\ linear = <<"global">> /\ data = <<>>
    /\ go = <<>> /\ ret = "none"

Next == Execute \/ Activations \/ EvalString \/ Clear

Spec == Init /\ [][Next]_vars

-----------------------------------------------------------------------------
(* Invariants *)

\* Every stack holds what belongs on it, every frame is of a known kind, and
\* the pc is inside the function unless a Go caller has stopped it.
TypeOK ==
    /\ ret \in {"none", "ok", "err", "panic"}
    /\ data \in Seq(Slot)
    /\ ToSet(linear) \subseteq {"global", "addscope", "addfunc", Hole}
    /\ pc \in -1..Len(Body(curfunc))
    /\ \A k \in DOMAIN go :
         go[k].kind \in {"run", "call", "user", "apply", "eval", "source"}
    /\ \A k \in DOMAIN addr :
         addr[k].pc \in -1..Len(Body(addr[k].fn))

\* Between two evaluations of the host the machine is as it began: nothing
\* left on the stacks, only the global scope, the pc at the end of main.
\* Failed evaluations are no exception.
QuiescentClean ==
    Idle => /\ data = <<>> /\ addr = <<>> /\ linear = <<"global">>
            /\ curfunc = MainFunc /\ pc = Len(main)

\* What runs on behalf of a Go activation never eats into the stacks as they
\* were when that activation captured them: restoring only ever cuts.  Code
\* without a value does eat one operand when eval takes its result, but eval
\* notices and panics, and the builtin that recovers fills the stack up again.
CallersIntact ==
    ret # "panic" /\ ~(go # <<>> /\ Top.kind = "eval" /\ Top.f \in Void) =>
    \A k \in DOMAIN go : go[k].kind # "run" =>
        /\ Len(data) >= go[k].data
        /\ Len(addr) >= go[k].addr
        /\ Len(linear) >= go[k].linear

\* A compiled function that is about to return leaves its caller one operand
\* more than there was without the arguments (none after a return without a
\* value), and the scopes there were.
ReturnBalanced ==
    Running /\ Instr.op = "ret" /\ addr # <<>> /\ Last(addr) # NilAddress =>
        /\ Len(data) = Last(addr).operands + (IF curfunc[2] \in Void THEN 0 ELSE 1)
        /\ Len(linear) = Last(addr).scopes

\* The call that becomes a jump to the function's start is the last thing the
\* function has to do: only its arguments are on the stack, and of the scopes
\* only the function's own.
TailPosition ==
    Is("precall") /\ addr # <<>> /\ Last(addr) # NilAddress =>
        /\ Len(data) = Last(addr).operands + Instr.nargs
        /\ Len(linear) = Last(addr).scopes + 1

\* No Go panic reaches the host: builtins recover, and no other code panics.
NoCrash == go = <<>> => ret # "panic"
=============================================================================
