------------------------------- MODULE VmCode -------------------------------
(***************************************************************************)
(* What the machine of module Vm relies on in the code it runs.  Neither   *)
(* Run nor CallFunction looks at an instruction before it is executed; the *)
(* compiler of zygo/generator.go has to emit code that leaves every stack  *)
(* as its surroundings expect.  Reached is a witness of that: for each     *)
(* piece of code a set of places, an instruction each and what the code    *)
(* has put on the stacks of operands and scopes by then, that holds the    *)
(* start and every place one instruction further.                          *)
(***************************************************************************)
EXTENDS Vm

CONSTANT Reached    \* Reached[n]: the places of the code of n

Own == Slot \ {Hole}
Scope == {"addscope", "addfunc"}
Values(k) == [i \in 1..k |-> Value]

\* An optional list is one parameter more.
Params(f) == IF f \in Varargs THEN Arity[f] + 1 ELSE Arity[f]

\* What a piece of code leaves at its end, and a call of f at the caller.
Result(n) == IF n \in Void \/ Code[n] = <<>> THEN <<>> ELSE <<Value>>
Answer(f) == IF f \in Function \cap Void THEN <<>> ELSE <<Value>>

Place(at, ops, scopes) == [at |-> at, ops |-> ops, scopes |-> scopes]

\* A function starts with its arguments on the stack, other code with nothing.
Entry(n) == Place(0, IF n \in Function THEN Values(Params(n)) ELSE <<>>, <<>>)

\* The last place of a mark among the operands.
Marked(ops, m) ==
    {k \in DOMAIN ops : ops[k] = m /\ \A j \in (k + 1)..Len(ops) : ops[j] # m}

\* The loop that break and continue leave starts above them.
Starts(n, at, l) == {k \in 0..at : LET i == Code[n][k + 1]
                                   IN  i.op = "loopstart" /\ i.loop = l}
Nearest(n, at, l) == CHOOSE k \in Starts(n, at, l) : \A j \in Starts(n, at, l) : j <= k

\* How many operands an instruction takes, and which it puts there.
Takes(i, ops) ==
    CASE i.op \in {"pop", "bind", "update", "branch"} -> 1
      [] i.op = "assign" -> 2
      [] i.op = "call" -> i.nargs
      [] i.op = "dispatch" -> i.nargs + 1
      [] i.op = "precall" /\ i.f \in Varargs -> i.nargs - Arity[i.f]
      [] i.op = "popuntil" -> Len(ops) - Max(Marked(ops, i.mark))
      [] i.op \in {"clearmark", "vectorize"} -> Len(ops) - Max(Marked(ops, i.mark)) + 1
      [] OTHER -> 0

Gives(i, ops) ==
    CASE i.op = "push" -> <<i.what>>
      [] i.op = "dup" -> <<Last(ops)>>
      [] i.op \in {"env", "call", "dispatch", "vectorize"} -> <<Value>>
      [] i.op = "precall" /\ i.f \in Varargs -> <<Value>>
      [] i.op = "callexpr" -> Answer(i.f)
      [] OTHER -> <<>>

\* The instructions that may come next, and the scopes that are left then.
Targets(n, at) ==
    LET i == Code[n][at + 1]
    IN  CASE i.op = "branch" -> {at + 1, at + i.by}
          [] i.op = "jump" -> {at + i.by}
          [] i.op = "goto" -> {i.to}
          [] i.op = "break" -> LET k == Nearest(n, at, i.loop) IN {k + Code[n][k + 1].bottom}
          [] i.op = "continue" -> LET k == Nearest(n, at, i.loop) IN {k + Code[n][k + 1].again}
          [] i.op \in {"ret", "reterr"} -> {}
          [] OTHER -> {at + 1}

Scopes(i, scopes) ==
    CASE i.op \in Scope -> Append(scopes, i.op)
      [] i.op = "remscope" -> Front(scopes)
      [] i.op \in {"break", "continue"} -> SubSeq(scopes, 1, Len(scopes) - i.scopes)
      [] OTHER -> scopes

Successors(n, x) ==
    IF x.at >= Len(Code[n]) THEN {}
    ELSE LET i == Code[n][x.at + 1]
             ops == SubSeq(x.ops, 1, Len(x.ops) - Takes(i, x.ops)) \o Gives(i, x.ops)
         IN  {Place(to, ops, Scopes(i, x.scopes)) : to \in Targets(n, x.at)}

\* The instruction at a place finds what it needs, and a call that becomes a
\* jump has the scopes and the arguments the function was entered with.
Fed(n, x) ==
    LET i == Code[n][x.at + 1]
        ops == x.ops
        scopes == x.scopes
    IN  /\ i.op \in {"popuntil", "clearmark", "vectorize"} => Marked(ops, i.mark) # {}
        /\ Takes(i, ops) <= Len(ops)
        /\ i.op = "dup" => ops # <<>>
        /\ i.op = "remscope" => scopes # <<>>
        /\ i.op \in {"break", "continue"} =>
              Starts(n, x.at, i.loop) # {} /\ i.scopes <= Len(scopes)
        /\ i.op \in {"precall", "goto"} => n \in Function
        /\ i.op = "precall" => /\ Fits(i.f, i.nargs)
                               /\ ops = Values(i.nargs) /\ scopes = <<"addfunc">>
        /\ i.op = "ret" => n \in Function /\ ops = Result(n) /\ scopes = <<>>

Fine(n, x) ==
    /\ x.at \in 0..Len(Code[n]) /\ x.ops \in Seq(Own) /\ x.scopes \in Seq(Scope)
    /\ x.at < Len(Code[n]) => Fed(n, x)
    /\ x.at = Len(Code[n]) => n \notin Function /\ x.ops = Result(n) /\ x.scopes = <<>>

Instruction ==
    [op : {"skip", "pop", "dup", "env", "bind", "update", "assign",
           "addscope", "addfunc", "remscope", "ret", "reterr"}]
      \cup [op : {"push"}, what : Own]
      \cup [op : {"branch", "jump"}, by : Int]
      \cup [op : {"goto"}, to : Nat]
      \cup [op : {"loopstart"}, loop : LoopId, bottom : Nat, again : Nat]
      \cup [op : {"break", "continue"}, loop : LoopId, scopes : Nat]
      \cup [op : {"popuntil", "clearmark", "vectorize"}, mark : {Marker} \cup LoopId]
      \cup [op : {"precall"}, f : Function, nargs : Nat]
      \cup [op : {"call", "dispatch"}, f : Builtin, nargs : Nat]
      \cup [op : {"callexpr"}, f : Name \cup Builtin, items : Seq(Name)]

\* Code with places is proper, and so is all that it has run.
Proper == {n \in Name \ Fails : Reached[n] # {}}

Runnable(n) == n \in (Proper \cup Fails) \ Function

\* Code that is run for a value leaves one: an argument of a call, a file, a
\* function called back.  Only eval notices when it does not.
Callbacks(b) ==
    \A c \in Callback[b] :
        /\ c[1] = "apply" => c[2] \in Function \ Void /\ c[3] \in Nat
        /\ c[1] = "eval" => Runnable(c[2])
        /\ c[1] = "source" => /\ Runnable(c[2]) /\ c[3] \in 0..1
                              /\ c[2] \notin Fails => Result(c[2]) = <<Value>>

Arguments(i) ==
    i.op = "callexpr" => /\ i.items # <<>>
                         /\ \A k \in DOMAIN i.items : Runnable(i.items[k]) /\ i.items[k] \notin Void

ASSUME NamesAssumption ==
    /\ Fails \subseteq Name /\ Program \subseteq Name
    /\ Function \subseteq Proper /\ Function \cap (Program \cup Builtin) = {}
    /\ Arity \in [Function -> Nat]
    /\ LoopId \cap {Hole, Value, Marker} = {}
    /\ MaxGo \in Nat /\ MaxAddr \in Nat /\ MaxMain \in Nat
    /\ \A b \in Builtin : Callbacks(b)

ASSUME CodeAssumption ==
    /\ Code \in [Name -> Seq(Instruction)]
    /\ \A n \in Proper :
         /\ Entry(n) \in Reached[n]
         /\ \A x \in Reached[n] : Fine(n, x) /\ Successors(n, x) \subseteq Reached[n]
         /\ \A k \in DOMAIN Code[n] : Arguments(Code[n][k])
=============================================================================
