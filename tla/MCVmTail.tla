------------------------------ MODULE MCVmTail ------------------------------
(***************************************************************************)
(* The one form of call whose code the machine does not run as it should:  *)
(* a function that calls itself in the binding of a let.  Its code is not  *)
(* what module VmCode asks for, so Vm is instantiated without it.          *)
(***************************************************************************)
EXTENDS Integers, Sequences

VARIABLES main, curfunc, pc, addr, linear, data, go, ret

MCSrc == [callee  |-> [t |-> "symbol"],
          x       |-> [t |-> "symbol"],
          lettail |-> [t |-> "call", f |-> "l", args |-> <<"x">>]]

\* (defn l [n] (let [a 1 r (cond n 0 (l n))] (+ a r)))
Literal == [t |-> "literal"]
Pending == [t |-> "cond", clauses |-> <<<<MCSrc["x"], Literal>>>>, default |-> MCSrc["lettail"]]
Binding == [t |-> "let", values |-> <<Literal, Pending>>, body |-> <<Literal>>]

G == INSTANCE Generator WITH Src <- MCSrc

MCName == DOMAIN MCSrc \cup {"l"}
MCCode == [n \in MCName |-> IF n = "l" THEN G!FunctionCode("l", 1, <<Binding>>).code
                            ELSE G!Standalone(MCSrc[n]).code]

INSTANCE Vm WITH Name <- MCName, Code <- MCCode, Fails <- {}, Function <- {"l"},
                 Arity <- [f \in {"l"} |-> 1], Varargs <- {}, Void <- {},
                 Builtin <- {}, Callback <- <<>>, LoopId <- {},
                 Program <- {"lettail"}, MaxGo <- 8, MaxAddr <- 8, MaxMain <- 0
=============================================================================
