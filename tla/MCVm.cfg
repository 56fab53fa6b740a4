CONSTANTS
    Name <- MCName
    Code <- MCCode
    Fails <- MCFails
    Function <- MCFunction
    Arity <- MCArity
    Varargs <- MCVarargs
    Void <- MCVoid
    Builtin <- MCBuiltin
    Callback <- MCCallback
    LoopId <- MCLoopId
    Reached <- MCReached
    Program = {"apply", "nested", "evals", "source", "wrong", "build", "loops", "recover"}
    MaxGo = 10
    MaxAddr = 8
    MaxMain = 2
SPECIFICATION Spec
CHECK_DEADLOCK FALSE
INVARIANTS
    TypeOK
    QuiescentClean
    CallersIntact
    ReturnBalanced
    TailPosition
    NoCrash
