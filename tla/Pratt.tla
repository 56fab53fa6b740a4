-------------------------------- MODULE Pratt --------------------------------
(***************************************************************************)
(* pratt.go: from the contents of a pair of curly braces to expressions.   *)
(*                                                                         *)
(* A token of the stream is a string; which of them are operators is said  *)
(* by the tables below, Arrays says what stands inside those that are      *)
(* arrays, and the rest are symbols and literals.  p is the struct Pratt   *)
(* (CnodeStack with its first element first), stack the activations of the *)
(* functions that call each other, and ret what the last of them gave      *)
(* back.  A tree is [op, sub].  careless is history: an operand was missing *)
(* and the token before it was taken for one, or a left side was dropped.  *)
(***************************************************************************)
EXTENDS Integers, Sequences, FiniteSets, SequencesExt, TLC

CONSTANTS
    Streams,        \* what may stand between the braces
    Arrays          \* the tokens of every array literal

VARIABLES p, stack, ret, xs, status, stream, careless

vars == <<p, stack, ret, xs, status, stream, careless>>

Tree(op, sub) == [op |-> op, sub |-> sub]
Leaf(tok)     == Tree(tok, <<>>)
SexpNull      == Leaf("nil")
NoRet         == Leaf("pending")

-----------------------------------------------------------------------------
(* InitInfixOps *)

Infix  == [t \in {"+", "-"} |-> 50] @@ [t \in {"*", "/", "mod"} |-> 60]
          @@ [t \in {"==", "!=", ">", ">=", "<", "<="} |-> 40] @@ ("comma" :> 15)
Infixr == ("**" :> 65) @@ [t \in {"and", "or"} |-> 30]
Assignment    == [t \in {"=", ":=", "+=", "-="} |-> 10]
PostfixAssign == [t \in {"++", "--"} |-> 10]

\* What a prefix operator hands to Expression first.
Prefix == ("not" :> 70) @@ ("*" :> 70) @@ ("if" :> 5)
LoopControl == {"break", "continue"}

Blocks      == {"{}", "{x}"}            \* an empty hash, an infix block
Unhandled   == {"'c'"}                  \* a character, an unsigned integer, a time
NotSymbols  == Blocks \cup Unhandled \cup DOMAIN Arrays \cup {",", ";", "1", "(f)"}
ColonTail   == ("l:" :> "l")            \* symbols that end in a colon
IsSymbol(t) == t \notin NotSymbols

InfixOps == DOMAIN Infix \cup DOMAIN Infixr \cup DOMAIN Assignment \cup DOMAIN PostfixAssign
            \cup DOMAIN Prefix \cup LoopControl \cup {"for", "."}

\* The key of env.infixOps that a token stands for when it has something to its left.
OpOf(t) == IF t = "," THEN "comma" ELSE IF t = ".k" THEN "." ELSE t

LeftBindingPower(t) ==
    CASE t = "if" \/ t \in LoopControl \/ t = "for" -> 0
      [] OpOf(t) \in DOMAIN Infix       -> Infix[OpOf(t)]
      [] t \in DOMAIN Infixr            -> Infixr[t]
      [] t \in DOMAIN Assignment        -> Assignment[t]
      [] t \in DOMAIN PostfixAssign     -> PostfixAssign[t]
      [] t = "not"                      -> Prefix[t]
      [] OpOf(t) = "." \/ t \in DOMAIN Arrays -> 80
      [] OTHER                          -> 0

-----------------------------------------------------------------------------
(* The struct and its two methods *)

NewPratt(tokens) ==
    [Stream |-> tokens, Pos |-> 1, NextToken |-> IF tokens = <<>> THEN "nil" ELSE tokens[1],
     AccumTree |-> SexpNull, CnodeStack |-> <<>>]

AtEOF(pr) == pr.Pos > Len(pr.Stream)

\* At the end the last token stays the next one.
Advance(pr) ==
    [pr EXCEPT !.Pos = @ + 1,
               !.NextToken = IF pr.Pos + 1 > Len(pr.Stream) THEN @ ELSE pr.Stream[pr.Pos + 1]]

top   == Last(stack)
below == Front(stack)

Expression(rbp) == [fn |-> "Expression", rbp |-> rbp, at |-> "top"]
Muncher(op, left, stage) == [fn |-> "Munch", op |-> op, left |-> left, at |-> stage]

Go(frames, pr) ==
    stack' = frames /\ p' = pr /\ ret' = NoRet /\ UNCHANGED <<xs, status, stream>>
Return(tree, pr) ==
    stack' = below /\ p' = pr /\ ret' = tree /\ UNCHANGED <<xs, status, stream>>
Fail ==
    status' = "error" /\ stack' = <<>> /\ UNCHANGED <<p, ret, xs, stream>>

In(fn) == status = "running" /\ stack # <<>> /\ top.fn = fn

-----------------------------------------------------------------------------
(* Expression: the token first met, then operators to the right of it. *)

\* The caller of a muncher goes on when the tree is known.
Loop(frame) == [frame EXCEPT !.at = "loop"]

\* Expression at the end of the stream returns the token that was consumed last.
ExpressionEnters ==
    /\ In("Expression") /\ top.at = "top"
    /\ careless' = (careless \/ (AtEOF(p) /\ p.NextToken # ";"))
    /\ IF AtEOF(p) THEN Return(Leaf(p.NextToken), p)
       ELSE LET tok    == p.NextToken
                pr     == Advance([p EXCEPT !.CnodeStack = <<tok>> \o @])
                caller == Append(below, Loop(top))
            IN CASE tok \in DOMAIN Prefix ->
                      Go(caller \o <<Muncher(tok, <<>>, "prefix"), Expression(Prefix[tok])>>, pr)
                 [] tok \in LoopControl \cup {"for"} ->
                      Go(Append(caller, Muncher(tok, <<>>, "start")), pr)
                 [] OTHER -> Go(caller, [pr EXCEPT !.AccumTree = Leaf(tok)])

\* Mutant of RightBindingPower: every operator associates to the right.
RightBindingPowerLess(op) ==
    CASE op \in DOMAIN Infix      -> Infix[op] - 1
      [] op \in DOMAIN Infixr     -> Infixr[op] - 1
      [] op \in DOMAIN Assignment -> Assignment[op] - 1

\* How tightly the operand on the right of an operator holds on to what follows.
RightBindingPower(op) ==
    CASE op \in DOMAIN Infix      -> Infix[op]
      [] op \in DOMAIN Infixr     -> Infixr[op] - 1
      [] op \in DOMAIN Assignment -> Assignment[op] - 1

\* One turn of the loop over operators that bind tighter than the caller's.
ExpressionLoops ==
    /\ In("Expression") /\ top.at = "loop" /\ ret = NoRet
    /\ LET tok == p.NextToken
           op  == OpOf(tok)
           pr  == Advance([p EXCEPT !.CnodeStack[1] = tok])
           Accum(tree) == Go(stack, [pr EXCEPT !.AccumTree = tree])
       IN /\ careless' = (careless \/ (~AtEOF(p) /\ tok = "not" /\ top.rbp < 70))
          /\ CASE AtEOF(p) -> Return(p.AccumTree, [p EXCEPT !.CnodeStack = Tail(@)])
               [] ~AtEOF(p) /\ tok \in Unhandled -> Fail
               [] ~AtEOF(p) /\ tok \notin Unhandled /\ top.rbp >= LeftBindingPower(tok) ->
                    Return(p.AccumTree, [p EXCEPT !.CnodeStack = Tail(@)])
               [] OTHER ->
                    CASE op \in DOMAIN Infix \cup DOMAIN Infixr \cup DOMAIN Assignment ->
                           Go(stack \o <<Muncher(op, <<p.AccumTree>>, "infix"), Expression(RightBindingPower(op))>>, pr)
                      [] op \in DOMAIN PostfixAssign -> Accum(Tree(op, <<p.AccumTree>>))
                      [] op = "." -> Accum(Tree("hashidx", <<p.AccumTree, Leaf(pr.CnodeStack[1])>>))
                      [] op \in DOMAIN Arrays ->
                           Go(Append(stack, Muncher(op, <<p.AccumTree>>, "array")), pr)
                      [] op = "not" -> Accum(Leaf(tok))     \* no MunchLeft: the left side is gone

\* Back from a muncher: its tree is the one accumulated.
ExpressionTakes ==
    /\ In("Expression") /\ top.at = "loop" /\ ret # NoRet
    /\ Go(stack, [p EXCEPT !.AccumTree = ret])

\* The closures of Infix, Infixr and Assignment, back from the right operand.
MunchLeft ==
    /\ In("Munch") /\ top.at = "infix" /\ ret # NoRet
    /\ Return(Tree(top.op, top.left \o <<ret>>), p)

-----------------------------------------------------------------------------
(* Prefix operators *)

MunchPrefix ==
    /\ In("Munch") /\ top.at = "prefix" /\ ret # NoRet
    /\ IF top.op # "if" THEN Return(Tree(top.op, <<ret>>), p)
       ELSE Go(below \o <<Muncher("if", <<ret>>, "then"), Expression(0)>>, p)

MunchThen ==
    /\ In("Munch") /\ top.at = "then" /\ ret # NoRet
    /\ IF p.NextToken = "else"
       THEN Go(below \o <<Muncher("if", Append(top.left, ret), "else"), Expression(0)>>, Advance(p))
       ELSE Return(Tree("if", top.left \o <<ret, SexpNull>>), p)

MunchElse ==
    /\ In("Munch") /\ top.at = "else" /\ ret # NoRet
    /\ Return(Tree("if", Append(top.left, ret)), p)

\* Mutant of MunchLoopControl: the label is not consumed.
MunchLoopControlKeepsLabel ==
    /\ In("Munch") /\ top.at = "start" /\ top.op \in LoopControl
    /\ IF ~AtEOF(p) /\ IsSymbol(p.NextToken)
       THEN Return(Tree(top.op, <<Leaf(p.NextToken)>>), p)
       ELSE Return(Leaf(top.op), p)

\* Any symbol behind break or continue is its label.
MunchLoopControl ==
    /\ In("Munch") /\ top.at = "start" /\ top.op \in LoopControl
    /\ IF ~AtEOF(p) /\ IsSymbol(p.NextToken)
       THEN Return(Tree(top.op, <<Leaf(p.NextToken)>>), Advance(p))
       ELSE Return(Leaf(top.op), p)

-----------------------------------------------------------------------------
(* Parts of the stream that are parsed by a Pratt of their own: what stands *)
(* in an array selector and in the header of a loop.                        *)

\* parse holds the parts still to be parsed, in order, done their trees, outer
\* the struct to go back to; what says how to put the trees together, around
\* them head and the body of a loop.
Parts(what, parse, head, body) ==
    [fn |-> "Parts", what |-> what, parse |-> parse, done |-> <<>>, outer |-> p,
     head |-> head, body |-> body]

\* splitColonTailSelectorSymbols
SplitColons(tokens) ==
    FlattenSeq([i \in DOMAIN tokens |->
        IF tokens[i] \in DOMAIN ColonTail THEN <<ColonTail[tokens[i]], ":">> ELSE <<tokens[i]>>])

CutAt(tokens, i) == <<SubSeq(tokens, 1, i - 1), SubSeq(tokens, i + 1, Len(tokens))>>

\* arrayOpMunchLeft and normalizeArraySelector
MunchArray ==
    /\ In("Munch") /\ top.at = "array"
    /\ LET tokens == SplitColons(Arrays[p.CnodeStack[1]])
           colons == {i \in DOMAIN tokens : tokens[i] = ":"}
           selecting == Append(below, [top EXCEPT !.at = "selector"])
           Index(sel) == Return(Tree("arrayidx", <<top.left[1], Tree("[", sel)>>), p)
       IN CASE \E i, j \in colons : i # j -> Fail
            [] \E i \in colons : colons = {i} ->
                 LET i == CHOOSE c \in colons : TRUE
                 IN Go(selecting \o <<Parts("slice", CutAt(tokens, i), <<>>, "")>>, p)
            [] colons = {} /\ Len(tokens) > 1 ->
                 Go(selecting \o <<Parts("index", <<tokens>>, <<>>, "")>>, p)
            [] OTHER -> Index([i \in DOMAIN tokens |-> Leaf(tokens[i])])

SelectorDone ==
    /\ In("Munch") /\ top.at = "selector" /\ ret # NoRet
    /\ Return(Tree("arrayidx", <<top.left[1], ret>>), p)

IsBody(t) == t \in Blocks

FirstIn(set) == CHOOSE i \in set : \A j \in set : i <= j

\* forOpMunchRightWithLabel and lowerGoFor: the header reaches to the first block.
ForLoop(frames, pr, label) ==
    LET bodies == {i \in pr.Pos..Len(pr.Stream) : IsBody(pr.Stream[i])}
        b       == FirstIn(bodies)
        header  == SubSeq(pr.Stream, pr.Pos, b - 1)
        semis   == {i \in DOMAIN header : header[i] = ";"}
        assigns == {i \in DOMAIN header : header[i] \in {":=", "="}}
        a       == FirstIn(assigns)
        behind  == SubSeq(header, FirstIn(semis) + 1, Len(header))
        targets == SubSeq(header, 1, a - 1)
        ranges  == {i \in DOMAIN header : header[i] = "range"}
        Lower(what, parse, head) ==
            LET after == Advance([pr EXCEPT !.Pos = b])
            IN Go(Append(frames, [Parts(what, parse, label \o head, pr.Stream[b]) EXCEPT !.outer = after]), after)
    IN CASE bodies = {} -> Fail
         [] bodies # {} /\ semis # {} ->
              IF Cardinality(semis) # 2 THEN Fail
              ELSE Lower("for", <<SubSeq(header, 1, FirstIn(semis) - 1)>>
                                \o CutAt(behind, FirstIn({i \in DOMAIN behind : behind[i] = ";"})), <<>>)
         [] bodies # {} /\ semis = {} /\ ranges = {} -> Lower("while", <<header>>, <<>>)
         [] OTHER ->        \* lowerRangeFor and parseRangeTargets
              IF /\ assigns # {} /\ a < Len(header) /\ header[a + 1] = "range"
                 /\ \/ Len(targets) = 1
                    \/ Len(targets) = 3 /\ targets[2] = ","
                 /\ IsSymbol(targets[1]) /\ IsSymbol(Last(targets))
                 /\ Len(header) > a + 1
              THEN Lower("range", <<SubSeq(header, a + 2, Len(header))>>, SubSeq(header, 1, a + 1))
              ELSE Fail

MunchFor ==
    /\ In("Munch") /\ top.at = "start" /\ top.op = "for"
    /\ ForLoop(below, p, <<>>)

\* parsePrattOne; what is missing in a header is nil, and the condition true.
PartStarts ==
    /\ In("Parts") /\ ret = NoRet /\ Len(top.done) < Len(top.parse)
    /\ LET part == top.parse[Len(top.done) + 1]
       IN IF part = <<>> THEN Go(Append(below, [top EXCEPT !.done = Append(@, SexpNull)]), p)
          ELSE Go(Append(stack, Expression(0)), NewPratt(part))

PartEnds ==
    /\ In("Parts") /\ ret # NoRet
    /\ CASE AtEOF(p) -> Go(Append(below, [top EXCEPT !.done = Append(@, ret)]), p)
         [] ~AtEOF(p) /\ top.what = "index" ->      \* left as it was
              LET tokens == top.parse[1]
              IN Return(Tree("[", [i \in DOMAIN tokens |-> Leaf(tokens[i])]), top.outer)
         [] OTHER -> Fail

PartsDone ==
    /\ In("Parts") /\ ret = NoRet /\ Len(top.done) = Len(top.parse)
    /\ LET d     == top.done
           heads == [i \in DOMAIN top.head |-> Leaf(top.head[i])]
           body  == Leaf(top.body)
       IN CASE top.what = "index" -> Return(Tree("[", d), top.outer)
            [] top.what = "slice" -> Return(Tree("[", <<d[1], Leaf(":"), d[2]>>), top.outer)
            [] OTHER -> Return(Tree(top.what, heads \o d \o <<body>>), top.outer)

-----------------------------------------------------------------------------
(* InfixExpandArray *)

Statement ==
    /\ status = "running" /\ stack = <<>> /\ ret = NoRet
    /\ LET labeled == /\ p.NextToken \in DOMAIN ColonTail
                      /\ p.Pos < Len(p.Stream) /\ p.Stream[p.Pos + 1] = "for"
       IN IF labeled THEN ForLoop(<<>>, Advance(Advance(p)), <<p.NextToken>>)
          ELSE Go(<<Expression(0)>>, p)

StatementEnds ==
    /\ status = "running" /\ stack = <<>> /\ ret # NoRet
    /\ xs' = IF ret = Leaf(";") THEN xs ELSE Append(xs, ret)
    /\ status' = IF AtEOF(p) THEN "done" ELSE "running"
    /\ p' = IF ~AtEOF(p) /\ p.NextToken = ";" THEN Advance(p) ELSE p
    /\ ret' = NoRet
    /\ UNCHANGED <<stack, stream>>

Init ==
    /\ stream \in Streams
    /\ p = NewPratt(stream)
    /\ stack = <<>> /\ ret = NoRet /\ xs = <<>> /\ status = "running" /\ careless = FALSE

\* The builder has returned.
Finished == status # "running" /\ UNCHANGED vars

Careful ==
    /\ UNCHANGED careless
    /\ \/ ExpressionTakes \/ MunchLeft \/ MunchPrefix \/ MunchThen \/ MunchElse
       \/ MunchLoopControl \/ MunchArray \/ SelectorDone \/ MunchFor
       \/ PartStarts \/ PartEnds \/ PartsDone \/ Statement \/ StatementEnds

Next == ExpressionEnters \/ ExpressionLoops \/ Careful \/ Finished

Spec == Init /\ [][Next]_vars

-----------------------------------------------------------------------------
(* Properties *)

\* A token as it is written, and a tree as it is written: an operator stands
\* where the grammar puts it, and nil and what a header left out are not written.
Written(t) ==
    CASE t \in DOMAIN Arrays    -> <<"[">> \o SplitColons(Arrays[t]) \o <<"]">>
      [] t \in DOMAIN ColonTail -> <<ColonTail[t], ":">>
      [] t = "nil"              -> <<>>
      [] OTHER                  -> <<t>>

Between(seqs, separators) ==
    FlattenSeq([i \in DOMAIN seqs |-> seqs[i] \o (IF i < Len(seqs) THEN separators[i] ELSE <<>>)])

RECURSIVE Spelling(_)
Spelling(tree) ==
    LET op == tree.op
        s  == [i \in DOMAIN tree.sub |-> Spelling(tree.sub[i])]
        n  == Len(s)
        label == IF n > 0 /\ tree.sub[1].op \in DOMAIN ColonTail THEN 1 ELSE 0
        behindLabel == SubSeq(s, label + 1, n)
    IN CASE s = <<>> /\ op # "["             -> Written(op)
         [] op = "["                         -> <<"[">> \o FlattenSeq(s) \o <<"]">>
         [] op \in {"hashidx", "arrayidx"}   -> s[1] \o s[2]
         [] op \in DOMAIN PostfixAssign      -> s[1] \o <<op>>
         [] n = 1 /\ op \in {"not", "*"} \cup LoopControl -> <<op>> \o s[1]
         [] op = "if" -> <<"if">> \o s[1] \o s[2] \o (IF s[3] = <<>> THEN <<>> ELSE <<"else">> \o s[3])
         [] op \in {"while", "range"}        -> FlattenSeq(SubSeq(s, 1, label)) \o <<"for">> \o FlattenSeq(behindLabel)
         [] op = "for" -> FlattenSeq(SubSeq(s, 1, label)) \o <<"for">>
                            \o Between(behindLabel, << <<";">>, <<";">>, <<>> >>)
         [] OTHER                            -> s[1] \o Written(IF op = "comma" THEN "," ELSE op) \o s[2]

\* Semicolons separate statements and may do so twice.
NoSemicolons(text) == SelectSeq(text, LAMBDA t : t # ";")

\* Every token of the stream is in the trees once and in its place, whatever
\* bound it, unless an operand was missing and the token before it was taken for
\* one (Expression at the end of the stream) or an operator without a left side
\* threw its left side away: AccumTree, NextToken and CnodeStack are shared by
\* the activations of Expression, which must not lose each other's.
SpellsTheStream ==
    status = "done" /\ ~careless =>
        NoSemicolons(FlattenSeq([i \in DOMAIN xs |-> Spelling(xs[i])]))
            = NoSemicolons(FlattenSeq([i \in DOMAIN stream |-> Written(stream[i])]))

\* The power of the operator at the root of a tree, of binary operators only.
Binary(tree) == Len(tree.sub) = 2 /\ tree.op \in DOMAIN Infix \cup DOMAIN Infixr \cup DOMAIN Assignment

Subtrees(trees) ==
    LET WithChildren(set) == set \cup UNION {{t.sub[i] : i \in DOMAIN t.sub} : t \in set}
    IN FoldLeft(LAMBDA set, i : WithChildren(set), trees, [i \in 1..8 |-> i])

Climbs(t) ==
    LET power == LeftBindingPower(t.op)
        right == t.op \notin DOMAIN Infix       \* associates to the right
    IN /\ Binary(t.sub[1]) => LeftBindingPower(t.sub[1].op) > power - (IF right THEN 0 ELSE 1)
       /\ Binary(t.sub[2]) => LeftBindingPower(t.sub[2].op) > power - (IF right THEN 1 ELSE 0)

\* Operators that bind less are nearer to the root, and those of one power
\* associate to one side (pratt.go:901 "guarantee the precedence-hill-climbing
\* property (small precedence at the top) in the resulting parse tree"); an
\* operand, an operator, an operand and so on make one expression.
ClimbsPrecedence ==
    status = "done" /\ ~careless =>
        /\ \A t \in Subtrees({xs[i] : i \in DOMAIN xs}) : Binary(t) => Climbs(t)
        /\ (Len(stream) % 2 = 1
            /\ \A i \in DOMAIN stream :
                  IF i % 2 = 1 THEN stream[i] = "a"
                  ELSE OpOf(stream[i]) \in DOMAIN Infix \cup DOMAIN Infixr \cup DOMAIN Assignment)
             => Len(xs) = 1
=============================================================================
