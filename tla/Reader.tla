------------------------------- MODULE Reader -------------------------------
(***************************************************************************)
(* parser.go as a coroutine and the three that drive it: the prompt        *)
(* (repl.go), which ranges over ParsingIter and types another line when    *)
(* more input is needed; ParseTokens, which pulls replies and may be       *)
(* called again after NewInput; and the read function, which looks at the  *)
(* first reply and leaves the loop.                                        *)
(*                                                                         *)
(* A token is a string, tokens holds those not yet consumed of the lines   *)
(* given, and "bad" stands for text the lexer refuses.  What the lexer has *)
(* begun and not finished is in its buffer and no token yet: "open" stands *)
(* last in tokens for a double quoted string, "cut" for an atom.  stack    *)
(* holds the activations of the parser's functions and ret what the last   *)
(* of them to return gave back.  An error returns from all of them at      *)
(* once.  A value is [op, sub]: what was read and the values inside it.    *)
(***************************************************************************)
EXTENDS Integers, Sequences, SequencesExt, TLC

CONSTANTS
    Lines,          \* the lines that may be typed, sequences of tokens and
                    \* double quotes; an atom a text breaks off in comes last
    MaxLines        \* how many of them make one input

VARIABLES
    tokens, stack, ret,
    sendMe,         \* the reply that ParsingIter fills and yields
    status,         \* idle, running, yielded or crashed (a Go panic nobody recovers)
    stopped,        \* yield has returned false
    driver,         \* prompt, load or read
    result,         \* what the driver last returned to its caller
    typed           \* history: the lines given since the last reset

vars == <<tokens, stack, ret, sendMe, status, stopped, driver, result, typed>>

Value(op, sub) == [op |-> op, sub |-> sub]
Leaf(tok)      == Value(tok, <<>>)
SexpEnd        == Leaf("End")

NoRet          == [val |-> SexpEnd, err |-> "pending"]
FreshReply     == [Expr |-> <<>>, Err |-> "none"]

Call(fn, end)  == [fn |-> fn, end |-> end, items |-> <<>>]
top            == Last(stack)

-----------------------------------------------------------------------------
(* What the lexer makes of a line behind what it has read before *)

\* One more token: in a string everything up to the next quote belongs to it.
LexNextRune(toks, tok) ==
    LET within == toks # <<>> /\ Last(toks) = "open"
    IN  CASE within /\ tok = "quote"  -> Append(Front(toks), "string")
          [] within /\ tok # "quote"  -> toks
          [] ~within /\ tok = "quote" -> Append(toks, "open")
          [] OTHER                    -> Append(toks, tok)

\* A newline ends an atom, not a string.
Newline(toks) ==
    IF toks # <<>> /\ Last(toks) = "cut" THEN Append(Front(toks), "a") ELSE toks

\* The prompt puts a newline behind each line (repl.go:102, :132), the others
\* give the text as it is; the lines of one text begin with a newline.
Lexed(toks, line, d) ==
    LET read == FoldLeft(LexNextRune, Newline(toks), line)
    IN  IF d = "prompt" THEN Newline(read) ELSE read

-----------------------------------------------------------------------------
(* Looking ahead *)

Unfinished == {"open", "cut"}

\* PeekNextToken(k - 1): is there a k-th token?
Peek(k) ==
    CASE \E i \in 1..k : i <= Len(tokens) /\ tokens[i] = "bad" -> "bad"
      [] /\ ~(\E i \in 1..k : i <= Len(tokens) /\ tokens[i] = "bad")
         /\ Len(tokens) >= k /\ tokens[k] \notin Unfinished -> "ok"
      [] OTHER -> "more"

\* The position of the first token behind a brace that is no comment; a block
\* comment is taken to be three tokens.
KeyPosition ==
    LET skip[i \in Nat] ==
            IF i > Len(tokens) THEN i
            ELSE CASE tokens[i] = "/*"      -> skip[i + 3]
                   [] tokens[i] = "comment" -> skip[i + 1]
                   [] OTHER                 -> i
    IN skip[1]

\* How many tokens are looked at once the key is known, and whether they make
\* the braces a hash.
LookBehindKey(key) ==
    CASE key = "k:" -> 1 [] key = "string" -> 1 [] key = "backtick" -> 2 [] OTHER -> 0

StartsHash(k) ==
    CASE tokens[k] = "k:"       -> tokens[k + 1] # "for"
      [] tokens[k] = "string"   -> tokens[k + 1] = ":"
      [] tokens[k] = "backtick" -> tokens[k + 1] = "raw" /\ tokens[k + 2] = ":"
      [] OTHER                  -> FALSE

-----------------------------------------------------------------------------
(* Calls, returns and the conversation with the driver. *)

Enter(frames, toks) ==
    /\ stack' = frames
    /\ tokens' = toks
    /\ ret' = NoRet
    /\ UNCHANGED <<sendMe, status, stopped, driver, result, typed>>

Return(val, toks) ==
    /\ stack' = Front(stack)
    /\ tokens' = toks
    /\ ret' = [val |-> val, err |-> "none"]
    /\ UNCHANGED <<sendMe, status, stopped, driver, result, typed>>

Throw(err) ==
    /\ stack' = <<>>
    /\ ret' = [val |-> SexpEnd, err |-> err]
    /\ UNCHANGED <<tokens, sendMe, status, stopped, driver, result, typed>>

\* A panic.  The read function runs under the recover of CallUserFunction.
Crash ==
    /\ stack' = <<>>
    /\ ret' = NoRet
    /\ IF driver = "read"
       THEN status' = "idle" /\ result' = [Expr |-> <<>>, Err |-> "recovered"]
       ELSE status' = "crashed" /\ UNCHANGED result
    /\ UNCHANGED <<tokens, sendMe, stopped, driver, typed>>

\* Nothing is left to read: yield ErrMoreInputNeeded.  A range loop that has
\* been left panics when its body is called again; Pull says false once more.
AskMore ==
    /\ status = "running" /\ ~stopped
    /\ sendMe' = [sendMe EXCEPT !.Err = "more"]
    /\ status' = "yielded"
    /\ UNCHANGED <<tokens, stack, ret, stopped, driver, result, typed>>

\* Mutant of IgnoresError: behind every key.
IgnoresErrorAlways ==
    /\ top.fn = "Curly"
    /\ KeyPosition <= Len(tokens)
    /\ tokens[KeyPosition] \in {"string", "backtick", "k:"}

\* The error of looking behind a string is thrown away, and the token that is
\* not there is indexed.
IgnoresError ==
    /\ top.fn = "Curly"
    /\ KeyPosition <= Len(tokens)
    /\ tokens[KeyPosition] \in {"string", "backtick"}

\* What the function that asked does when yield says false.
Halted ==
    CASE top.fn \in {"Curly", "Sign"} /\ ~IgnoresError -> Throw("halt")
      [] IgnoresError                                  -> Crash
      [] OTHER                                         -> Return(SexpEnd, tokens)

NoToken ==
    \/ AskMore
    \/ stopped /\ driver = "load" /\ Halted
    \/ stopped /\ driver # "load" /\ Crash

-----------------------------------------------------------------------------
(* The functions of the parser.  Each disjunct of Parse is a step of one. *)

AtEntry(fn) == status = "running" /\ stack # <<>> /\ top.fn = fn /\ ret = NoRet
AtReturn(fn) ==
    status = "running" /\ stack # <<>> /\ top.fn = fn /\ ret # NoRet

\* ParseExpression calls another function in its place; ret is what that returns.
Becomes(fn, end, toks) == Enter(Append(Front(stack), Call(fn, end)), toks)

Quotes   == {"%"}
Atoms      == {"a", "for", ":", "k:", "string", "comment", ",", ";", "Inf"}

ParseExpression ==
    /\ AtEntry("ParseExpression")
    /\ LET rest == Tail(tokens)
       IN CASE Peek(1) = "more" -> Return(SexpEnd, tokens)
            [] Peek(1) = "bad"  -> Throw("lex")
            [] Peek(1) = "ok"   ->
                 LET tok == Head(tokens)
                 IN CASE tok = "("        -> Becomes("ParseList", ")", rest)
                      [] tok = "["        -> Becomes("ParseArray", "]", rest)
                      [] tok = "{"        -> Becomes("Curly", "}", rest)
                      [] tok = "+"        -> Becomes("Sign", "", rest)
                      [] tok = "/*"       -> Becomes("ParseBlockComment", "*/", rest)
                      [] tok = "backtick" -> Becomes("ParseBacktickString", "raw", rest)
                      [] tok \in Quotes -> Enter(Append(Front(stack), Call(tok, ""))
                                                     \o <<Call("ParseExpression", "")>>, rest)
                      [] tok \in Atoms    -> Return(Leaf(tok), rest)
                      [] OTHER            -> Throw("syntax")

\* Quote, caret, tilde and tilde-at wrap the expression behind them.
Wrap ==
    \E p \in Quotes : AtReturn(p) /\ Return(Value(p, <<ret.val>>), tokens)

BehindSign == Peek(1)

Sign ==
    /\ AtEntry("Sign")
    /\ CASE BehindSign = "more" -> NoToken
         [] BehindSign = "bad"  -> Throw("lex")
         [] BehindSign = "ok"   ->
              IF Head(tokens) = "Inf" THEN Return(Leaf("+Inf"), Tail(tokens))
              ELSE Return(Leaf("+"), tokens)

\* Mutant of EmptyHash: the closing brace is not consumed.
EmptyHashKeepsBrace == Return(Leaf("hash"), tokens)

\* The token discarded is the closing brace, unless a comment stands before it.
EmptyHash == Return(Leaf("hash"), Tail(tokens))

\* A brace: hash or infix, by what comes first in it.
Curly ==
    /\ AtEntry("Curly")
    /\ LET k      == KeyPosition
           key    == IF Peek(k) = "ok" THEN tokens[k] ELSE "none"
           behind == Peek(k + LookBehindKey(key))
       IN CASE Peek(k) = "bad" -> Throw("lex")
            [] Peek(k) = "more" -> NoToken
            [] Peek(k) = "ok" /\ behind = "more" -> NoToken
            [] Peek(k) = "ok" /\ behind = "bad" -> IF IgnoresError THEN Crash ELSE Throw("lex")
            [] Peek(k) = "ok" /\ behind = "ok" ->
                 CASE key = "}"      -> EmptyHash
                   [] StartsHash(k)  -> Becomes("ParseList", "}", tokens)
                   [] OTHER          -> Becomes("ParseInfix", "}", tokens)

\* One turn of the recursion of ParseList, or of the loops of ParseArray and
\* ParseInfix, when the next token is not an expression's.
SequenceOf == [ParseList |-> "(", ParseArray |-> "[", ParseInfix |-> "infix"]

Closed(frame) ==
    Value(IF frame.fn = "ParseList" /\ frame.end = "}" THEN "hash" ELSE SequenceOf[frame.fn],
          frame.items)

\* Mutant of ParseSequence: at the end of the tokens a list is complete.
ParseSequenceAutoClose ==
    /\ \E fn \in DOMAIN SequenceOf : AtEntry(fn)
    /\ CASE Peek(1) = "more" -> IF top.fn = "ParseList" THEN Return(Closed(top), tokens) ELSE NoToken
         [] Peek(1) = "bad"  -> Throw("lex")
         [] Peek(1) = "ok"   ->
              LET tok == Head(tokens)
              IN CASE tok = top.end -> Return(Closed(top), Tail(tokens))
                   [] tok = "," /\ top.fn = "ParseArray" -> Enter(stack, Tail(tokens))
                   [] OTHER -> Enter(Append(stack, Call("ParseExpression", "")), tokens)

\* Mutant of ParseSequence: the loop looks for a token again without yielding.
ParseSequenceSpins ==
    /\ \E fn \in DOMAIN SequenceOf : AtEntry(fn)
    /\ CASE Peek(1) = "more" -> Enter(stack, tokens)
         [] Peek(1) = "bad"  -> Throw("lex")
         [] Peek(1) = "ok"   ->
              LET tok == Head(tokens)
              IN CASE tok = top.end -> Return(Closed(top), Tail(tokens))
                   [] tok = "," /\ top.fn = "ParseArray" -> Enter(stack, Tail(tokens))
                   [] OTHER -> Enter(Append(stack, Call("ParseExpression", "")), tokens)

ParseSequence ==
    /\ \E fn \in DOMAIN SequenceOf : AtEntry(fn)
    /\ CASE Peek(1) = "more" -> NoToken
         [] Peek(1) = "bad"  -> Throw("lex")
         [] Peek(1) = "ok"   ->
              LET tok == Head(tokens)
              IN CASE tok = top.end -> Return(Closed(top), Tail(tokens))
                   [] tok = "," /\ top.fn = "ParseArray" -> Enter(stack, Tail(tokens))
                   [] OTHER -> Enter(Append(stack, Call("ParseExpression", "")), tokens)

\* Inside a sequence even SexpEnd is an element.  A backslash makes a dotted
\* pair of a list only when it is there already.
SequenceElement ==
    \E fn \in DOMAIN SequenceOf :
        /\ AtReturn(fn)
        /\ LET filled == [top EXCEPT !.items = Append(@, ret.val)]
           IN IF fn = "ParseList" /\ tokens # <<>> /\ Head(tokens) = "\\"
              THEN Enter(Append(Front(stack), [filled EXCEPT !.fn = "Dotted"])
                            \o <<Call("ParseExpression", "")>>, Tail(tokens))
              ELSE Enter(Append(Front(stack), filled), tokens)

\* The tail of a dotted pair, whose bracket must be there already (GetNextToken
\* does not ask for more), and must be round in a hash too.
DottedPair ==
    /\ AtReturn("Dotted")
    /\ CASE Peek(1) = "bad" -> Throw("lex")
         [] Peek(1) = "ok" /\ Head(tokens) = ")" ->
              Return(Value(IF top.end = "}" THEN "\\hash" ELSE "\\", Append(top.items, ret.val)), Tail(tokens))
         [] OTHER -> Throw("syntax")

\* ParseBlockComment and ParseBacktickString: the lexer sends nothing else here.
ParseQuoted ==
    /\ AtEntry("ParseBlockComment") \/ AtEntry("ParseBacktickString")
    /\ CASE Peek(1) = "more" -> NoToken
         [] Peek(1) = "bad"  -> Throw("lex")
         [] Peek(1) = "ok"   ->
              IF Head(tokens) = top.end
              THEN Return(Value(IF top.end = "raw" THEN "raw" ELSE "/*", top.items), Tail(tokens))
              ELSE Enter(Append(Front(stack), [top EXCEPT !.items = Append(@, Leaf(Head(tokens)))]),
                         Tail(tokens))

\* The loop of ParsingIter.
ParsingIter ==
    /\ status = "running" /\ stack = <<>>
    /\ IF ret = NoRet THEN Enter(<<Call("ParseExpression", "")>>, tokens)
       ELSE IF ret.err = "none" /\ ret.val # SexpEnd
       THEN /\ sendMe' = [sendMe EXCEPT !.Expr = Append(@, ret.val)]
            /\ ret' = NoRet
            /\ UNCHANGED <<tokens, stack, status, stopped, driver, result, typed>>
       ELSE IF stopped /\ driver # "load" THEN Crash
       ELSE /\ sendMe' = [sendMe EXCEPT !.Err = ret.err]
            /\ status' = IF stopped THEN "idle" ELSE "yielded"
            /\ UNCHANGED <<tokens, stack, ret, stopped, driver, result, typed>>

Parse == \/ ParseExpression \/ Wrap \/ Sign \/ Curly \/ ParseSequence \/ SequenceElement
         \/ DottedPair \/ ParseQuoted \/ ParsingIter

-----------------------------------------------------------------------------
(* The drivers. *)

\* What the lexer can send: comments only in a block comment, its string behind
\* a backtick, anything in a double quoted string.
Lexes(text) ==
    LET Turn(within, tok) ==
            CASE within = "none"     -> CASE tok \in {"/*", "backtick", "quote"} -> tok
                                          [] tok \in {"*/", "raw"}      -> "refused"
                                          [] OTHER                      -> "none"
              [] within = "/*"       -> CASE tok = "comment" -> within
                                          [] tok = "*/"      -> "none"
                                          [] OTHER           -> "refused"
              [] within = "backtick" -> IF tok = "raw" THEN "none" ELSE "refused"
              [] within = "quote"    -> IF tok = "quote" THEN "none" ELSE within
              [] OTHER               -> within
    IN FoldLeft(Turn, "none", text) # "refused"

WantsMore == status = "yielded" /\ sendMe.Err = "more"

\* Mutant of ResetAddNewInput: the reply of the input before is filled on.
ResetAddNewInputKeepsReply(d, line) ==
    /\ status = "idle" /\ Lexes(line)
    /\ sendMe' = [sendMe EXCEPT !.Err = "none"]
    /\ tokens' = Lexed(<<>>, line, d)
    /\ typed' = <<line>>
    /\ driver' = d
    /\ status' = "running"
    /\ stack' = <<>> /\ ret' = NoRet /\ stopped' = FALSE
    /\ result' = FreshReply

\* ResetAddNewInput and a new ParsingIter, by the prompt, LoadStream or read.
ResetAddNewInput(d, line) ==
    /\ status = "idle" /\ Lexes(line)
    /\ sendMe' = FreshReply
    /\ tokens' = Lexed(<<>>, line, d)
    /\ typed' = <<line>>
    /\ driver' = d
    /\ status' = "running"
    /\ stack' = <<>> /\ ret' = NoRet /\ stopped' = FALSE
    /\ result' = FreshReply

\* The last reply: the driver returns it.  The iterator is at its end, and a
\* stop of it later on changes nothing.
TakeReply ==
    /\ status = "yielded" /\ ~WantsMore
    /\ status' = "idle"
    /\ result' = sendMe
    /\ UNCHANGED <<tokens, stack, ret, sendMe, stopped, driver, typed>>

\* NewInput and, after ErrMoreInputNeeded, the prompt's loop goes on or
\* ParseTokens is called again.
NewInput(line) ==
    /\ WantsMore /\ driver # "read"
    /\ Len(typed) < MaxLines
    /\ Lexes(FlattenSeq(Append(typed, line)))
    /\ tokens' = Lexed(tokens, line, driver)
    /\ typed' = Append(typed, line)
    /\ status' = "running"
    /\ UNCHANGED <<stack, ret, sendMe, stopped, driver, result>>

\* The prompt cannot read another line, read has seen its first reply, or the
\* next reset stops the iterator that ParseTokens left: yield says false.
Abandon ==
    /\ WantsMore
    /\ stopped' = TRUE
    /\ IF IgnoresError
       THEN /\ status' = IF driver = "read" THEN "idle" ELSE "crashed"
            /\ stack' = <<>> /\ ret' = NoRet
       ELSE /\ status' = "running"
            /\ IF top.fn \in {"Curly", "Sign"}
               THEN stack' = <<>> /\ ret' = [val |-> SexpEnd, err |-> "halt"]
               ELSE stack' = Front(stack) /\ ret' = [val |-> SexpEnd, err |-> "none"]
    /\ result' = [Expr |-> <<>>, Err |-> IF driver = "prompt" THEN "EOF" ELSE "more"]
    /\ UNCHANGED <<tokens, sendMe, driver, typed>>

Init ==
    /\ tokens = <<>> /\ stack = <<>> /\ ret = NoRet
    /\ sendMe = FreshReply /\ result = FreshReply
    /\ status = "idle" /\ stopped = FALSE
    /\ driver = "prompt" /\ typed = <<>>

Drive ==
    \/ TakeReply
    \/ Abandon
    \/ \E line \in Lines :
          \/ NewInput(line)
          \/ \E d \in {"prompt", "load", "read"} : ResetAddNewInput(d, line)

Next == Parse \/ Drive

\* Go runs the iterator's code until it yields or returns.
Spec == Init /\ [][Next]_vars /\ WF_vars(Parse)

-----------------------------------------------------------------------------
(* Properties *)

\* The tokens of all that was typed, and those that the lexer has finished.
Text     == FoldLeft(LAMBDA toks, line : Lexed(toks, line, driver), <<>>, typed)
Complete == SelectSeq(Text, LAMBDA tok : tok \notin Unfinished)

\* The brackets and quotations open at the end of a text, or a closer that
\* closes none of them.
Closer == ("(" :> ")") @@ ("[" :> "]") @@ ("{" :> "}") @@ ("/*" :> "*/") @@ ("backtick" :> "raw")
Stray  == <<"stray">>

Nesting(text) ==
    LET Turn(open, tok) ==
            CASE open = Stray -> Stray
              [] open # Stray /\ tok \in DOMAIN Closer -> Append(open, tok)
              [] open # Stray /\ \E o \in DOMAIN Closer : Closer[o] = tok ->
                    IF open # <<>> /\ Closer[Last(open)] = tok THEN Front(open) ELSE Stray
              [] OTHER -> open
    IN FoldLeft(Turn, <<>>, text)

\* The tokens a value is written with.
RECURSIVE Spelling(_)
Spelling(v) ==
    LET inside == FlattenSeq([i \in DOMAIN v.sub |-> Spelling(v.sub[i])])
    IN CASE v.op = "("               -> <<"(">> \o inside \o <<")">>
         [] v.op = "["               -> <<"[">> \o inside \o <<"]">>
         [] v.op \in {"hash", "infix"} -> <<"{">> \o inside \o <<"}">>
         [] v.op = "/*"              -> <<"/*">> \o inside \o <<"*/">>
         [] v.op = "raw"             -> <<"backtick", "raw">>
         [] v.op = "+Inf"            -> <<"+", "Inf">>
         [] v.op \in {"\\", "\\hash"} -> LET last == Spelling(Last(v.sub))
                                        IN <<IF v.op = "\\" THEN "(" ELSE "{">> \o SubSeq(inside, 1, Len(inside) - Len(last))
                                             \o <<"\\">> \o last \o <<")">>
         [] v.op = "End"             -> <<>>
         [] OTHER                    -> <<v.op>> \o inside

NoCommas(text) == SelectSeq(text, LAMBDA tok : tok # ",")

\* A comment where the first key of a hash is looked for: when the brace that
\* closes an empty hash comes next, the comment is dropped in its place
\* (parser.go:319) and the brace closes whatever is open outside; and a block
\* comment of several lines hides the key behind it.
CommentInBrace ==
    \E i \in 1..(Len(Text) - 1) : Text[i] = "{" /\ Text[i + 1] \in {"comment", "/*"}

\* What is delivered without an error is all that was typed since the reset and
\* nothing else, whatever lines it came in and whatever was abandoned before, up
\* to a string or an atom that the text breaks off in, which is dropped:
\* sendMe and the suspended activations never leak into another input
\* (parser.go:522 "allow us to start again, as in 030 lexer_test.go").
DeliversWhatWasTyped ==
    status = "idle" /\ result.Err = "none" /\ ~CommentInBrace =>
        NoCommas(Spelling(Value("top", result.Expr))) = <<"top">> \o NoCommas(Complete)

\* A round bracket closes a hash that ends in a dotted pair.
DottedHash == {"{", "\\"} \subseteq {Text[i] : i \in DOMAIN Text}

\* More input is asked for only when a bracket, a comment or a string in
\* backticks is open, or behind a sign that may be that of infinity; and while
\* one of them is open nothing is delivered, as a prompt that guessed from the
\* line alone would.  A double quote that is open does neither: within a bracket
\* the bracket asks, outside PeekNextToken reports the end (lexer.go:839).
AsksOnlyWhenOpen ==
    /\ WantsMore /\ ~DottedHash /\ ~CommentInBrace =>
          Nesting(Complete) \notin {<<>>, Stray} \/ Last(Complete) = "+"
    /\ status = "idle" /\ result.Err = "none" /\ ~DottedHash /\ ~CommentInBrace =>
          Nesting(Complete) = <<>>

\* A text is refused only for a stray closer, a backslash out of place, text the
\* lexer refused, or a comment right behind a brace.
RefusesWithReason ==
    status = "idle" /\ result.Err = "syntax" =>
        Nesting(Text) = Stray \/ "\\" \in {Text[i] : i \in DOMAIN Text} \/ CommentInBrace

\* While its driver goes on the parser returns its errors: it panics only when
\* it is abandoned in the middle of an input, or when the lexer refuses the text
\* right behind the string that may be a key (parser.go:323 ignores that error).
PanicsOnlyWhenAbandoned ==
    status = "crashed" =>
        stopped \/ \E i \in 2..Len(Text) : Text[i] = "bad" /\ Text[i - 1] \in {"string", "backtick", "raw"}

\* An error in the text is what ParseTokens returns (parser.go:518 "Currently
\* returns first error encountered, ignoring any expressions after that").
ReturnsFirstError == driver = "load" /\ status = "crashed" => stopped

\* The parser comes to a reply, a question or an end whatever it is given.
AnswersEveryLine == status = "running" ~> status # "running"
=============================================================================
