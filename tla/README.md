# zygomys in TLA+

A verification development for [zygomys](../src/README.md), an embeddable Lisp
interpreter in Go (`src/zygo/`). Modules of TLA+ model its core, TLC checks
them on small instances, and TLAPS proves the results that hold for every
instance. `PROJECT.json` maps every definition to the lines it models.

## 1. The system

A `Zlisp` (`environment.go`) is an interpreter with one thread. Source text is
lexed (`lexer.go`) and parsed (`parser.go`) into s-expressions, infix blocks
among them are rewritten (`pratt.go`), `Generator` (`generator.go`) compiles
the result to instructions, and `Run` (`environment.go`) executes the
instructions (`vm.go`) on four stacks: operands (`datastack`), scopes
(`linearstack`), return addresses (`addrstack`), and, while compiling, loops
(`loopstack`). Go builtins are called from instructions and call back into `Run`.

| component | state it keeps | operations | hard behaviour | what makes it correct |
|---|---|---|---|---|
| hash (`hashutils.go`) | buckets by hash code, `KeyOrder`, `NumKeys` | HashSet, HashDelete, HashGet, HashPairi, HashCountKeys | three structures updated by different lines; keys that collide, wrap each other or differ from themselves | it is a dictionary; the three parts agree |
| hash copies (`CloneFrom`, `derefSet`) | slices over arrays in memory | append, delete in place, CloneFrom | shared arrays | no slice leaves its array; disturbance is confined |
| range loops (`pratt.go`, `functions.go`) | length, position | lowered loop, `__rangePair`, `hpair` | the body changes the hash | each entry once; the loop ends |
| compiler (`generator.go`) | Tail, scopes, funcname, loopstack | one Generate* per form | jumps, scopes to leave, tail calls | balanced stacks, right jumps |
| virtual machine (`vm.go`, `environment.go`, `stack.go`, `source.go`) | four stacks, curfunc, pc | one Execute per instruction, Run, Apply, calls, eval, source | Run is re-entered from Go; an error or panic anywhere | stacks come back as they were |
| scopes and closures (`scopes.go`, `closing.go`) | scopes, captured stacks, parents | add/remove scope, bind, set, lookup in three stages | functions travel; code is compiled at run time | lookups are lexical |
| lazy arguments (`expressions.go`) | captured stack, forced or not | NewSourceLazyArg, Force | another stack is put in place of the current one | the code sees its caller's variables, the forcer gets its own back |
| symbol table, duplicated environments (`environment.go`) | symtable, revsymtable, nextsymbol | MakeSymbol, GenSymbol, Duplicate, Clone | tables shared, counters copied | one number per name; a generated symbol is new |
| lexer (`lexer.go`) | state, buffer, tokens, ring of last runes | LexNextRune, PeekNextToken, Reset | inputs that break off in a string, a comment, an operator | what is written is what is read, whatever came before |
| parser and prompt (`parser.go`, `repl.go`) | coroutine, pending reply, expressions | ResetAddNewInput, ParsingIter, ParseTokens, Stop | a parse waits for more input, is continued, reset or abandoned | every input is parsed once, every line answered |
| infix parser (`pratt.go`) | position, tokens | Expression with binding powers, munchers | precedence, lowering to Lisp | the tree spells the stream; powers decide the nesting |
| comparison, arithmetic (`comparisons.go`, `numerictower.go`) | none | Compare, IntegerDo, NumericDo | mixed kinds, NaN, differences that wrap | an order, or an error |
| arrays and selectors (`arrayutils.go`, `functions.go`) | Go slices over shared memory | append, concat, rest, slice, a[i:j], aset | append in place while there is capacity | an extension writes behind its end only |
| dates, calendar (`dates.go`, `calendar.go`, `time.go`) | none | parse, print, compare, step, next business day | ranges of durations and tables | two ways to one date agree |
| packages, macros | scopes; macro table | import, package; defmac | code that runs while code is compiled | hygiene of the generated code |
| channels (`channels.go`) | Go channels | make, send, receive | a send with no receiver | |
| types and Go interface, encodings, strings, files, printing | registries, none | conversions | reflection, input and output | |

How they interact: the prompt asks the parser, which asks the lexer and comes
back for more lines; the infix parser and the compiler turn its expressions
into what the machine runs; the machine's calls make scopes and closures;
closures decide what compiled code means; a range loop is compiled code that
calls hash builtins; the equality of keys is `Compare`, and a symbol's place in
that order is its number in the symbol table; and builtins such as `eval`,
`source`, `map` and `force` re-enter the machine from Go. Nothing runs in
parallel in one `Zlisp` except the parser, which used to be a goroutine and is
an iterator now. What interleaves is a callback, a body or the next line of
input with the operation that is under way around it.

## 2. Modules

| module | models | built on |
|---|---|---|
| `HashDict` | what a hash promises: a finite map | |
| `SexpHash` | `hashutils.go`: buckets, KeyOrder, NumKeys | refines `HashDict` |
| `HashRange` | a loop over a hash and a body that changes it | `SexpHash` |
| `HashProofs` | TLAPS proofs about `SexpHash` and `HashRange` | `HashRange`, `Lemmas` |
| `HashAlias` | hashes as slices over arrays, `CloneFrom` | each call refines `SexpHash`'s |
| `HashAliasProofs` | TLAPS proofs about `HashAlias` | `HashAlias`, `Lemmas` |
| `Generator` | `generator.go`: from forms to instructions | |
| `Vm` | `Run`, the instructions, calls, Go callbacks, errors, panics | runs `Generator`'s code |
| `VmCode` | what the machine relies on in the code it runs | `Vm` |
| `VmInvariant` | TLAPS: the machine's inductive invariant, kept by each instruction | `VmCode`, `Lemmas` |
| `VmProofs` | TLAPS: the same for calls and callbacks, and the theorems about `Vm` | `VmInvariant` |
| `Scopes` | `linearstack`, closings, `LexicalLookupSymbol`, `Force` | |
| `ScopesProofs` | TLAPS proofs about `Scopes` | `Scopes`, `Lemmas` |
| `Lexer` | `LexNextRune` and its states, `Reset` | |
| `Reader` | the parser coroutine and its drivers: prompt, LoadStream, `read` | |
| `Pratt` | `InfixExpandArray`, `Expression` and the munchers | |
| `Symbols` | the symbol table of environments that share it | |
| `SymbolsProofs` | TLAPS proofs about `Symbols` | `Symbols` |
| `Numbers` | `Compare`, the integer operators, `+ - * /` | |
| `Dates` | dates, differences, business days | |
| `Builtins` | builtins called one after another | `Symbols`, `Numbers`, `Dates` |
| `Arrays` | arrays as slices over cells | |
| `ArraysProofs` | TLAPS proofs about `Arrays` | `Arrays`, `Lemmas` |
| `Lemmas` | facts of sequences and numbers that several proofs cite | |
| `MC*` | constants for TLC | |

### Hash

`SexpHash` has the struct's fields: `ok` and `Map` are the Go map (which codes
have an entry, and each entry's bucket), `KeyOrder`, `NumKeys`. `HashSet` and
`HashDelete` are whole calls, with the type check first and the early count.
Keys are abstract: `HashCode`, `Elem` (what a one-element array opens to) and
`Equal` (`Compare` gives 0 without an error) are constants about which
`KeyAssumption` says only what `hashutils.go` relies on. `MsgpackRoundTrip` is
a program that encodes a hash and goes on with the decoded one (`jsonmsgp.go`).
The way leads through JSON text, so constants say what comes back: `Name` of a
key is the symbol its text becomes, `Reread` of a value the value its text becomes (a symbol
comes back as a string, 3.0 as 3), and what is not in their domains has text that is no
JSON. The step is enabled when the encoder succeeds (`Encodable`): a listed key
that was deleted makes it panic, the builtin fails, and nothing changes. The decoder sets
the members by name (`Rank`) and stops silently at the first one the record's type
refuses (`Kept`), whereas KeyOrder lists them all. The refinement mapping to
`HashDict` looks every key up; `Transcribe` is the round trip there.

`HashRange` adds a loop. Kinds "for" (the Pratt parser's lowering) and "range"
(the macro) ask for pairs with different bounds, so their refusals differ.
`HashAlias` opens up the slices: `AppendTo` is Go's `append`, in place while
there is capacity, and `ShiftOut` is the `append(s[0:i], s[i+1:]...)` of a
delete, which moves cells inside an array that a clone may share.

### Compiler and machine

`Generator` is the compiler as a recursive operator from forms (records) to
sequences of instructions, error paths included. `Vm` executes them. `go` is
the Go call stack: each activation of `Run`, `CallExprInstr`,
`CallUserFunction`, `Apply`, `EvalFunction` and `SourceExpressions` in
progress is a frame with what the Go function has in local variables
(`vmControlState`); `ret` is how the activation that just ended ended. One
action is one instruction, or one step of a Go function between two
activations. Values are not told apart, so a branch goes either way and a
symbol may turn out unbound or a binding be refused; but a stack slot is a
value, a marker, a loop mark, or the nil that `TruncateToSize` puts there when
it grows a stack. `MCVm` writes the programs as forms, compiles them with
`Generator`, says which builtins call back what, and instantiates `Vm` with the
result: one compiled function stands for all its calls.

`VmCode` says which code the machine runs as it should. `Reached[n]` is a set of
places in the code of `n`: an instruction, and what the code itself has put on
the stacks of operands and scopes by then. `CodeAssumption` asks that the set
holds the start and with each place those one instruction further
(`Successors`), and that the instruction at each place finds what it takes
(`Fed`): a `break` as many scopes as it leaves, a jump that replaces a call
nothing but arguments, the end of the code a result and no scope. `MCVm` computes these sets
for what `Generator` emits, so TLC's evaluation of the assumption
checks the compiler: seven of the eight programs and all functions pass
(`ProgramsProper`). The eighth, `build`, is there to make instructions fail that
otherwise never do (see below).

### Scopes

`Scopes` fixes no program: any code that the syntax allows may run, within the
bounds. It holds the heap of scopes and function objects, `linear`
(linearstack, by reference), the calls in progress and unevaluated arguments.
`LexicalLookup` has the three stages of `LexicalLookupSymbol`: the scopes of
the running function, the closings along the chain of parents, the captures of
the object the compiler made. Besides, each scope records its `outer` scope
in the source, each function its `home`, and `here` is where the running code
stands: history that the code does not have, with which its lookups are compared.

### Lexer and reader

`Lexer` is the state machine over runes: a state, the buffer, the runes it
looks back at, and the tokens made so far. A rune stands for its class (what
the code's switch and patterns tell apart). `MCLexer` lists lexemes with
their spellings and what may stand between two of them; a run writes lexemes, may
break an input off after any rune, resets, and compares what was read.

`Reader` starts where the lexer ends: input is lines of tokens. Where the lexer is
in the middle of one, the last token of the text says so (`Unfinished`): `"open"` is a
double quote without its second, which swallows what is typed until that
comes (`LexNextRune`), and `"cut"` an atom at the end of a text without a
newline. PeekNextToken has neither of them to give. The parser is
one coroutine (`ParsingIter`); its Go stack is the sequence `stack` of the
parse functions in progress with their local variables. `Parse` is one step of the
innermost one: it takes tokens, calls, returns, fails, or fills
`sendMe` and yields because there are none. The drivers differ in what they do
with a yield: the prompt types another line or leaves the loop, `ParseTokens` pulls and
may be called again after more input, `read` looks at the first reply only.
`typed` is history: the lines given since the last reset, with which what is
delivered is compared.

### Infix

`Pratt` has the struct's fields in `p` (`NextToken`, `AccumTree`, `CnodeStack`, the position)
and the activations of `Expression` and the munchers on `stack`, one action for
each stretch of code between two calls, because the fields are shared by all
activations. `Spelling` writes a tree down again, and `MCPratt` feeds it all
short streams and a list of longer ones. `careless` is history: an operand was
missing, or a left side was dropped.

### Builtins and arrays

`Symbols` has the shared maps and each environment's own counter; `crossed`
is history: a name was interned that another environment's counter may come upon.
`Numbers` and `Dates` are pure: integers have `W` bits, a char `R`, floats a
mantissa of `P` bits, and all of it wraps and rounds as Go's types do; a date
is a year, a month and a day. `Builtins` composes the three: a step is a call of a
builtin on values taken from small sets, or an environment making
symbols, and a symbol compares by the number the table gave it. `Arrays` has a
memory of backing arrays and, for each variable, a slice of one (`at`, `off`,
`len`), so that `append` writes in place exactly when Go's does.

## 3. Runs

`CHECK_DEADLOCK FALSE` stands in the runs of the hash, the machine, the scopes,
the lexer and the reader: bounds stop the growing structures, a loop that ended has nothing
left to do, a machine whose host got a panic is dead, and input ends. `infix`,
`builtins` and `arrays` check deadlock. `SYMMETRY` is used in `builtins` (names
of symbols) and `arrays` (elements), whose properties treat all of them alike.
The last column is the number of distinct states.

| run | asks | bounds | states |
|---|---|---|---|
| `hash` | do Map, KeyOrder and NumKeys stay consistent and implement a dictionary? | 7 keys of 3 codes, an int and a float that reads back as it, a record type of two fields, KeyOrder 3, NumKeys down to -1 | 7 742 |
| `range` | is a loop over an undisturbed or growing hash exact, does it never panic, does it end? | an integer, a symbol, `[x]`, `[[x]]` and the symbol `[x]` reads back as for keys, one value, KeyOrder 4 | 427 341 |
| `alias` | does each of two hashes do as SexpHash says, how far does sharing reach? | 3 keys of 2 codes, KeyOrder 3, 6 arrays | 149 803 |
| `vm` | do calls, callbacks, eval, source, loops, tail calls and failures leave the stacks right? | 8 programs, MaxGo 10, MaxAddr 8, MaxMain 2 | 14 491 |
| `scopes` | do lookups find what the source binds, and never a caller's variable? | 1 symbol, 4 scopes, 4 functions, 1 lazy argument, 4 calls | 884 389 |
| `lexer` | is what is written what is read, also after an input that broke off? | 2 lexemes | 15 878 |
| `reader` | is each expression delivered once, more asked for only when something is open, every line answered? | 3 lines | 270 874 |
| `infix` | do trees spell their streams and nest as the powers say? | all streams of 4 tokens, longer ones listed | 364 710 |
| `builtins` | is a number one name's, a generated symbol new, Compare an order, arithmetic modular, the calendar consistent? | 2 environments, 4 numbers; W = 4, R = 3, P = 2, S = 1; years 1970 to 2199 | 20 933 |
| `arrays` | do reads stay inside, does concat join, does an extension write only behind its end? | 2 variables, 2 arrays of up to 4 cells | 45 712 |
| `vm_tail`, `reader_panic` (violations) | see below | as `vm` and `reader` | |

What the passing runs show. `hash`: buckets hold each key once and in the
bucket of its code whatever alias wrote it (`BucketsByCode`, `OnePairPerKey`),
every pair is listed (`OrderCoversLive`), the count errs downwards only
(`CountNotAbove`), a record never holds what its type refuses
(`RecordWellTyped`), when the count is right HashPairi cannot fail
(`PairiTotal`), and it all is a dictionary (`ImplementsDict`): a set puts, a delete
removes, and what a msgpack round trip gives back holds nothing but copies, and all of them unless
the record's type refuses one. `range`: without a delete or a decoding that lost something the loop yields the listed keys once
and in order (`PristineLoopExact`), a Go-style loop is refused politely and
never by the internal panic (`ForNeverInternal`), and it ends even when every
turn inserts (`LoopTerminates`). `alias`: slices are sound (`SlicesInBounds`),
what a call does to its own hash is SexpHash's even while arrays are shared, and a call on
another hash is nothing to it while none are (`AliasFreeIsSexpHash`), and a change disturbs one hash
code only (`DisturbanceConfined`).
`vm`: between evaluations nothing is left behind, failed ones included
(`QuiescentClean`); no code eats into what its Go caller has on the stacks
(`CallersIntact`); a function returns with one operand and its caller's scopes
(`ReturnBalanced`); a jump replaces a call only when nothing is pending
(`TailPosition`); a function whose `(return)` yields nothing makes
`eval` panic, `CallUserFunction` recovers, and the host gets an
error (`NoCrash`). `scopes`: `LookupIsLexical` for ordinary code and forced
arguments, `LookupStaysInside` for eval and builtins too, and definitions land
in the scope of the running code (`BindsHere`). `lexer`: the tokens are those the lexemes stand
for, except a negative number at the start after an input that broke off (`ReadsBack`).
`reader`: what is delivered is what was typed (`DeliversWhatWasTyped`); the
parser asks for more exactly while a bracket, a backtick string or a comment is open, or behind a
sign that may be that of infinity (`AsksOnlyWhenOpen`), double quotes excepted, see below, and refuses only what is malformed (`RefusesWithReason`); it panics
only in the abandoned and look-ahead cases listed below (`PanicsOnlyWhenAbandoned`), and each line gets an answer
(`AnswersEveryLine`). `infix`: `SpellsTheStream` for every stream the parser
accepts whole, `ClimbsPrecedence` for every tree of operators. `builtins`: `TablesInverse` and `GensymFresh` for the symbol
table, `CompareIsOrder` outside the exceptions below, `IntegersAgree` with arithmetic
modulo 2^W, `DatesAgree` for parsing, printing, comparing and counting days, and
`BusinessDays` for the two directions of the search. `arrays`:
`ReadsElements`, `ConcatJoins`, `WritesBeyondEnds`.

What the violations show, each against a sentence of the repository:

* `vm_tail`: let values are compiled in tail position (generator.go:505), so a self call there
  abandons the rest of the let; generator.go:34 says what Tail means.
* `reader_panic`: behind `{` and a string the parser throws the lexer's error away
  (parser.go:323) and indexes the token that is not there, where parser.go:518
  promises the first error.

### Other observations

Properties are stated so that they hold; these are the corners they had to
leave out, or that modelling made visible.

* Hash. `HashDelete` decrements NumKeys before it looks for the key
  (hashutils.go:411), line 429 asserts that the counts agree. After a delete HashPairi may yield an
  entry twice (README.md:84). A key array that holds NaN takes the loop to
  the internal panic of the range macro, and so does `[[x]]`: it is listed as `[x]`, which a lookup opens
  once more. A record decoded from msgpack or JSON silently lacks the fields from the first on that its type refuses, for
MakeHash's error is overwritten by SetHashKeyOrder's (jsonmsgp.go:342-344), and 3.0 in a
float field is such a value, since it is written as 3; KeyOrder lists the missing
fields, so that encoding the copy panics (jsonmsgp.go:124-133), as it does for any hash from which
a key was deleted, until it is set again. Two keys with one text, such as 34 and a symbol decoded
from it, become one. `CloneFrom` shares arrays, so a change to a clone can show in the
  original.
* Compiler and machine. An element assignment leaves nothing, GenerateBegin still pops
  after it (generator.go:71-75): the caller loses an operand. Predicates of cond and
  operands of and/or are compiled as if no scope were open (generator.go:395), so a break
  among them leaks a scope (compare recent_test.go:213). A tail call does not check arity; `GeneratePackage` does not
  count its scope; `(and)` without arguments panics while compiling; `source`
  of several files leaves an operand for each but the last. Turns of a self
  tail call share their scope. `(and (break) x)` outside a loop drops the error of its
  operand and emits a `dup` that copies what lies below, or fails (program `build`).
* Code without a value. A function that ends in `(return)` leaves its caller nothing
  (generator.go:1570). As a statement that does no harm to a GenerateBegin that pops, for PopInstr
  forgives an empty stack; as an argument it does: the Run of the argument
  takes the operand its caller pushed before for its result (environment.go:915), EvalCallExpression truncates the stack
  to the larger size it had (environment.go:342-383, stack.go:192) and so adds a nil slot. `(+ 1 (v))` then is
  a Go panic that reaches the host or, below a builtin, an error. Only `eval` notices. `Arguments` and
  `Callbacks` of `VmCode` keep such code out of arguments, files and callbacks; `eval` runs it.
* Scopes. Inside a closure, `eval`, `source`, `func` and `defined?` do not see
  captured variables (environment.go:1020, README.md:122).
* Lexer. `Reset` does not clear the ring of last runes: after an input that
  broke off, `-1` may be read as `-` and `1` (lexer_test.go:247). It does not clear the queue of streams either. `/***/` and `**/` do not end a block comment. `-.1` is `-` and
  `.1`; `^-1` and `%-1` read the minus apart; `~(` leaves the parenthesis in
  the buffer; a colon behind `true`, a float or a dotted symbol is lost; lines
  are counted outside strings and comments only.
* Reader. A double quote left open outside brackets is no reason to ask for more: the lexer has no token yet
(lexer.go:532), PeekNextToken says the input has ended (lexer.go:839-846), and the parser ends
without an error or a question (parser.go:465, :571). The next line of the prompt
resets the lexer (repl.go:102), so `"abc` is dropped without a word. So is an
atom at the very end of a text that `read` or a load gets without a newline
(functions.go:665, environment.go:699). Ctrl-d in a continuation line makes the iteration over the parser
  panic (repl.go:128-130, :171), and so does stopping a suspended parse of `{"s"`
  or of a backquoted key. A comment right behind `{` is discarded in place of the `}` that
  follows it (parser.go:319), and a block comment of several lines there makes the hash an infix
  block. The backslash, tail and parenthesis of a dotted pair must stand on the line
  already read, and in a hash the pair closes with `)`. A quote at the end of a line
  wraps the end mark. After an error ParseTokens called again returns
  nothing. `(read "1 (")` panics and is recovered.
* Infix. At the end of the stream Expression sees its last token again, so `{a +}` is
  `(+ a +)`; `not` where an operator is expected drops what stood left of it; `-` has no
  prefix form; `and` and `or` have one power and lean right; break and continue take any
  symbol that follows as a label; `x + y++` is `(++ (+ x y))`.
* Symbols. When a duplicated environment (generator.go:372, :653, builders.go:770)
  has generated a symbol, the original's GenSymbol may return the same one
  and does not advance (compare tests/macros.zy:37); prefixes that end in digits can collide.
  The generated labels of nested loops (generator.go:942, vm.go:705) may coincide that way.
* Numbers. The difference of the least integer and 0 wraps, so they compare the wrong way round.
  An integer or a char equals NaN, NaN differs from it. Different
  unsigned integers always compare as greater. Two hashes of one type are always equal. A list
  that is a prefix of another is less, the reverse is an error. Rounding an
  integer to compare it with a float breaks transitivity. Different times compare as
  less, both ways.
* Dates. 02/31 is accepted and moved on; IsBusinessDay and DayDifference panic on
  days that do not exist; the next business day panics from 2199/12/31 on; DaysBetween
  saturates at 106751 days and DayDifference wraps after 2262, while dates to 3000 are
  accepted.
* Arrays. `(append c 5)` after `(append c 4)` overwrites the first result; append
  to a slice overwrites the array that was sliced; `(concat u w1 w2)` with `w2` behind
  `u` in memory reads cells it has just written, and a concat that fails has written already; a slice
  may reach beyond the length, up to the capacity, and shows nil cells.

### Bounds

`MaxOrder = 3` and `MaxLoss = 1` let three codes hold collisions and a deleted key come
back and leave the count below the pairs; `range` needs 4 to grow under the loop.
`MaxArrays` lets each slice outgrow
an array once. `MaxGo` and `MaxAddr` are above the deepest nesting of the
programs except for unbounded recursion, which they cut. `MaxMain = 2` limits how
much code the host evaluates in sequence: the machine is back in its
first state between evaluations (that is QuiescentClean), so two suffice.
One symbol is enough for `Scopes` (binding one never affects the search for
another) and so is `MaxBound = 2` scopes that bind it: a wrong lookup shows with
the scope found and the scope meant alone. Four scopes and two functions beside main
and builtins make a closure in a closure, an argument or eval inside either,
and a closure made by a forced argument. 5 scopes with 3 calls (8.4 million
states) and 5 functions without lazy arguments (5.6 million) were checked
once, with the same outcome, and take longer than a run should.
The lexer looks back over a few runes, so two lexemes with what stands between
them meet every pair of states. Three lines let a parse be opened, continued and abandoned or closed,
with what remains of it met by the third. Four infix tokens are two
operators with an operand between them and one operand more; conditionals and loops need more and are listed.
With `W = 4` all integers are compared with all, wrapping included, and a 2-bit
mantissa makes rounding happen among them. All years of the Easter table are visited.
Two variables and two arrays suffice for sharing, and `MaxCells = 4` for an append with and without
spare capacity.

### Fairness

There are two liveness properties. `LoopTerminates` assumes weak fairness of the
loop's own steps (`LoopTurn`, `LoopEnd`): there is one thread, the body is a
finite piece of code, and when it ends the loop's next instruction is the only
one that can run. `AnswersEveryLine` assumes weak fairness of `Parse`: Go runs
the iterator's function until it yields or returns. Neither the user nor the
drivers get any, and neither do `Vm` and `Scopes`: programs need not end.

## 4. Proofs

TLC checks small instances; the theorems hold for every value of the constants,
so for any number of keys, hashes, scopes, functions and calls. A theorem that
bears the name of a run's property states that property as it is in the module.

| module | theorems | properties of runs |
|---|---|---|
| `HashProofs` | `Invariance`, `TypeCorrect`, `BucketsStaySorted`, `KeysAreUnique`, `OrderIsComplete`, `CountIsLowerBound`, `RecordsStayTyped`, `PairiIsTotal`, `HashImplementsDict` | all eight of `hash` |
| `HashProofs` | `RangeInvariance`, `LoopsAreExact`, `ForLoopsNeverPanic` | `PristineLoopExact`, `ForNeverInternal` |
| `HashAliasProofs` | `Invariance`, `SlicesInBoundsAlways`, `DisturbanceConfinedAlways`, `ImplementsSexpHash` | all three of `alias` |
| `ScopesProofs` | `StacksStayGood`, `BindsHereAlways`, `LookupIsLexicalAlways`, `CapturesStayInside`, `LookupStaysInsideAlways` | all three of `scopes` |
| `VmProofs` | `Inductive`, `VmTypes`, `VmClean`, `VmCallersIntact`, `VmReturnBalanced`, `VmTailPosition`, `VmNoCrash`, `VmNeverUnderflows` | all six of `vm` |
| `ArraysProofs` | `Invariance`, `ReadsElementsAlways`, `ConcatJoinsAlways`, `WritesBeyondEndsAlways` | all three of `arrays` |
| `SymbolsProofs` | `SymbolsInductive`, `SymbolsTypes`, `SymbolsInverse`, `SymbolsFresh` | `TablesInverse`, `GensymFresh` of `builtins` |

What is assumed is named in the module that declares the constants, and TLC evaluates it
in every run. `KeyAssumption`: among keys of one code equality is symmetric
and transitive, not necessarily reflexive (an array that holds NaN differs from
itself), and opening an array gives a key. `JsonAssumption`: what keys are read back as are
symbols, each equal to itself and with a code of its own, its number (`TablesInverse`). `ValueAssumption` and `AliasAssumption`:
the sentinel for "no value" is neither a key nor a value that a program stores. `ArraysAssumption`:
nil is not an element. `NamesAssumption` and `CodeAssumption`: the code is well-formed,
as told above for `VmCode`. The theorems about the machine assume besides that the host evaluates such code only
(`ProperPrograms`). The rest says that bounds are numbers.

**The hash.** `IndInv` conjoins `TypeOK`, `BucketsByCode`, `OnePairPerKey`,
`OrderCoversLive`, `CountNotAbove` and `RecordWellTyped`, and none of them is
inductive alone. Uniqueness needs the codes: HashSet searches one bucket only.
The count needs uniqueness: one delete takes one pair away. The refinement
of `HashDict` needs both: after a delete the key must be gone from its bucket, and no other
bucket may hold it. The argument goes bucket by bucket: `HitsUnique` says that a key
has at most one hit in a good bucket, `OverwriteInv` and `InsertInv` are the two
branches of HashSet, `DeleteKeeps` relates the pairs that stay to those there
were. `DecodedBuckets` says what decoding makes: a bucket for each member kept, as many as are counted; that
none is lost without a refusal needs `OrderCoversLive`, since the encoder writes what is listed. `PairiIsTotal` counts: HashPairi skips listed keys without a pair, and if it ran
out, there would be fewer pairs than the count says.

**Loops.** `RangeInv` adds that, until something is deleted or lost in decoding, no key is listed
twice and list, pairs and count agree (`Pristine`); that the keys live at the start are among the first
`n` listed (`Covered`); and that what was yielded is the list up to `i`. A body may insert,
so the list grows under the loop: it grows at its end, behind `n`.
A decoded hash that counts as many pairs as it lists is whole again (`DecodedPristine`, by
counting members). With deletes only the weaker `ForNeverInternal` survives: `__rangePair` compares
position and count itself, and `PairiTotal` does the rest.

**Shared arrays.** The slices of one hash can be changed by calls on another. What
makes that harmless beyond one hash code is that an array never changes its role (`Roles`): it
serves the buckets of one code, in whatever hashes, or lists of keys.
CloneFrom copies slices from a role to the same role, and append that does not fit takes
an array nobody has seen. Besides, a pair once stored is never unset, only
overwritten or shifted, hence `SlicesInBounds`. `ImplementsSexpHash` relates every
`HashSet` and `HashDelete` of one arbitrary hash to SexpHash's, shared or not.

**Scopes.** The invariant `Inv` describes stacks: each stack that is current, captured
by a function or an unevaluated argument, or waiting for a call to end, is a
chain outward by the source wherever no function's scope stands (`Stack`), and the
code that runs on it sits at a known place of it (`Sits`): what lies above are scopes of its own,
what it sits on is where it stands in the source or a scope made for a call of it. Scopes and functions
are only added, and old ones keep their places (`Grown*`), so what was true of a stack
when it was captured stays true. Calls in progress are linked by what each may find again of its caller's
stack (`Link`). `BindsHere` is a conjunct of it. `LookupIsLexical` needs two inductions over what is there at
one moment: down the chain that a search goes through, and along the parents of
functions, whose numbers decrease; at each parent the search goes on where the
source would. `LookupStaysInside` needs one more fact, because the last
stage of a lookup reads what the compiler's object captured: `BornGood`,
that such captures are scopes around the function, unless an argument was forced when it was made.

**The machine.** The invariant `IInv` has three cases. As long as nothing has failed (`InOrder`),
every activation of code stands at a place of its code: what lies above its base on the
operands and scopes is what the place says (`Stands`). That holds of the code that
runs, of each caller on the address stack, which waits for the results of what it
called (`Chain`), and of the code that waits below each Go activation (`Recorded`).
The bases are ordered, so each of them has its own part of the stacks: a caller's entry on the address
stack records the sizes, and a Go activation captured them. That is what makes
the proof of one instruction local: it changes the part above its own base, `Advance`
moves the code on to a successor of its place, and all below is kept (`WaitingKept`).
ReturnInstr takes the last entry off the address stack, whose code then
stands where it waited. When something fails, none of this is left: an instruction may fail with the
operands half taken. What remains while an error travels down (`Intact`) are the sizes: no stack is
shorter than any activation that will restore it captured, so
restoring cuts, never grows, and the activation that goes on finds its stacks as they were.
A panic is a case of its own: proper code panics only
inside a builtin or when `eval` finds an operand missing, and the builtin right below recovers.
No property of the run is inductive alone. `QuiescentClean` needs the places, because the host's `Run`
goes on wherever `main` was left; `CallersIntact` needs
the order of bases; `ReturnBalanced` needs the history that entries carry. TLC
checked `IInv` on the run's programs, `build` excepted, before it was proved. The proofs cover any
program of proper code, any depth of calls and of re-entered Runs, callbacks of builtins in any order, and a failure
anywhere. `VmNeverUnderflows` says what the run cannot ask, because of `build`: in proper code no instruction
pops an empty stack or reads a nil slot, so the errors of `Stack.Pop` are never seen.

**Arrays.** `IndInv` says that windows lie in their arrays and, as long as no
slice was taken beyond a length, show elements only. append and concat
are one notion (`Extends`): the cells shown and then the new ones,
everything up to the end unchanged. `ConcatJoins` follows for any sharing but the one that is
excluded, `WritesBeyondEnds` from the places at which an extension writes.

**Symbols.** `TablesInverse` is inductive with the types alone, because MakeSymbol skips the
numbers in use. `GensymFresh` is not inductive: it speaks of the next name
each counter spells, and a counter moves on to names of which it says nothing.
`NamesBelow` does: until environments have crossed,
every generated name in the table has a number below every counter. Duplicating
copies a counter that has the property, and MakeSymbol never moves one back.

**Numbers.** The library's induction theorems take an operator as a parameter, which the
provers cannot instantiate. `Lemmas` gets what these proofs need from facts
without one: a nonempty set of numbers has a least element (`Least`), so a
set that holds 0 and with each number the next holds all (`Induction`); a bounded one has a
greatest (`Greatest`); and a function defined by steps down exists and obeys its equations (`Descent`), which is how
`Outward`, `Binder` and `ParentChain` of `Scopes` are reasoned about.

Only model-checked: that `Generator` emits proper code, which TLC evaluates on the functions and
programs of `MCVm` and which for all forms would be an induction over forms; the lexer (`ReadsBack`); the reader and infix;
`CompareIsOrder`, `IntegersAgree`, `DatesAgree` and `BusinessDays`. Out of the provers'
reach are the two liveness properties and the modules that declare recursive operators or use one that does (`Generator`,
`Reader`, `Pratt`, `Numbers`, `Builtins`).

## 5. Not modelled, and why

* `Vm`: values; hooks; macros, syntax quote, packages, multiple assignment;
  `Apply` called by the host; several files in one `source`. Callees are
  resolved statically; functions are defined at top level. `GenerateDefElement`
  is modelled, but no program contains it, for the reason given above.
* `Scopes`: dotted names and packages; sigils; one scope serves all
  turns of a self tail call, as in the code, and the turns are not told apart.
* `SexpHash`: methods, Go-struct shadows, dot paths, printing; in the round trip, keys that spell
  `Atype` or `zKeyOrder`, which the encoding itself uses.
* `Lexer`: hexadecimal, octal, binary, unsigned and complex atoms, which differ in the pattern
  they match only; line numbers.
* `Reader`: a character literal left open, which the lexer treats as it does a double quote, an operator or a line
  comment cut off by the end of a text without a newline; the line editor, its history and the prompt's dot commands.
* `Numbers`: the power operator, whose rounding is `math.Pow`'s; raw bytes,
  selectors and reflected Go values in comparisons.
* `Dates`: time zones, time stamps and durations, which are the Go library's.
* `Arrays`: selectors over arrays of arrays.
* Macros and syntax quote run a compiled function from the compiler, which is
  the `Apply` of `Vm`, and produce data no property tells apart. The type
  registry and the builders fill tables when the program starts; only the
  refusals of a record's type matter, and `SexpHash` has them. Lists are never
  changed in place. A channel's send blocks the one thread there is.
* Whole components, listed in `PROJECT.json` with reasons: reflection over Go
  values, encodings, files, printing and the thin wrappers of Go's library are
  input and output or another system's semantics.

## 6. State and plan

Done: hash, loops, aliasing; compiler and machine; scopes and lazy arguments;
lexer, parser and prompt; infix; symbol table; comparison, arithmetic, dates;
arrays. Proved: what the runs of the hash, loops, aliasing, scopes and arrays
check, what that of the machine checks for all proper code, and the symbol table. Left, in the order of their worth:

1. A form of `Generator` without recursive operators, to prove that the code of every form is
   proper, but for the corners named under *Compiler and machine*.
2. Packages and imports as scopes kept under a name, in `Scopes`; the turns of a self tail call.
3. Nested selectors in `Arrays`.
