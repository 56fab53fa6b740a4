------------------------------ MODULE Symbols -------------------------------
(***************************************************************************)
(* The symbol table of zygo/environment.go.  Environments made by Clone    *)
(* and Duplicate (to expand a macro, to check for an expected error, to    *)
(* source a file) share the two maps of the table with the environment     *)
(* they were made from, but each goes on with its own copy of nextsymbol,  *)
(* the number it tries next.  GenSymbol makes names out of that number.    *)
(***************************************************************************)
EXTENDS Integers, Functions

CONSTANTS
    Env, Root,  \* environments, and the one the host made
    Plain,      \* names that no prefix and number spell
    Prefix,     \* prefixes given to GenSymbol
    First,      \* nextsymbol when the builtins have been interned
    MaxNumber   \* bound: the highest number given out

ASSUME SymbolsAssumption ==
    /\ Root \in Env
    /\ First \in Nat /\ MaxNumber \in Nat
    /\ Plain \cap (Prefix \X Nat) = {}

VARIABLES
    symtable,     \* name -> number
    revsymtable,  \* number -> name
    nextsymbol,   \* environment -> number, for the environments there are
    crossed       \* history: a name was interned that a counter may come upon

symbolVars == <<symtable, revsymtable, nextsymbol, crossed>>

Generated == Prefix \X Nat

Name == Plain \cup Generated

Put(f, x, v) == [y \in DOMAIN f \cup {x} |-> IF y = x THEN v ELSE f[y]]

-----------------------------------------------------------------------------
\* Mutant of Free: the counter is taken as it is.
FreeAsIs(e) == {nextsymbol[e]}

\* The number that MakeSymbol gives out next: it skips those in use.
Free(e) == {n \in nextsymbol[e]..MaxNumber :
              /\ n \notin DOMAIN revsymtable
              /\ \A m \in nextsymbol[e]..(n - 1) : m \in DOMAIN revsymtable}

\* Mutant of MakeSymbol: the counter stays on the number given out.
MakeSymbolStays(e, name) ==
    \/ /\ name \in DOMAIN symtable
       /\ UNCHANGED <<symtable, revsymtable, nextsymbol>>
    \/ /\ name \notin DOMAIN symtable
       /\ \E n \in Free(e) :
            /\ symtable' = Put(symtable, name, n)
            /\ revsymtable' = Put(revsymtable, n, name)
            /\ nextsymbol' = [nextsymbol EXCEPT ![e] = n]

MakeSymbol(e, name) ==
    \/ /\ name \in DOMAIN symtable
       /\ UNCHANGED <<symtable, revsymtable, nextsymbol>>
    \/ /\ name \notin DOMAIN symtable
       /\ \E n \in Free(e) :
            /\ symtable' = Put(symtable, name, n)
            /\ revsymtable' = Put(revsymtable, n, name)
            /\ nextsymbol' = [nextsymbol EXCEPT ![e] = n + 1]

\* The lexer and the builtins intern what the program wrote.
Intern ==
    \E e \in DOMAIN nextsymbol :
    \E name \in Plain \cup (Prefix \X (First..MaxNumber)) :
        /\ MakeSymbol(e, name)
        /\ crossed' = (crossed \/ (name \in Generated \ DOMAIN symtable))

\* The number is taken before MakeSymbol skips the numbers in use.
GenSymbol(e, prefix) == MakeSymbol(e, <<prefix, nextsymbol[e]>>)

Gensym ==
    \E e \in DOMAIN nextsymbol : \E prefix \in Prefix :
        /\ GenSymbol(e, prefix)
        /\ crossed' = (crossed \/ DOMAIN nextsymbol # {e})

\* Clone and Duplicate: the maps are shared, the counter is copied.
Duplicate ==
    \E e \in DOMAIN nextsymbol : \E new \in Env \ DOMAIN nextsymbol :
        /\ nextsymbol' = Put(nextsymbol, new, nextsymbol[e])
        /\ UNCHANGED <<symtable, revsymtable, crossed>>

\* An environment made for one expansion or one file is dropped after it.
Drop ==
    \E e \in DOMAIN nextsymbol \ {Root} :
        /\ nextsymbol' = Restrict(nextsymbol, DOMAIN nextsymbol \ {e})
        /\ UNCHANGED <<symtable, revsymtable, crossed>>

SymbolsInit ==
    /\ symtable = [name \in {} |-> First]
    /\ revsymtable = [n \in {} |-> Root]
    /\ nextsymbol = [e \in {Root} |-> First]
    /\ crossed = FALSE

SymbolsNext == Intern \/ Gensym \/ Duplicate \/ Drop

SymbolsSpec == SymbolsInit /\ [][SymbolsNext]_symbolVars

-----------------------------------------------------------------------------
SymbolsTypeOK ==
    /\ DOMAIN symtable \subseteq Name
    /\ \A name \in DOMAIN symtable : symtable[name] \in Nat
    /\ DOMAIN revsymtable \subseteq Nat
    /\ DOMAIN nextsymbol \subseteq Env /\ Root \in DOMAIN nextsymbol
    /\ \A e \in DOMAIN nextsymbol : nextsymbol[e] \in Nat
    /\ crossed \in BOOLEAN

\* MakeSymbol gives no number to two names, whichever of the environments
\* with their stale counters interned them: the two maps are inverse.
TablesInverse ==
    /\ \A name \in DOMAIN symtable :
          symtable[name] \in DOMAIN revsymtable /\ revsymtable[symtable[name]] = name
    /\ \A n \in DOMAIN revsymtable :
          revsymtable[n] \in DOMAIN symtable /\ symtable[revsymtable[n]] = n

\* GenSymbol makes a symbol nobody has, until an environment that is not
\* alone generates one or a program writes such a name itself.
GensymFresh ==
    ~crossed => \A e \in DOMAIN nextsymbol : \A prefix \in Prefix :
                    <<prefix, nextsymbol[e]>> \notin DOMAIN symtable
=============================================================================
