--------------------------- MODULE SymbolsProofs ----------------------------
(***************************************************************************)
(* For every set of environments, names and prefixes, and whatever        *)
(* the bound on the numbers: the two maps of the symbol table stay inverse *)
(* to each other, and GenSymbol makes new symbols as long as the counters  *)
(* have nothing to come upon.                                              *)
(*                                                                         *)
(* GensymFresh is not inductive: that the name made of a counter is not in *)
(* the table says nothing about the name made of the next number.  The     *)
(* invariant that is, NamesBelow, says that every generated name in the    *)
(* table has a number below every counter.                                 *)
(***************************************************************************)
EXTENDS Symbols, TLAPS

NamesBelow ==
    ~crossed => \A e \in DOMAIN nextsymbol : \A name \in DOMAIN symtable \cap Generated :
                    name[2] < nextsymbol[e]

IndInv == SymbolsTypeOK /\ TablesInverse /\ NamesBelow

\* The two outcomes of MakeSymbol for a name, with what the tables and the
\* counters become.
LEMMA MakeSymbolCases ==
    ASSUME NEW e \in DOMAIN nextsymbol, NEW name \in Name,
           SymbolsTypeOK, MakeSymbol(e, name)
    PROVE  \/ /\ name \in DOMAIN symtable
              /\ UNCHANGED <<symtable, revsymtable, nextsymbol>>
           \/ \E n \in Nat :
                /\ name \notin DOMAIN symtable
                /\ n \notin DOMAIN revsymtable /\ n >= nextsymbol[e]
                /\ symtable' = Put(symtable, name, n)
                /\ revsymtable' = Put(revsymtable, n, name)
                /\ DOMAIN nextsymbol' = DOMAIN nextsymbol
                /\ nextsymbol'[e] = n + 1
                /\ \A d \in DOMAIN nextsymbol \ {e} : nextsymbol'[d] = nextsymbol[d]
<1>1. CASE name \in DOMAIN symtable
  BY <1>1 DEF MakeSymbol
<1>2. CASE name \notin DOMAIN symtable
  <2>1. PICK n \in Free(e) :
              /\ symtable' = Put(symtable, name, n)
              /\ revsymtable' = Put(revsymtable, n, name)
              /\ nextsymbol' = [nextsymbol EXCEPT ![e] = n + 1]
    BY <1>2 DEF MakeSymbol
  <2>2. nextsymbol[e] \in Nat /\ MaxNumber \in Nat
    BY SymbolsAssumption DEF SymbolsTypeOK
  <2>3. n \in Nat /\ n \notin DOMAIN revsymtable /\ n >= nextsymbol[e]
    BY <2>2 DEF Free
  <2> QED
    BY <1>2, <2>1, <2>3
<1> QED
  BY <1>1, <1>2

\* MakeSymbol keeps the types and leaves the two maps inverse.
LEMMA MakeSymbolKeepsTables ==
    ASSUME NEW e \in DOMAIN nextsymbol, NEW name \in Name,
           SymbolsTypeOK, TablesInverse, MakeSymbol(e, name), crossed' \in BOOLEAN
    PROVE  SymbolsTypeOK' /\ TablesInverse'
<1>1. CASE UNCHANGED <<symtable, revsymtable, nextsymbol>>
  BY <1>1 DEF SymbolsTypeOK, TablesInverse
<1>2. ASSUME NEW n \in Nat,
             name \notin DOMAIN symtable,
             n \notin DOMAIN revsymtable,
             symtable' = Put(symtable, name, n),
             revsymtable' = Put(revsymtable, n, name),
             DOMAIN nextsymbol' = DOMAIN nextsymbol,
             nextsymbol'[e] = n + 1,
             \A d \in DOMAIN nextsymbol \ {e} : nextsymbol'[d] = nextsymbol[d]
      PROVE  SymbolsTypeOK' /\ TablesInverse'
  <2>1. /\ DOMAIN symtable' = DOMAIN symtable \cup {name}
        /\ symtable'[name] = n
        /\ \A y \in DOMAIN symtable : symtable'[y] = symtable[y]
    BY <1>2 DEF Put
  <2>2. /\ DOMAIN revsymtable' = DOMAIN revsymtable \cup {n}
        /\ revsymtable'[n] = name
        /\ \A m \in DOMAIN revsymtable : revsymtable'[m] = revsymtable[m]
    BY <1>2 DEF Put
  <2>3. SymbolsTypeOK'
    <3>1. \A y \in DOMAIN symtable' : symtable'[y] \in Nat
      BY <2>1 DEF SymbolsTypeOK
    <3>2. \A d \in DOMAIN nextsymbol' : nextsymbol'[d] \in Nat
      BY <1>2 DEF SymbolsTypeOK
    <3> QED
      BY <1>2, <2>1, <2>2, <3>1, <3>2 DEF SymbolsTypeOK
  <2>4. \A y \in DOMAIN symtable' :
           symtable'[y] \in DOMAIN revsymtable' /\ revsymtable'[symtable'[y]] = y
    BY <2>1, <2>2 DEF TablesInverse
  <2>5. \A m \in DOMAIN revsymtable' :
           revsymtable'[m] \in DOMAIN symtable' /\ symtable'[revsymtable'[m]] = m
    BY <2>1, <2>2 DEF TablesInverse
  <2> QED
    BY <2>3, <2>4, <2>5 DEF TablesInverse
<1> QED
  BY <1>1, <1>2, MakeSymbolCases

\* The name that GenSymbol interns is one of the generated names.
LEMMA GensymNames ==
    ASSUME SymbolsTypeOK, NEW e \in DOMAIN nextsymbol, NEW prefix \in Prefix
    PROVE  <<prefix, nextsymbol[e]>> \in Generated
BY DEF SymbolsTypeOK, Generated

\* Initially there is no name, and every step keeps the invariant.
LEMMA IndInvInit == SymbolsInit => IndInv
<1> SUFFICES ASSUME SymbolsInit PROVE IndInv
  OBVIOUS
<1>1. DOMAIN symtable = {} /\ DOMAIN revsymtable = {}
  BY DEF SymbolsInit
<1>2. SymbolsTypeOK
  BY <1>1, SymbolsAssumption DEF SymbolsInit, SymbolsTypeOK
<1> QED
  BY <1>1, <1>2 DEF IndInv, TablesInverse, NamesBelow

\* A name that the program writes is harmless unless it is new and looks
\* like a generated one.
LEMMA InternKeeps == IndInv /\ Intern => IndInv'
<1> SUFFICES ASSUME IndInv, Intern PROVE IndInv'
  OBVIOUS
<1> USE DEF IndInv
<1>1. PICK e \in DOMAIN nextsymbol, name \in Plain \cup (Prefix \X (First..MaxNumber)) :
            /\ MakeSymbol(e, name)
            /\ crossed' = (crossed \/ (name \in Generated \ DOMAIN symtable))
  BY DEF Intern
<1>2. name \in Name
  BY SymbolsAssumption DEF Name, Generated
<1>3. crossed' \in BOOLEAN
  BY <1>1
<1>4. SymbolsTypeOK' /\ TablesInverse'
  BY <1>1, <1>2, <1>3, MakeSymbolKeepsTables
<1>5. NamesBelow'
  <2> SUFFICES ASSUME ~crossed',
                      NEW d \in DOMAIN nextsymbol',
                      NEW other \in DOMAIN symtable' \cap Generated
               PROVE  other[2] < nextsymbol'[d]
    BY DEF NamesBelow
  <2>1. ~crossed /\ (name \in Generated => name \in DOMAIN symtable)
    BY <1>1
  <2>2. CASE UNCHANGED <<symtable, revsymtable, nextsymbol>>
    BY <2>1, <2>2 DEF NamesBelow
  <2>3. ASSUME NEW n \in Nat,
               name \notin DOMAIN symtable, n >= nextsymbol[e],
               symtable' = Put(symtable, name, n),
               DOMAIN nextsymbol' = DOMAIN nextsymbol,
               nextsymbol'[e] = n + 1,
               \A x \in DOMAIN nextsymbol \ {e} : nextsymbol'[x] = nextsymbol[x]
        PROVE  other[2] < nextsymbol'[d]
    <3>1. other \in DOMAIN symtable
      BY <2>1, <2>3 DEF Put
    <3>2. other[2] < nextsymbol[d] /\ other[2] \in Nat /\ nextsymbol[d] \in Nat
      BY <2>1, <2>3, <3>1 DEF NamesBelow, SymbolsTypeOK, Generated
    <3>3. nextsymbol[e] \in Nat
      BY DEF SymbolsTypeOK
    <3> QED
      BY <2>3, <3>2, <3>3
  <2> QED
    BY <1>1, <1>2, <2>2, <2>3, MakeSymbolCases
<1> QED
  BY <1>4, <1>5

\* GenSymbol moves the counter of its environment past the number in the
\* name it made, and no other counter is there to be overtaken.
LEMMA GensymKeeps == IndInv /\ Gensym => IndInv'
<1> SUFFICES ASSUME IndInv, Gensym PROVE IndInv'
  OBVIOUS
<1> USE DEF IndInv
<1>1. PICK e \in DOMAIN nextsymbol, prefix \in Prefix :
            /\ MakeSymbol(e, <<prefix, nextsymbol[e]>>)
            /\ crossed' = (crossed \/ DOMAIN nextsymbol # {e})
  BY DEF Gensym, GenSymbol
<1> DEFINE name == <<prefix, nextsymbol[e]>>
<1>2. name \in Generated /\ name \in Name /\ name[2] = nextsymbol[e]
  BY GensymNames DEF Name
<1>3. crossed' \in BOOLEAN
  BY <1>1
<1> HIDE DEF name
<1>4. MakeSymbol(e, name)
  BY <1>1 DEF name
<1>5. SymbolsTypeOK' /\ TablesInverse'
  BY <1>2, <1>3, <1>4, MakeSymbolKeepsTables
<1>6. NamesBelow'
  <2> SUFFICES ASSUME ~crossed',
                      NEW d \in DOMAIN nextsymbol',
                      NEW other \in DOMAIN symtable' \cap Generated
               PROVE  other[2] < nextsymbol'[d]
    BY DEF NamesBelow
  <2>1. ~crossed /\ DOMAIN nextsymbol = {e}
    BY <1>1
  <2>2. CASE UNCHANGED <<symtable, revsymtable, nextsymbol>>
    BY <2>1, <2>2 DEF NamesBelow
  <2>3. ASSUME NEW n \in Nat,
               n >= nextsymbol[e],
               symtable' = Put(symtable, name, n),
               DOMAIN nextsymbol' = DOMAIN nextsymbol,
               nextsymbol'[e] = n + 1
        PROVE  other[2] < nextsymbol'[d]
    <3>1. d = e /\ nextsymbol[e] \in Nat
      BY <2>1, <2>3 DEF SymbolsTypeOK
    <3>2. CASE other = name
      BY <1>2, <2>3, <3>1, <3>2
    <3>3. CASE other # name
      <4>1. other \in DOMAIN symtable
        BY <2>3, <3>3 DEF Put
      <4>2. other[2] < nextsymbol[e] /\ other[2] \in Nat
        BY <2>1, <4>1 DEF NamesBelow, Generated
      <4> QED
        BY <2>3, <3>1, <4>2
    <3> QED
      BY <3>2, <3>3
  <2> QED
    BY <1>2, <1>4, <2>2, <2>3, MakeSymbolCases
<1> QED
  BY <1>5, <1>6

\* A duplicate starts with a counter that was already above every name.
LEMMA DuplicateKeeps == IndInv /\ Duplicate => IndInv'
<1> SUFFICES ASSUME IndInv, Duplicate PROVE IndInv'
  OBVIOUS
<1>1. PICK e \in DOMAIN nextsymbol, new \in Env \ DOMAIN nextsymbol :
            /\ nextsymbol' = Put(nextsymbol, new, nextsymbol[e])
            /\ UNCHANGED <<symtable, revsymtable, crossed>>
  BY DEF Duplicate
<1>2. /\ DOMAIN nextsymbol' = DOMAIN nextsymbol \cup {new}
      /\ nextsymbol'[new] = nextsymbol[e]
      /\ \A d \in DOMAIN nextsymbol : nextsymbol'[d] = nextsymbol[d]
  BY <1>1 DEF Put
<1>3. SymbolsTypeOK'
  BY <1>1, <1>2 DEF IndInv, SymbolsTypeOK
<1>4. TablesInverse'
  BY <1>1 DEF IndInv, TablesInverse
<1>5. NamesBelow'
  BY <1>1, <1>2 DEF IndInv, NamesBelow
<1> QED
  BY <1>3, <1>4, <1>5 DEF IndInv

\* Dropping an environment leaves the others as they are.
LEMMA DropKeeps == IndInv /\ Drop => IndInv'
<1> SUFFICES ASSUME IndInv, Drop PROVE IndInv'
  OBVIOUS
<1>1. PICK e \in DOMAIN nextsymbol \ {Root} :
            /\ nextsymbol' = Restrict(nextsymbol, DOMAIN nextsymbol \ {e})
            /\ UNCHANGED <<symtable, revsymtable, crossed>>
  BY DEF Drop
<1>2. /\ DOMAIN nextsymbol' = DOMAIN nextsymbol \ {e}
      /\ \A d \in DOMAIN nextsymbol' : nextsymbol'[d] = nextsymbol[d]
  BY <1>1 DEF Restrict
<1>3. SymbolsTypeOK'
  BY <1>1, <1>2 DEF IndInv, SymbolsTypeOK
<1>4. TablesInverse'
  BY <1>1 DEF IndInv, TablesInverse
<1>5. NamesBelow'
  BY <1>1, <1>2 DEF IndInv, NamesBelow
<1> QED
  BY <1>3, <1>4, <1>5 DEF IndInv

\* The invariant holds in every state.
THEOREM SymbolsInductive == SymbolsSpec => []IndInv
<1>1. IndInv /\ [SymbolsNext]_symbolVars => IndInv'
  <2> SUFFICES ASSUME IndInv, [SymbolsNext]_symbolVars PROVE IndInv'
    OBVIOUS
  <2>1. CASE UNCHANGED symbolVars
    BY <2>1 DEF symbolVars, IndInv, SymbolsTypeOK, TablesInverse, NamesBelow
  <2>2. CASE SymbolsNext
    BY <2>2, InternKeeps, GensymKeeps, DuplicateKeeps, DropKeeps DEF SymbolsNext
  <2> QED
    BY <2>1, <2>2
<1> QED
  BY <1>1, IndInvInit, PTL DEF SymbolsSpec

\* MakeSymbol and the copying of counters keep the types of the table.
THEOREM SymbolsTypes == SymbolsSpec => []SymbolsTypeOK
BY SymbolsInductive, PTL DEF IndInv

\* No number is ever given to two names, whichever environments with their
\* stale counters intern them and in whatever order.
THEOREM SymbolsInverse == SymbolsSpec => []TablesInverse
BY SymbolsInductive, PTL DEF IndInv

\* GenSymbol makes a symbol that nobody has, as long as no environment has
\* generated one while another was alive and no program has written one.
THEOREM SymbolsFresh == SymbolsSpec => []GensymFresh
<1>1. IndInv => GensymFresh
  <2> SUFFICES ASSUME IndInv, ~crossed,
                      NEW e \in DOMAIN nextsymbol, NEW prefix \in Prefix,
                      <<prefix, nextsymbol[e]>> \in DOMAIN symtable
               PROVE  FALSE
    BY DEF GensymFresh
  <2>1. nextsymbol[e] \in Nat
    BY DEF IndInv, SymbolsTypeOK
  <2>2. <<prefix, nextsymbol[e]>> \in Generated
    BY GensymNames DEF IndInv
  <2>3. nextsymbol[e] < nextsymbol[e]
    BY <2>2 DEF IndInv, NamesBelow
  <2> QED
    BY <2>1, <2>3
<1> QED
  BY <1>1, SymbolsInductive, PTL
=============================================================================
