--------------------------- MODULE LuaTableProofs ---------------------------
(***************************************************************************)
(* Proofs about tables, for all keys, hashes and sizes.  A table is well   *)
(* formed (TabInv) when the chains end, a node without a key is in none, a *)
(* key out of its main position is found from a key that is in it (Native, *)
(* Linked), no key is in both parts (Apart), and no node above lastfree is *)
(* free (Passed).                                                          *)
(*                                                                         *)
(* newkey keeps this in each of its cases, and gives one key a value       *)
(* without a change to the others; hence luaH_set and resize do, and a     *)
(* rehash leaves a free node because it has counted the keys.  A           *)
(* traversal has seen the keys up to the one it has reached, in the order  *)
(* of findindex (VisitInv), because an assignment to a key with a value    *)
(* leaves every key where it is.                                           *)
(*                                                                         *)
(* The recursive searches of the code end since their chains do, or since  *)
(* a number gets less.  What such a definition says then has one solution  *)
(* (Recursion, OneSolution), about which induction is a smallest           *)
(* counterexample.                                                         *)
(***************************************************************************)
EXTENDS LuaTable, WellFoundedInduction, FiniteSetTheorems, SequenceTheorems, TLAPS


Cells == Values \cup {NoValue}

AllKeys == 1 .. MAX_INT \cup Strings

\* Every chain ends.
Acyclic(node) ==
  \A S \in SUBSET DOMAIN node : S # {} => \E n \in S : node[n].next \notin S

NodeVectors(size) ==
  [1 .. size -> [key : Keys \cup {NoKey}, val : Cells, next : 0 .. size]]

TabType(tab) ==
  /\ DOMAIN tab = {"array", "node", "dummy", "lastfree"}
  /\ Len(tab.array) \in 0 .. MAXASIZE /\ tab.array \in [1 .. Len(tab.array) -> Cells]
  /\ tab.dummy \in BOOLEAN /\ tab.lastfree \in 0 .. sizenode(tab) + 1

\* A node without a key is in no chain.
Unused(node) ==
  \A n \in DOMAIN node : node[n].key = NoKey =>
    /\ node[n].val = NoValue /\ node[n].next = 0
    /\ \A m \in DOMAIN node : node[m].next # n

\* A key that has a node has a key of the same main position there.
Native(tab) ==
  \A n \in DOMAIN tab.node : tab.node[n].key # NoKey =>
    LET p == mainposition(tab, tab.node[n].key)
    IN tab.node[p].key # NoKey /\ mainposition(tab, tab.node[p].key) = p

\* and it is found from there.
Linked(tab) ==
  \A n \in DOMAIN tab.node : tab.node[n].key # NoKey => NodeOf(tab, tab.node[n].key) = n

Apart(tab) ==
  /\ \A n \in DOMAIN tab.node : tab.node[n].key \notin 1 .. Len(tab.array)
  /\ \A i \in DOMAIN tab.array : tab.array[i] # NoValue => i \in Numbers

\* getfreepos has passed only nodes with a key.
Passed(tab) ==
  IF tab.dummy THEN sizenode(tab) = 1 /\ tab.node[1].key = NoKey /\ tab.lastfree = 0
  ELSE \A n \in DOMAIN tab.node : n >= tab.lastfree => tab.node[n].key # NoKey

Hashed(tab) ==
  /\ sizenode(tab) \in Powers /\ tab.node \in NodeVectors(sizenode(tab))
  /\ Acyclic(tab.node) /\ Unused(tab.node) /\ Native(tab) /\ Linked(tab)

TabInv(tab) ==
  TabType(tab) /\ Hashed(tab) /\ Apart(tab) /\ Passed(tab)

InTable(tab, k) == InArray(tab, k) \/ \E n \in DOMAIN tab.node : tab.node[n].key = k

VisitInv ==
  /\ seen \subseteq Keys
  /\ ~visiting => key = NoKey
  /\ key \in Keys \cup {NoKey}
  /\ key = NoKey => seen = {}
  /\ key # NoKey => key \in Keys /\ InTable(tbl, key)
  /\ \A k \in seen : InTable(tbl, k) /\ findindex(tbl, k) <= findindex(tbl, key)
  /\ \A k \in Keys : luaH_get(tbl, k) # NoValue /\ findindex(tbl, k) <= findindex(tbl, key) => k \in seen

TableInv == TabInv(tbl) /\ visiting \in BOOLEAN /\ VisitInv

-----------------------------------------------------------------------------
\* Recursive definitions.

\* Going below ends.
Founded(D, below) == \A S \in SUBSET D : S # {} => \E d \in S : below[d] \cap S = {}

\* What the equation says of an element depends on those below it only.
Local(D, V, below, Step) ==
  \A d \in D : \A p, q \in [D -> V] :
    (\A e \in D : e \in below[d] => p[e] = q[e]) => Step[d][p] = Step[d][q]

\* f solves it on a set that has all that is below it.
Solves(D, V, below, Step, C, f) ==
  /\ C \in SUBSET D /\ \A d \in C : below[d] \subseteq C
  /\ f \in [D -> V] /\ \A d \in C : f[d] = Step[d][f]

\* Every set of numbers has a least member.
LEMMA Least ==
  ASSUME NEW S, S \subseteq Nat, S # {}
  PROVE  \E m \in S : \A n \in S : m <= n
<1>1. PICK m \in S : \A n \in S : ~(<<n, m>> \in OpToRel(<, Nat))
  BY WFMin, NatLessThanWellFounded
<1>2. ASSUME NEW n \in S PROVE m <= n
  <2>1. n \in Nat /\ m \in Nat
    OBVIOUS
  <2>2. SUFFICES ASSUME n < m PROVE FALSE
    BY <2>1
  <2>3. <<n, m>> \in OpToRel(<, Nat)
    BY <2>1, <2>2 DEF OpToRel
  <2>4. QED BY <2>3, <1>1
<1>3. QED BY <1>2

\* A bounded set of numbers has a greatest member.
LEMMA Greatest ==
  ASSUME NEW S, NEW b \in Nat, S \subseteq 0 .. b, S # {}
  PROVE  \E m \in S : \A n \in S : n <= m
<1> DEFINE R == {b - n : n \in S}
<1>1. R \subseteq Nat
  OBVIOUS
<1>2. R # {}
  <2>1. PICK n : n \in S
    OBVIOUS
  <2>2. b - n \in R
    BY <2>1
  <2>3. QED
    BY <2>2
<1>3. PICK r \in R : \A n \in R : r <= n
  <2> HIDE DEF R
  <2>1. QED
    BY <1>1, <1>2, Least
<1>4. PICK m \in S : r = b - m
  BY <1>3
<1>5. ASSUME NEW n \in S PROVE n <= m
  <2>1. b - n \in R
    OBVIOUS
  <2>2. n \in 0 .. b /\ m \in 0 .. b
    OBVIOUS
  <2>3. b - m <= b - n
    BY <2>1, <1>3, <1>4
  <2>4. QED
    BY <2>2, <2>3
<1>6. QED
  BY <1>5

\* Two functions that solve an equation on a closed set are the same there.
LEMMA OneSolution ==
  ASSUME NEW D, NEW V, NEW below, NEW Step, NEW C, NEW f, NEW g,
         Founded(D, below), Local(D, V, below, Step),
         Solves(D, V, below, Step, C, f), Solves(D, V, below, Step, C, g)
  PROVE  \A d \in C : f[d] = g[d]
<1> DEFINE S == {d \in C : f[d] # g[d]}
<1>1. SUFFICES ASSUME S # {} PROVE FALSE
  OBVIOUS
<1>2. PICK d \in S : below[d] \cap S = {}
  <2>1. S \in SUBSET D
    BY DEF Solves
  <2> HIDE DEF S
  <2>2. QED
    BY <1>1, <2>1 DEF Founded
<1>3. \A e \in D : e \in below[d] => f[e] = g[e]
  BY <1>2 DEF Solves
<1>4. Step[d][f] = Step[d][g]
  BY <1>3 DEF Solves, Local
<1>5. QED
  BY <1>4 DEF Solves

\* An equation that says of every element what it is from what those below it are
\* has a solution, where going below ends.
LEMMA Recursion ==
  ASSUME NEW D, NEW V, NEW below, NEW Step, V # {},
         Founded(D, below), Local(D, V, below, Step),
         \A d \in D : below[d] \subseteq D,
         \A d \in D : \A p \in [D -> V] : Step[d][p] \in V
  PROVE  \E f \in [D -> V] : \A d \in D : f[d] = Step[d][f]
<1> DEFINE Good(C, f) == Solves(D, V, below, Step, C, f)
           T == {d \in D : \E C, f : d \in C /\ Good(C, f)}
           part(d) == CHOOSE f : \E C : d \in C /\ Good(C, f)
           v0 == CHOOSE v \in V : TRUE
           F == [d \in D |-> IF d \in T THEN part(d)[d] ELSE v0]
<1>1. \A d \in T : \E C : d \in C /\ Good(C, part(d))
  OBVIOUS
<1>2. T \subseteq D /\ \A C, f : Good(C, f) => C \subseteq T
  BY DEF Solves
<1>3. \A d \in T : below[d] \subseteq T
  BY <1>1, <1>2 DEF Solves
<1>4. F \in [D -> V]
  <2>1. \A d \in T : part(d) \in [D -> V]
    BY <1>1 DEF Solves
  <2>2. v0 \in V
    OBVIOUS
  <2> HIDE DEF part, T, v0
  <2>3. QED
    BY <2>1, <2>2
<1>5. ASSUME NEW C, NEW f, Good(C, f), NEW e \in C PROVE F[e] = f[e]
  <2>1. e \in T
    BY <1>5, <1>2
  <2>2. PICK B : e \in B /\ Good(B, part(e))
    BY <1>1, <2>1
  <2>3. \A d \in B \cap C : part(e)[d] = f[d]
    <3> DEFINE g == part(e)
               A == B \cap C
    <3>1. Solves(D, V, below, Step, A, f) /\ Solves(D, V, below, Step, A, g)
      BY <2>2, <1>5 DEF Solves
    <3> HIDE DEF g, A
    <3>3. \A d \in A : f[d] = g[d]
      BY <3>1, OneSolution
    <3>4. QED
      BY <3>3 DEF g, A
  <2>4. e \in D /\ e \in B \cap C
    BY <2>1, <2>2, <1>2
  <2>5. F[e] = part(e)[e]
    BY <2>1, <2>4
  <2>6. QED
    BY <2>3, <2>4, <2>5
<1>6. ASSUME NEW d \in T PROVE F[d] = Step[d][F]
  <2>1. PICK C : d \in C /\ Good(C, part(d))
    BY <1>1
  <2> DEFINE f == part(d)
  <2>2. Good(C, f) /\ below[d] \subseteq C /\ d \in D /\ f \in [D -> V]
    BY <2>1, <1>2 DEF Solves
  <2> HIDE DEF f, F, T
  <2>3. \A e \in C : F[e] = f[e]
    BY <2>2, <1>5
  <2>4. Step[d][F] = Step[d][f]
    BY <2>2, <2>3, <1>4 DEF Local
  <2>5. QED
    BY <2>1, <2>2, <2>3, <2>4 DEF Solves, f
<1>7. T = D
  <2> HIDE DEF F
  <2>1. SUFFICES ASSUME D \ T # {} PROVE FALSE
    BY <1>2
  <2>2. PICK n \in D \ T : below[n] \cap (D \ T) = {}
    <3> HIDE DEF T
    <3>1. QED
      BY <2>1 DEF Founded
  <2>3. below[n] \subseteq T
    BY <2>2
  <2> DEFINE C == T \cup {n}
             f == [F EXCEPT ![n] = Step[n][F]]
  <2>4. f \in [D -> V]
    BY <1>4
  <2>5. \A e \in T : f[e] = F[e]
    BY <2>2, <1>4, <1>2
  <2>6. f[n] = Step[n][F]
    BY <1>4
  <2> HIDE DEF f, T
  <2>7. ASSUME NEW d \in C PROVE f[d] = Step[d][f] /\ below[d] \subseteq T
    <3>1. below[d] \subseteq T /\ d \in D
      BY <2>3, <1>3, <1>2
    <3>2. Step[d][f] = Step[d][F]
      BY <3>1, <2>4, <1>4, <2>5 DEF Local
    <3>3. QED
      BY <3>1, <3>2, <2>5, <2>6, <1>6
  <2>8. Good(C, f)
    BY <2>7, <2>4, <1>2 DEF Solves
  <2>9. C \subseteq T
    BY <2>8, <1>2
  <2>10. QED
    BY <2>9, <2>2
<1>8. QED
  <2> HIDE DEF F, T
  <2>1. QED
    BY <1>4, <1>6, <1>7

-----------------------------------------------------------------------------
\* Sizes.

\* Going below ends when a number gets less on the way.
LEMMA MeasureFounded ==
  ASSUME NEW D, NEW below, NEW m \in [D -> Nat],
         \A d \in D : \A e \in D : e \in below[d] => m[e] < m[d]
  PROVE  Founded(D, below)
<1>1. SUFFICES ASSUME NEW S \in SUBSET D, S # {}
               PROVE  \E d \in S : below[d] \cap S = {}
  BY DEF Founded
<1> DEFINE M == {m[d] : d \in S}
<1>2. M \subseteq Nat /\ M # {}
  BY <1>1
<1>3. PICK n \in M : \A k \in M : n <= k
  <2> HIDE DEF M
  <2>1. QED
    BY <1>2, Least
<1>4. PICK d \in S : m[d] = n
  BY <1>3
<1>5. ASSUME NEW e \in S, e \in below[d] PROVE FALSE
  <2>1. m[e] < m[d] /\ m[e] \in Nat /\ m[d] \in Nat
    BY <1>5
  <2>2. m[d] <= m[e]
    BY <1>3, <1>4
  <2>3. QED
    BY <2>1, <2>2
<1>6. QED
  BY <1>5

\* twoto is a function of numbers that solves its equation.
LEMMA Twoto ==
  /\ twoto \in [0 .. MAXBITS -> Nat]
  /\ \A i \in 0 .. MAXBITS : twoto[i] = IF i = 0 THEN 1 ELSE 2 * twoto[i - 1]
<1> DEFINE D == 0 .. MAXBITS
           below == [i \in D |-> IF i = 0 THEN {} ELSE {i - 1}]
           Step == [i \in D |-> [f \in [D -> Nat] |-> IF i = 0 THEN 1 ELSE 2 * f[i - 1]]]
<1>0. MAXBITS \in Nat
  BY SizesAssumption
<1>1. Founded(D, below)
  <2> DEFINE m == [i \in D |-> i]
  <2>1. m \in [D -> Nat] /\ \A d \in D : \A e \in D : e \in below[d] => m[e] < m[d]
    BY <1>0
  <2> HIDE DEF m, below, D
  <2>2. QED
    BY <2>1, MeasureFounded
<1>2. Local(D, Nat, below, Step)
  <2>1. SUFFICES ASSUME NEW d \in D, NEW p \in [D -> Nat], NEW q \in [D -> Nat],
                        \A e \in D : e \in below[d] => p[e] = q[e]
                 PROVE  Step[d][p] = Step[d][q]
    BY DEF Local
  <2>2. CASE d = 0
    BY <2>2
  <2>3. CASE d # 0
    <3>1. d - 1 \in D /\ d - 1 \in below[d]
      BY <2>3, <1>0
    <3>2. p[d - 1] = q[d - 1]
      BY <3>1, <2>1
    <3>3. QED
      BY <3>2, <2>3
  <2>4. QED
    BY <2>2, <2>3
<1>3. \A d \in D : below[d] \subseteq D
  BY <1>0
<1>4. \A d \in D : \A p \in [D -> Nat] : Step[d][p] \in Nat
  <2>1. SUFFICES ASSUME NEW d \in D, NEW p \in [D -> Nat] PROVE Step[d][p] \in Nat
    OBVIOUS
  <2>2. CASE d = 0
    BY <2>2
  <2>3. CASE d # 0
    <3>1. d - 1 \in D
      BY <2>3, <1>0
    <3>2. p[d - 1] \in Nat
      BY <3>1
    <3>3. QED
      BY <3>2, <2>3
  <2>4. QED
    BY <2>2, <2>3
<1>5. \E f \in [D -> Nat] : \A d \in D : f[d] = Step[d][f]
  <2> HIDE DEF D, below, Step
  <2>1. Nat # {}
    OBVIOUS
  <2>2. QED
    BY <1>1, <1>2, <1>3, <1>4, <2>1, Recursion
<1>6. PICK f \in [D -> Nat] : \A d \in D : f[d] = Step[d][f]
  BY <1>5
<1>7. f = [i \in 0 .. MAXBITS |-> IF i = 0 THEN 1 ELSE 2 * f[i - 1]]
  BY <1>6
<1>8. twoto = [i \in 0 .. MAXBITS |-> IF i = 0 THEN 1 ELSE 2 * twoto[i - 1]]
  BY <1>7, Zenon DEF twoto
<1>9. \A i \in 0 .. MAXBITS : twoto[i] = IF i = 0 THEN 1 ELSE 2 * twoto[i - 1]
  BY <1>8
<1>10. DOMAIN twoto = 0 .. MAXBITS
  BY <1>8
<1>11. \A i \in 0 .. MAXBITS : twoto[i] \in Nat
  <2> DEFINE S == {i \in 0 .. MAXBITS : twoto[i] \notin Nat}
  <2>1. SUFFICES ASSUME S # {} PROVE FALSE
    OBVIOUS
  <2>2. S \subseteq Nat
    BY <1>0
  <2>3. PICK i \in S : \A j \in S : i <= j
    <3> HIDE DEF S
    <3>1. QED
      BY <2>1, <2>2, Least
  <2>4. i # 0
    BY <1>9, <2>3
  <2>5. i - 1 \in 0 .. MAXBITS /\ twoto[i] = 2 * twoto[i - 1]
    BY <2>4, <1>0, <1>9
  <2>6. i - 1 \notin S
    BY <2>3
  <2>7. QED
    BY <2>5, <2>6
<1>12. QED
  BY <1>8, <1>9, <1>10, <1>11

\* The sizes of a hash part are those from 1 to MAXASIZE, both of them sizes.
LEMMA PowersFact ==
  /\ Powers \subseteq 1 .. MAXASIZE /\ 1 \in Powers /\ MAXASIZE \in Powers
  /\ MAXASIZE \in Nat /\ MAXASIZE < MAX_INT /\ MAX_INT \in Nat
<1>0. MAXBITS \in Nat
  BY SizesAssumption
<1>1. twoto[0] = 1 /\ 0 \in 0 .. MAXBITS /\ MAXBITS \in 0 .. MAXBITS
  BY Twoto, <1>0
<1>2. \A i \in 0 .. MAXBITS : twoto[i] \in Nat
  BY Twoto
<1>3. \A i \in 0 .. MAXBITS : twoto[i] >= 1
  <2> DEFINE S == {i \in 0 .. MAXBITS : twoto[i] = 0}
  <2>1. SUFFICES ASSUME S # {} PROVE FALSE
    BY <1>2
  <2>2. S \subseteq Nat
    BY <1>0
  <2>3. PICK i \in S : \A j \in S : i <= j
    <3> HIDE DEF S
    <3>1. QED
      BY <2>1, <2>2, Least
  <2>4. i # 0
    BY <1>1, <2>3
  <2>5. i - 1 \in 0 .. MAXBITS /\ twoto[i] = 2 * twoto[i - 1]
    BY <2>4, <1>0, Twoto
  <2>6. i - 1 \notin S
    BY <2>3
  <2>7. QED
    BY <2>5, <2>6, <2>3, <1>2
<1>4. \A i \in 0 .. MAXBITS : twoto[i] <= twoto[MAXBITS]
  <2> DEFINE S == {i \in 0 .. MAXBITS : twoto[i] > twoto[MAXBITS]}
  <2>1. SUFFICES ASSUME S # {} PROVE FALSE
    BY <1>2, <1>1
  <2>2. S \subseteq 0 .. MAXBITS
    OBVIOUS
  <2>3. PICK i \in S : \A j \in S : j <= i
    <3> HIDE DEF S
    <3>1. QED
      BY <2>1, <2>2, <1>0, Greatest
  <2>4. i # MAXBITS
    BY <1>1, <1>2, <2>3
  <2>5. i + 1 \in 0 .. MAXBITS /\ twoto[i + 1] = 2 * twoto[i]
    <3>1. i + 1 \in 0 .. MAXBITS /\ i + 1 # 0 /\ (i + 1) - 1 = i
      BY <2>4, <1>0
    <3>2. QED
      BY <3>1, Twoto
  <2>6. i + 1 \notin S
    BY <2>3
  <2>7. QED
    BY <2>5, <2>6, <2>3, <1>2, <1>1
<1>5. QED
  BY <1>1, <1>2, <1>3, <1>4, SizesAssumption DEF Powers, MAXASIZE

\* setnodevector takes a size that has room for the keys it is asked for.
LEMMA NodesFact ==
  ASSUME NEW size \in 0 .. MAXASIZE
  PROVE  \E p \in Powers : p >= size /\ (size = 0 => p = 1) /\ Nodes(size) = [n \in 1 .. p |-> EmptyNode]
<1> DEFINE rooms == {p \in Powers : p >= size}
<1>1. rooms \subseteq Nat /\ rooms # {}
  <2>1. MAXASIZE \in Powers /\ MAXASIZE >= size
    BY PowersFact
  <2>2. MAXASIZE \in rooms
    BY <2>1
  <2>3. rooms \subseteq Powers /\ Powers \subseteq Nat
    BY PowersFact
  <2>4. QED
    BY <2>2, <2>3
<1>2. \E p \in rooms : \A q \in rooms : p <= q
  <2> HIDE DEF rooms
  <2>1. QED
    BY <1>1, Least
<1> DEFINE r == CHOOSE p \in rooms : \A q \in rooms : p <= q
<1>3. r \in rooms /\ \A q \in rooms : r <= q
  BY <1>2
<1>4. size = 0 => 1 \in rooms
  BY PowersFact
<1>5. Nodes(size) = [n \in 1 .. r |-> EmptyNode]
  BY DEF Nodes
<1> HIDE DEF r
<1>6. size = 0 => r = 1
  BY <1>3, <1>4, PowersFact
<1>7. QED
  BY <1>3, <1>5, <1>6

\* computesizes gives an array part that an int can index.
LEMMA computesizesFact ==
  ASSUME NEW ints
  PROVE  computesizes(ints) \in 0 .. MAXASIZE
<1> DEFINE UpTo(n) == Cardinality({k \in ints : k <= n})
           optimal == {p \in Powers :
                         /\ UpTo(p) > p \div 2 /\ UpTo(p) > UpTo(p \div 2)
                         /\ p \div 2 < Cardinality(ints)}
<1>1. computesizes(ints) = IF optimal = {} THEN 0 ELSE CHOOSE p \in optimal : \A q \in optimal : q <= p
  BY DEF computesizes
<1>2. optimal \subseteq 0 .. MAXASIZE
  <2>1. optimal \subseteq Powers
    OBVIOUS
  <2>2. Powers \subseteq 0 .. MAXASIZE
    BY PowersFact
  <2>3. QED
    BY <2>1, <2>2
<1> HIDE DEF optimal
<1>3. CASE optimal = {}
  BY <1>1, <1>3, PowersFact
<1>4. CASE optimal # {}
  <2>1. \E p \in optimal : \A q \in optimal : q <= p
    BY <1>2, <1>4, Greatest, PowersFact
  <2>2. QED
    BY <2>1, <1>1, <1>2, <1>4
<1>5. QED
  BY <1>3, <1>4

-----------------------------------------------------------------------------
\* Searching a chain.

Shaped(tab) ==
  /\ sizenode(tab) \in Nat \ {0} /\ DOMAIN tab.node = 1 .. sizenode(tab)
  /\ \A n \in DOMAIN tab.node : tab.node[n].next \in 0 .. sizenode(tab)
  /\ Acyclic(tab.node)

\* What the search for a key finds from each node.
Searches(tab, k, find) ==
  /\ DOMAIN find = 0 .. sizenode(tab)
  /\ \A n \in 0 .. sizenode(tab) :
       find[n] = IF n = 0 \/ tab.node[n].key = k THEN n ELSE find[tab.node[n].next]

IsSearch(tab, k, find) ==
  Searches(tab, k, find) /\ find \in [0 .. sizenode(tab) -> 0 .. sizenode(tab)]

After(tab) == [n \in 0 .. sizenode(tab) |-> IF n = 0 THEN {} ELSE {tab.node[n].next}]

\* The main position is a node of the table (hashpow2, hashmod).
LEMMA mainpositionType ==
  ASSUME NEW tab, sizenode(tab) \in Nat \ {0}, NEW k \in AllKeys
  PROVE  mainposition(tab, k) \in 1 .. sizenode(tab)
<1>1. Hash[k] \in Nat
  BY KeysAssumption DEF AllKeys
<1> DEFINE b == IF k \in Strings \/ sizenode(tab) = 1 THEN sizenode(tab) ELSE sizenode(tab) - 1
<1>2. b \in Nat /\ b > 0 /\ b <= sizenode(tab)
  OBVIOUS
<1>3. mainposition(tab, k) = 1 + (Hash[k] % b)
  BY DEF mainposition
<1> HIDE DEF b
<1> DEFINE h == Hash[k]
<1>4. h \in Nat
  BY <1>1
<1> HIDE DEF h
<1>5. h % b \in 0 .. b - 1
  BY <1>4, <1>2
<1>6. QED
  BY <1>2, <1>3, <1>5 DEF h

\* Following a chain ends.
LEMMA AfterFounded ==
  ASSUME NEW tab, Shaped(tab)
  PROVE  Founded(0 .. sizenode(tab), After(tab))
<1>1. SUFFICES ASSUME NEW S \in SUBSET (0 .. sizenode(tab)), S # {}
               PROVE  \E n \in S : After(tab)[n] \cap S = {}
  BY DEF Founded
<1>2. CASE 0 \in S
  <2>1. After(tab)[0] = {}
    BY <1>2 DEF After
  <2>2. QED
    BY <1>2, <2>1
<1>3. CASE 0 \notin S
  <2>1. S \subseteq DOMAIN tab.node
    BY <1>3 DEF Shaped
  <2>2. PICK n \in S : tab.node[n].next \notin S
    BY <2>1, <1>1 DEF Shaped, Acyclic
  <2>3. After(tab)[n] = {tab.node[n].next}
    BY <1>3 DEF After
  <2>4. QED
    BY <2>2, <2>3
<1>4. QED
  BY <1>2, <1>3

\* A search along the chains of a table gives each node a result.
LEMMA SearchExists ==
  ASSUME NEW tab, Shaped(tab), NEW k
  PROVE  \E find : IsSearch(tab, k, find)
<1> DEFINE D == 0 .. sizenode(tab)
           below == After(tab)
           Step == [n \in D |-> [f \in [D -> D] |->
                      IF n = 0 \/ tab.node[n].key = k THEN n ELSE f[tab.node[n].next]]]
<1>1. Founded(D, below)
  BY AfterFounded
<1>2. \A n \in D : n # 0 => tab.node[n].next \in D /\ below[n] = {tab.node[n].next}
  BY DEF Shaped, After
<1>3. 0 \in D /\ below[0] = {}
  BY DEF Shaped, After
<1>4. Local(D, D, below, Step)
  <2>1. SUFFICES ASSUME NEW d \in D, NEW p \in [D -> D], NEW q \in [D -> D],
                        \A e \in D : e \in below[d] => p[e] = q[e]
                 PROVE  Step[d][p] = Step[d][q]
    BY DEF Local
  <2>2. CASE d = 0
    BY <2>2
  <2>3. CASE d # 0
    <3>1. p[tab.node[d].next] = q[tab.node[d].next]
      BY <2>1, <2>3, <1>2
    <3>2. QED
      BY <3>1, <2>3
  <2>4. QED
    BY <2>2, <2>3
<1>5. \A d \in D : below[d] \subseteq D
  BY <1>2, <1>3
<1>6. \A d \in D : \A p \in [D -> D] : Step[d][p] \in D
  <2>1. SUFFICES ASSUME NEW d \in D, NEW p \in [D -> D] PROVE Step[d][p] \in D
    OBVIOUS
  <2>2. CASE d = 0
    BY <2>2
  <2>3. CASE d # 0
    <3>1. p[tab.node[d].next] \in D
      BY <2>3, <1>2
    <3>2. QED
      BY <3>1, <2>3
  <2>4. QED
    BY <2>2, <2>3
<1>7. \E f \in [D -> D] : \A d \in D : f[d] = Step[d][f]
  <2>1. D # {}
    BY <1>3
  <2> HIDE DEF D, below, Step
  <2>2. QED
    BY <1>1, <1>4, <1>5, <1>6, <2>1, Recursion
<1>8. PICK f \in [D -> D] : \A d \in D : f[d] = Step[d][f]
  BY <1>7
<1>9. IsSearch(tab, k, f)
  BY <1>8 DEF IsSearch, Searches
<1>10. QED
  BY <1>9

\* It gives only one.
LEMMA SearchUnique ==
  ASSUME NEW tab, Shaped(tab), NEW k, NEW f, NEW g,
         IsSearch(tab, k, f), Searches(tab, k, g)
  PROVE  \A n \in 0 .. sizenode(tab) : f[n] = g[n]
<1> DEFINE S == {n \in 0 .. sizenode(tab) : f[n] # g[n]}
<1>1. SUFFICES ASSUME S # {} PROVE FALSE
  OBVIOUS
<1>2. PICK n \in S : After(tab)[n] \cap S = {}
  <2>1. S \subseteq 0 .. sizenode(tab)
    OBVIOUS
  <2> HIDE DEF S
  <2>2. QED
    BY <1>1, <2>1, AfterFounded DEF Founded
<1>3. n # 0 /\ tab.node[n].key # k
  BY <1>2 DEF IsSearch, Searches
<1>4. f[n] = f[tab.node[n].next] /\ g[n] = g[tab.node[n].next]
  BY <1>2, <1>3 DEF IsSearch, Searches
<1>5. tab.node[n].next \in 0 .. sizenode(tab) /\ After(tab)[n] = {tab.node[n].next}
  BY <1>2, <1>3 DEF Shaped, After
<1>6. f[tab.node[n].next] = g[tab.node[n].next]
  BY <1>2, <1>5
<1>7. QED
  BY <1>2, <1>4, <1>6

\* NodeOf is the result of the main position.
LEMMA NodeOfIs ==
  ASSUME NEW tab, Shaped(tab), NEW k, NEW find, IsSearch(tab, k, find),
         mainposition(tab, k) \in 0 .. sizenode(tab)
  PROVE  NodeOf(tab, k) = find[mainposition(tab, k)]
<1> DEFINE search == CHOOSE f : f = [n \in 0 .. sizenode(tab) |->
                       IF n = 0 \/ tab.node[n].key = k THEN n ELSE f[tab.node[n].next]]
<1>1. NodeOf(tab, k) = search[mainposition(tab, k)]
  BY Zenon DEF NodeOf
<1>2. find = [n \in 0 .. sizenode(tab) |->
                IF n = 0 \/ tab.node[n].key = k THEN n ELSE find[tab.node[n].next]]
  BY DEF IsSearch, Searches
<1>3. search = [n \in 0 .. sizenode(tab) |->
                IF n = 0 \/ tab.node[n].key = k THEN n ELSE search[tab.node[n].next]]
  BY <1>2, Zenon
<1> HIDE DEF search
<1>4. Searches(tab, k, search)
  BY <1>3 DEF Searches
<1>5. \A n \in 0 .. sizenode(tab) : find[n] = search[n]
  BY <1>4, SearchUnique
<1>6. QED
  BY <1>1, <1>5

\* A node that a search ends at has the key.
LEMMA SearchFinds ==
  ASSUME NEW tab, Shaped(tab), NEW k, NEW find, IsSearch(tab, k, find)
  PROVE  \A n \in 0 .. sizenode(tab) : find[n] # 0 => tab.node[find[n]].key = k
<1> DEFINE S == {n \in 0 .. sizenode(tab) : find[n] # 0 /\ tab.node[find[n]].key # k}
<1>1. SUFFICES ASSUME S # {} PROVE FALSE
  OBVIOUS
<1>2. PICK n \in S : After(tab)[n] \cap S = {}
  <2>1. S \subseteq 0 .. sizenode(tab)
    OBVIOUS
  <2> HIDE DEF S
  <2>2. QED
    BY <1>1, <2>1, AfterFounded DEF Founded
<1>3. n # 0 /\ tab.node[n].key # k
  BY <1>2 DEF IsSearch, Searches
<1>4. find[n] = find[tab.node[n].next]
  BY <1>2, <1>3 DEF IsSearch, Searches
<1>5. tab.node[n].next \in 0 .. sizenode(tab) /\ After(tab)[n] = {tab.node[n].next}
  BY <1>2, <1>3 DEF Shaped, After
<1>6. tab.node[n].next \in S
  BY <1>2, <1>4, <1>5
<1>7. QED
  BY <1>2, <1>5, <1>6

\* NodeOf is 0 or a node that has the key.
LEMMA NodeOfFact ==
  ASSUME NEW tab, Shaped(tab), NEW k \in AllKeys
  PROVE  /\ NodeOf(tab, k) \in 0 .. sizenode(tab)
         /\ NodeOf(tab, k) # 0 => tab.node[NodeOf(tab, k)].key = k
<1>1. PICK find : IsSearch(tab, k, find)
  BY SearchExists
<1>2. mainposition(tab, k) \in 0 .. sizenode(tab)
  BY mainpositionType DEF Shaped
<1>3. NodeOf(tab, k) = find[mainposition(tab, k)]
  BY <1>1, <1>2, NodeOfIs
<1>4. find[mainposition(tab, k)] \in 0 .. sizenode(tab)
  BY <1>1, <1>2 DEF IsSearch, Searches
<1>5. QED
  BY <1>1, <1>2, <1>3, <1>4, SearchFinds

-----------------------------------------------------------------------------
\* The hash part as a function of keys.

HashGet(tab, k) == IF NodeOf(tab, k) = 0 THEN NoValue ELSE tab.node[NodeOf(tab, k)].val

\* Keys are 1 or more and below MAX_INT, or strings; there are at most MAXASIZE.
LEMMA KeysFact ==
  /\ Keys \subseteq AllKeys /\ NoKey \notin AllKeys /\ Numbers \subseteq 1 .. MAX_INT - 1
  /\ \A k \in Strings : k \notin Nat
  /\ IsFiniteSet(Keys) /\ Cardinality(Keys) \in Nat /\ Cardinality(Keys) <= MAXASIZE
<1>1. MAX_INT \in Nat
  BY SizesAssumption
<1>2. IsFiniteSet(1 .. MAX_INT - 1)
  BY <1>1, FS_Interval
<1>3. IsFiniteSet(Numbers)
  BY <1>2, FS_Subset, KeysAssumption
<1>4. IsFiniteSet(Keys)
  BY <1>3, FS_Union, KeysAssumption DEF Keys
<1>5. Cardinality(Keys) \in Nat
  BY <1>4, FS_CardinalityType
<1>6. Keys \subseteq AllKeys
  <2>1. Numbers \subseteq 1 .. MAX_INT
    BY <1>1, KeysAssumption
  <2>2. QED
    BY <2>1 DEF Keys, AllKeys
<1>7. NoKey \notin AllKeys
  BY KeysAssumption DEF NoKey, AllKeys
<1>8. QED
  BY <1>4, <1>5, <1>6, <1>7, KeysAssumption

\* The types of a hash part.
LEMMA HashedFact ==
  ASSUME NEW tab, Hashed(tab)
  PROVE  /\ Shaped(tab) /\ sizenode(tab) \in 1 .. MAXASIZE
         /\ \A n \in 1 .. sizenode(tab) :
              /\ tab.node[n].key \in Keys \cup {NoKey} /\ tab.node[n].val \in Cells
              /\ tab.node[n].next \in 0 .. sizenode(tab)
              /\ tab.node[n] = [key |-> tab.node[n].key, val |-> tab.node[n].val, next |-> tab.node[n].next]
         /\ DOMAIN tab.node = 1 .. sizenode(tab)
<1>1. sizenode(tab) \in 1 .. MAXASIZE
  BY PowersFact DEF Hashed
<1>2. DOMAIN tab.node = 1 .. sizenode(tab)
  BY DEF Hashed, NodeVectors
<1> DEFINE size == sizenode(tab)
<1>3. tab.node \in [1 .. size -> [key : Keys \cup {NoKey}, val : Cells, next : 0 .. size]]
  BY DEF Hashed, NodeVectors
<1> HIDE DEF size
<1>4. \A n \in 1 .. size :
              /\ tab.node[n].key \in Keys \cup {NoKey} /\ tab.node[n].val \in Cells
              /\ tab.node[n].next \in 0 .. size
              /\ tab.node[n] = [key |-> tab.node[n].key, val |-> tab.node[n].val, next |-> tab.node[n].next]
  BY <1>3
<1>5. Shaped(tab)
  <2>1. sizenode(tab) \in Nat \ {0}
    BY <1>1, PowersFact
  <2>2. \A n \in 1 .. sizenode(tab) : tab.node[n].next \in 0 .. sizenode(tab)
    BY <1>4 DEF size
  <2>3. QED
    BY <2>1, <2>2, <1>2 DEF Shaped, Hashed
<1>6. QED
  BY <1>1, <1>2, <1>4, <1>5 DEF size

\* The key of a node has that node, and a key that has none has no node.
LEMMA HasNode ==
  ASSUME NEW tab, Hashed(tab), NEW k \in AllKeys
  PROVE  /\ NodeOf(tab, k) \in 0 .. sizenode(tab)
         /\ NodeOf(tab, k) # 0 => tab.node[NodeOf(tab, k)].key = k
         /\ \A n \in 1 .. sizenode(tab) : tab.node[n].key = k => NodeOf(tab, k) = n
         /\ k \notin Keys => NodeOf(tab, k) = 0
<1>1. Shaped(tab)
  BY HashedFact
<1>2. NodeOf(tab, k) \in 0 .. sizenode(tab) /\ (NodeOf(tab, k) # 0 => tab.node[NodeOf(tab, k)].key = k)
  BY <1>1, NodeOfFact
<1>3. ASSUME NEW n \in 1 .. sizenode(tab), tab.node[n].key = k
      PROVE  NodeOf(tab, k) = n
  BY <1>3, HashedFact, KeysFact DEF Hashed, Linked
<1>4. k \notin Keys => NodeOf(tab, k) = 0
  <2>1. SUFFICES ASSUME NodeOf(tab, k) # 0 PROVE k \in Keys
    OBVIOUS
  <2>2. NodeOf(tab, k) \in 1 .. sizenode(tab)
    BY <1>2, <2>1
  <2>3. tab.node[NodeOf(tab, k)].key \in Keys \cup {NoKey}
    BY <2>2, HashedFact
  <2>4. QED
    BY <2>1, <2>3, <1>2, KeysFact
<1>5. QED
  BY <1>2, <1>3, <1>4

\* The hash part gives a key the value in its node.
LEMMA HashGetFact ==
  ASSUME NEW tab, Hashed(tab), NEW k \in AllKeys
  PROVE  /\ HashGet(tab, k) \in Cells /\ (HashGet(tab, k) # NoValue => k \in Keys /\ NodeOf(tab, k) # 0)
         /\ \A n \in 1 .. sizenode(tab) : tab.node[n].key = k => HashGet(tab, k) = tab.node[n].val
<1>1. CASE NodeOf(tab, k) = 0
  <2>1. \A n \in 1 .. sizenode(tab) : tab.node[n].key # k
    BY <1>1, HasNode
  <2>2. QED
    BY <2>1, <1>1 DEF HashGet, Cells
<1>2. CASE NodeOf(tab, k) # 0
  <2>1. NodeOf(tab, k) \in 1 .. sizenode(tab)
    BY <1>2, HasNode
  <2>2. tab.node[NodeOf(tab, k)].val \in Cells
    BY <2>1, HashedFact
  <2>3. k \in Keys /\ \A n \in 1 .. sizenode(tab) : tab.node[n].key = k => NodeOf(tab, k) = n
    BY <1>2, HasNode
  <2>4. QED
    BY <2>2, <2>3, <1>2 DEF HashGet
<1>3. QED
  BY <1>1, <1>2

\* The main position of a key that has a node has a key of that main position.
LEMMA MainTaken ==
  ASSUME NEW tab, Hashed(tab), NEW n \in 1 .. sizenode(tab), tab.node[n].key # NoKey
  PROVE  LET p == mainposition(tab, tab.node[n].key)
         IN /\ p \in 1 .. sizenode(tab) /\ tab.node[p].key # NoKey
            /\ mainposition(tab, tab.node[p].key) = p
<1>1. tab.node[n].key \in AllKeys
  BY HashedFact, KeysFact
<1>2. QED
  BY <1>1, HashedFact, mainpositionType DEF Hashed, Native, Shaped

\* Main positions depend on the number of nodes only.
LEMMA SameMain ==
  ASSUME NEW tab, NEW tab2, sizenode(tab2) = sizenode(tab), NEW k
  PROVE  mainposition(tab2, k) = mainposition(tab, k)
  BY DEF mainposition

\* The value of a node changes.
LEMMA ValueSet ==
  ASSUME NEW tab, Hashed(tab), NEW n \in 1 .. sizenode(tab), tab.node[n].key # NoKey, NEW v \in Cells,
         NEW tab2, tab2.node = [tab.node EXCEPT ![n].val = v], sizenode(tab2) = sizenode(tab)
  PROVE  /\ Hashed(tab2)
         /\ \A k \in AllKeys :
              /\ NodeOf(tab2, k) = NodeOf(tab, k)
              /\ HashGet(tab2, k) = IF k = tab.node[n].key THEN v ELSE HashGet(tab, k)
         /\ \A m \in 1 .. sizenode(tab) : tab2.node[m].key = tab.node[m].key
<1> DEFINE size == sizenode(tab)
<1>1. \A m \in 1 .. size : /\ tab2.node[m].key = tab.node[m].key /\ tab2.node[m].next = tab.node[m].next
                           /\ tab2.node[m].val = IF m = n THEN v ELSE tab.node[m].val
  BY HashedFact
<1>2. tab2.node \in NodeVectors(size)
  BY HashedFact DEF NodeVectors, Hashed
<1>3. DOMAIN tab2.node = 1 .. size /\ DOMAIN tab.node = 1 .. size
  BY HashedFact, <1>2 DEF NodeVectors
<1>4. Acyclic(tab2.node) /\ Unused(tab2.node)
  <2>1. Acyclic(tab2.node)
    BY <1>1, <1>3 DEF Hashed, Acyclic
  <2>2. Unused(tab2.node)
    <3>1. SUFFICES ASSUME NEW m \in 1 .. size, tab2.node[m].key = NoKey
                   PROVE  /\ tab2.node[m].val = NoValue /\ tab2.node[m].next = 0
                          /\ \A i \in 1 .. size : tab2.node[i].next # m
      BY <1>3 DEF Unused
    <3>2. tab.node[m].key = NoKey /\ m # n
      BY <3>1, <1>1
    <3>3. /\ tab.node[m].val = NoValue /\ tab.node[m].next = 0
          /\ \A i \in 1 .. size : tab.node[i].next # m
      BY <3>2, <1>3 DEF Hashed, Unused
    <3>4. QED
      BY <3>2, <3>3, <1>1
  <2>3. QED
    BY <2>1, <2>2
<1>5. Shaped(tab2)
  BY <1>1, <1>3, <1>4, HashedFact DEF Shaped
<1>6. ASSUME NEW k \in AllKeys PROVE NodeOf(tab2, k) = NodeOf(tab, k)
  <2>1. PICK find : IsSearch(tab, k, find)
    BY HashedFact, SearchExists
  <2>2. IsSearch(tab2, k, find)
    BY <2>1, <1>1 DEF IsSearch, Searches
  <2>3. mainposition(tab, k) \in 0 .. size /\ mainposition(tab2, k) = mainposition(tab, k)
    BY mainpositionType, SameMain, HashedFact DEF Shaped
  <2>4. QED
    BY <2>1, <2>2, <2>3, <1>5, NodeOfIs, HashedFact
<1>7. \A k : mainposition(tab2, k) = mainposition(tab, k)
  BY SameMain
<1>8. Native(tab2)
  <2>1. SUFFICES ASSUME NEW m \in 1 .. size, tab2.node[m].key # NoKey,
                        NEW p, p = mainposition(tab2, tab2.node[m].key)
                 PROVE  tab2.node[p].key # NoKey /\ mainposition(tab2, tab2.node[p].key) = p
    BY <1>3 DEF Native
  <2>2. tab.node[m].key # NoKey /\ p = mainposition(tab, tab.node[m].key)
    BY <2>1, <1>1, <1>7
  <2>3. p \in 1 .. size /\ tab.node[p].key # NoKey /\ mainposition(tab, tab.node[p].key) = p
    BY <2>2, MainTaken
  <2>4. QED
    BY <2>3, <1>1, <1>7
<1>9. Linked(tab2)
  <2>1. SUFFICES ASSUME NEW m \in 1 .. size, tab2.node[m].key # NoKey
                 PROVE  NodeOf(tab2, tab2.node[m].key) = m
    BY <1>3 DEF Linked
  <2>2. tab2.node[m].key = tab.node[m].key /\ tab.node[m].key \in AllKeys
    BY <1>1, <2>1, HashedFact, KeysFact
  <2>3. QED
    BY <2>2, <1>6, HasNode
<1>10. ASSUME NEW k \in AllKeys
       PROVE  HashGet(tab2, k) = IF k = tab.node[n].key THEN v ELSE HashGet(tab, k)
  <2>1. NodeOf(tab2, k) = NodeOf(tab, k)
    BY <1>6
  <2>2. CASE k = tab.node[n].key
    <3>1. NodeOf(tab, k) = n
      BY <2>2, HasNode
    <3>2. QED
      BY <3>1, <2>1, <2>2, <1>1 DEF HashGet
  <2>3. CASE k # tab.node[n].key
    <3>1. NodeOf(tab, k) # n /\ NodeOf(tab, k) \in 0 .. size
      BY <2>3, HasNode
    <3>2. QED
      BY <3>1, <2>1, <2>3, <1>1 DEF HashGet
  <2>4. QED
    BY <2>2, <2>3
<1>11. QED
  BY <1>1, <1>2, <1>4, <1>6, <1>8, <1>9, <1>10 DEF Hashed

-----------------------------------------------------------------------------
\* newkey: the main position is free.

\* The nodes hold, but for the key k, what the others held.
Carried(tab, tab2, k) ==
  /\ \A m \in 1 .. sizenode(tab) : tab.node[m].key # k /\ tab.node[m].val # NoValue =>
       \E i \in 1 .. sizenode(tab2) :
         tab2.node[i].key = tab.node[m].key /\ tab2.node[i].val = tab.node[m].val
  /\ \A i \in 1 .. sizenode(tab2) : tab2.node[i].key # k =>
       \E m \in 1 .. sizenode(tab) :
         tab2.node[i].key = tab.node[m].key /\ tab2.node[i].val = tab.node[m].val

\* A node whose successor or value is assigned.
LEMMA NodeRecord ==
  ASSUME NEW r, NEW a, NEW b, NEW c, r = [key |-> a, val |-> b, next |-> c], NEW x
  PROVE  /\ [r EXCEPT !.next = x] = [key |-> a, val |-> b, next |-> x]
         /\ [r EXCEPT !.val = x] = [key |-> a, val |-> x, next |-> c]
<1>2. [r EXCEPT !.next = x] = [key |-> a, val |-> b, next |-> x]
  OBVIOUS
<1>3. [r EXCEPT !.val = x] = [key |-> a, val |-> x, next |-> c]
  OBVIOUS
<1>4. QED
  BY <1>2, <1>3

\* What a key gets from nodes that hold, but for one key, what others held.
LEMMA PutFrom ==
  ASSUME NEW tab, NEW tab2, Hashed(tab), Hashed(tab2), NEW k, Carried(tab, tab2, k)
  PROVE  \A x \in AllKeys : x # k => HashGet(tab2, x) = HashGet(tab, x)
<1>1. SUFFICES ASSUME NEW x \in AllKeys, x # k
               PROVE  HashGet(tab2, x) = HashGet(tab, x)
  OBVIOUS
<1>3. CASE NodeOf(tab2, x) # 0
  <2> DEFINE i == NodeOf(tab2, x)
  <2>1. i \in 1 .. sizenode(tab2) /\ tab2.node[i].key = x
    BY <1>3, HasNode
  <2>2. HashGet(tab2, x) = tab2.node[i].val
    BY <1>3 DEF HashGet
  <2> HIDE DEF i
  <2>3. PICK m \in 1 .. sizenode(tab) : x = tab.node[m].key /\ tab2.node[i].val = tab.node[m].val
    BY <2>1, <1>1 DEF Carried
  <2>4. QED
    BY <2>2, <2>3, <1>3, HashGetFact
<1>4. CASE NodeOf(tab2, x) = 0
  <2>1. HashGet(tab2, x) = NoValue
    BY <1>4 DEF HashGet
  <2>2. SUFFICES ASSUME HashGet(tab, x) # NoValue PROVE FALSE
    BY <2>1, <1>4
  <2> DEFINE m == NodeOf(tab, x)
  <2>3. m \in 1 .. sizenode(tab) /\ tab.node[m].key = x /\ tab.node[m].val # NoValue
    BY <2>2, HasNode DEF HashGet
  <2> HIDE DEF m
  <2>4. PICK i \in 1 .. sizenode(tab2) : tab2.node[i].key = x
    BY <2>3, <1>1 DEF Carried
  <2>5. NodeOf(tab2, x) = i
    BY <2>4, HasNode
  <2>6. QED
    BY <2>5, <1>4
<1>5. QED
  BY <1>3, <1>4

TakenOver(node, mp, k, v) ==
  [node EXCEPT ![mp] = [key |-> k, val |-> v, next |-> node[mp].next]]

\* A key takes a main position whose value is nil.
LEMMA Reused ==
  ASSUME NEW tab, Hashed(tab), NEW k \in Keys, NodeOf(tab, k) = 0, NEW v \in Cells,
         NEW mp, mp = mainposition(tab, k), tab.node[mp].val = NoValue,
         NEW tab2, tab2.node = TakenOver(tab.node, mp, k, v),
         sizenode(tab2) = sizenode(tab)
  PROVE  /\ Hashed(tab2)
         /\ \A x \in AllKeys : HashGet(tab2, x) = IF x = k THEN v ELSE HashGet(tab, x)
         /\ \A m \in 1 .. sizenode(tab) :
              tab2.node[m].key = IF m = mp THEN k ELSE tab.node[m].key
<1> DEFINE size == sizenode(tab)
<1>0. k \in AllKeys
  BY KeysFact
<1>1. mp \in 1 .. size
  BY <1>0, mainpositionType, HashedFact DEF Shaped
<1>2. \A m \in 1 .. size : /\ tab2.node[m].key = IF m = mp THEN k ELSE tab.node[m].key
                           /\ tab2.node[m].next = tab.node[m].next
                           /\ tab2.node[m].val = IF m = mp THEN v ELSE tab.node[m].val
  BY HashedFact DEF TakenOver
<1>3. tab2.node \in NodeVectors(size)
  <2> DEFINE at == [key |-> k, val |-> v, next |-> tab.node[mp].next]
  <2>1. tab.node \in NodeVectors(size)
    BY DEF Hashed
  <2>3. at \in [key : Keys \cup {NoKey}, val : Cells, next : 0 .. size]
    BY <1>1, HashedFact
  <2> HIDE DEF at
  <2>4. QED
    BY <2>1, <2>3 DEF NodeVectors, at, TakenOver
<1>4. DOMAIN tab2.node = 1 .. size /\ DOMAIN tab.node = 1 .. size
  BY HashedFact, <1>3 DEF NodeVectors
<1>5. Acyclic(tab2.node)
  BY <1>2, <1>4 DEF Hashed, Acyclic
<1>6. Unused(tab2.node)
  <2>1. SUFFICES ASSUME NEW m \in 1 .. size, tab2.node[m].key = NoKey
                 PROVE  /\ tab2.node[m].val = NoValue /\ tab2.node[m].next = 0
                        /\ \A i \in 1 .. size : tab2.node[i].next # m
    BY <1>4 DEF Unused
  <2>2. tab.node[m].key = NoKey /\ m # mp
    BY <2>1, <1>2, <1>0, KeysFact
  <2>3. /\ tab.node[m].val = NoValue /\ tab.node[m].next = 0
        /\ \A i \in 1 .. size : tab.node[i].next # m
    BY <2>2, <1>4 DEF Hashed, Unused
  <2>4. QED
    BY <2>2, <2>3, <1>2
<1>7. Shaped(tab2)
  BY <1>2, <1>4, <1>5, HashedFact DEF Shaped
<1>8. \A x : mainposition(tab2, x) = mainposition(tab, x)
  BY SameMain
<1>9. Native(tab2)
  <2>1. SUFFICES ASSUME NEW m \in 1 .. size, tab2.node[m].key # NoKey,
                        NEW p, p = mainposition(tab2, tab2.node[m].key)
                 PROVE  tab2.node[p].key # NoKey /\ mainposition(tab2, tab2.node[p].key) = p
    BY <1>4 DEF Native
  <2>2. CASE p = mp
    BY <2>2, <1>0, <1>1, <1>2, <1>8, KeysFact
  <2>3. CASE p # mp
    <3>1. m # mp /\ tab.node[m].key # NoKey /\ p = mainposition(tab, tab.node[m].key)
      BY <2>1, <2>3, <1>2, <1>8
    <3>2. p \in 1 .. size /\ tab.node[p].key # NoKey /\ mainposition(tab, tab.node[p].key) = p
      BY <3>1, MainTaken
    <3>3. QED
      BY <3>2, <2>3, <1>2, <1>8
  <2>4. QED
    BY <2>2, <2>3
<1>10. Linked(tab2)
  <2>1. SUFFICES ASSUME NEW m \in 1 .. size, tab2.node[m].key # NoKey,
                        NEW x, x = tab2.node[m].key
                 PROVE  NodeOf(tab2, x) = m
    BY <1>4 DEF Linked
  <2>2. x \in AllKeys /\ mainposition(tab2, x) \in 1 .. size
    <3>1. x \in AllKeys
      <4>1. tab.node[m].key \in Keys \cup {NoKey}
        BY HashedFact
      <4>2. x = k \/ x = tab.node[m].key
        BY <2>1, <1>2
      <4>3. QED
        BY <4>1, <4>2, <2>1, <1>0, KeysFact
    <3>2. QED
      BY <3>1, mainpositionType, <1>7 DEF Shaped
  <2>3. CASE m = mp
    <3>1. x = k
      BY <2>1, <2>3, <1>2
    <3>2. PICK find : IsSearch(tab2, k, find)
      BY <1>7, SearchExists
    <3>3. find[mp] = mp
      BY <3>2, <1>1, <1>2 DEF IsSearch, Searches
    <3>4. mainposition(tab2, k) = mp
      BY <1>8
    <3>5. QED
      BY <3>1, <3>2, <3>3, <3>4, <2>2, <2>3, <1>7, NodeOfIs
  <2>4. CASE m # mp
    <3>1. x = tab.node[m].key
      BY <2>1, <2>4, <1>2
    <3>2. NodeOf(tab, x) = m
      BY <3>1, <2>2, HasNode
    <3>3. x # k /\ tab.node[mp].key # x
      BY <3>2, <2>2, <2>4, <1>1, HasNode
    <3>4. PICK find : IsSearch(tab, x, find)
      BY HashedFact, SearchExists
    <3>5. IsSearch(tab2, x, find)
      BY <3>3, <3>4, <1>2 DEF IsSearch, Searches
    <3>6. mainposition(tab, x) \in 0 .. size /\ mainposition(tab2, x) = mainposition(tab, x)
      BY <2>2, <1>8
    <3>7. QED
      BY <3>2, <3>4, <3>5, <3>6, <1>7, NodeOfIs, HashedFact
  <2>5. QED
    BY <2>3, <2>4
<1>11. Hashed(tab2)
  BY <1>3, <1>5, <1>6, <1>9, <1>10 DEF Hashed
<1>12. \A m \in 1 .. size : tab.node[m].val # NoValue =>
         tab2.node[m].key = tab.node[m].key /\ tab2.node[m].val = tab.node[m].val
  BY <1>2
<1>13. \A m \in 1 .. size : tab2.node[m].key # k =>
         tab2.node[m].key = tab.node[m].key /\ tab2.node[m].val = tab.node[m].val
  BY <1>2
<1>14. \A x \in AllKeys : HashGet(tab2, x) = IF x = k THEN v ELSE HashGet(tab, x)
  <2>1. tab2.node[mp].key = k /\ tab2.node[mp].val = v
    BY <1>1, <1>2
  <2>2. Carried(tab, tab2, k)
    BY <1>12, <1>13 DEF Carried
  <2>3. \A x \in AllKeys : x # k => HashGet(tab2, x) = HashGet(tab, x)
    BY <2>2, <1>11, PutFrom
  <2>4. HashGet(tab2, k) = v
    <3>1. mp \in 1 .. sizenode(tab2)
      BY <1>1
    <3>2. \A n \in 1 .. sizenode(tab2) : tab2.node[n].key = k => HashGet(tab2, k) = tab2.node[n].val
      BY <1>0, <1>11, HashGetFact
    <3>3. QED
      BY <2>1, <3>1, <3>2
  <2>5. QED
    BY <2>3, <2>4
<1>15. QED
  BY <1>2, <1>11, <1>14

-----------------------------------------------------------------------------
\* newkey: a key of the same main position.

\* The chains end when a free node is put after a node of one of them.
LEMMA InsertedAcyclic ==
  ASSUME NEW node, NEW node2, NEW mp, NEW n, n # mp,
         DOMAIN node2 = DOMAIN node, mp \in DOMAIN node, n \in DOMAIN node, 0 \notin DOMAIN node,
         Acyclic(node), \A i \in DOMAIN node : node[i].next # n,
         \A i \in DOMAIN node : node2[i].next = IF i = mp THEN n
                                                ELSE IF i = n THEN node[mp].next
                                                ELSE node[i].next
  PROVE  Acyclic(node2)
<1>1. SUFFICES ASSUME NEW T \in SUBSET DOMAIN node, T # {}
               PROVE  \E i \in T : node2[i].next \notin T
  BY DEF Acyclic
<1>2. CASE n \notin T
  <2>1. PICK i \in T : node[i].next \notin T
    BY <1>1 DEF Acyclic
  <2>2. i \in DOMAIN node /\ i # n
    BY <1>2
  <2>3. QED
    BY <2>1, <2>2, <1>2
<1>3. CASE n \in T
  <2> DEFINE S == (T \ {n}) \cup {mp}
  <2>1. S \in SUBSET DOMAIN node /\ S # {}
    OBVIOUS
  <2>2. PICK i \in S : node[i].next \notin S
    <3> HIDE DEF S
    <3>1. QED
      BY <2>1 DEF Acyclic
  <2>3. i \in DOMAIN node /\ node[i].next # n /\ node[i].next \notin T
    BY <2>1, <2>2
  <2>4. CASE i = mp
    BY <2>3, <2>4, <1>3
  <2>5. CASE i # mp
    BY <2>3, <2>5, <2>2
  <2>6. QED
    BY <2>4, <2>5
<1>4. QED
  BY <1>2, <1>3

PutAfter(node, mp, n, k, v) ==
  [node EXCEPT ![mp] = [node[mp] EXCEPT !.next = n],
               ![n] = [key |-> k, val |-> v, next |-> node[mp].next]]

\* A key of the same main position as the one there is put into a free node, and
\* comes next after it.
LEMMA Inserted ==
  ASSUME NEW tab, Hashed(tab), NEW k \in Keys, NodeOf(tab, k) = 0, NEW v \in Cells,
         NEW mp, mp = mainposition(tab, k), NEW at, at = tab.node[mp],
         at.key # NoKey, mainposition(tab, at.key) = mp,
         NEW n \in 1 .. sizenode(tab), tab.node[n].key = NoKey,
         NEW tab2, tab2.node = PutAfter(tab.node, mp, n, k, v),
         sizenode(tab2) = sizenode(tab)
  PROVE  /\ Hashed(tab2)
         /\ \A x \in AllKeys : HashGet(tab2, x) = IF x = k THEN v ELSE HashGet(tab, x)
         /\ \A m \in 1 .. sizenode(tab) :
              tab2.node[m].key = IF m = n THEN k ELSE tab.node[m].key
<1> DEFINE size == sizenode(tab)
<1>0. k \in AllKeys /\ at.key \in AllKeys /\ k # NoKey
  <2>1. k \in AllKeys /\ k # NoKey
    BY KeysFact
  <2>2. mp \in 1 .. size
    BY <2>1, mainpositionType, HashedFact DEF Shaped
  <2>3. QED
    BY <2>1, <2>2, HashedFact, KeysFact
<1>1. mp \in 1 .. size /\ n # mp
  BY <1>0, mainpositionType, HashedFact DEF Shaped
<1>2. /\ DOMAIN tab.node = 1 .. size
      /\ [at EXCEPT !.next = n] = [key |-> at.key, val |-> at.val, next |-> n]
  <2>1. at = [key |-> at.key, val |-> at.val, next |-> at.next]
    BY <1>1, HashedFact
  <2>2. QED
    BY <2>1, NodeRecord, HashedFact
<1>3. \A m \in 1 .. size :
         /\ tab2.node[m].key = IF m = n THEN k ELSE tab.node[m].key
         /\ tab2.node[m].next = IF m = mp THEN n ELSE IF m = n THEN at.next ELSE tab.node[m].next
         /\ tab2.node[m].val = IF m = n THEN v ELSE tab.node[m].val
  <2> DEFINE r1 == [at EXCEPT !.next = n]
             r2 == [key |-> k, val |-> v, next |-> at.next]
  <2>1. /\ r1.key = at.key /\ r1.val = at.val /\ r1.next = n
        /\ r2.key = k /\ r2.val = v /\ r2.next = at.next
    BY <1>2
  <2>2. tab2.node = [tab.node EXCEPT ![mp] = r1, ![n] = r2]
    BY DEF PutAfter
  <2> HIDE DEF r1, r2
  <2>3. \A m \in 1 .. size : tab2.node[m] = IF m = n THEN r2 ELSE IF m = mp THEN r1 ELSE tab.node[m]
    BY <2>2, <1>1, <1>2
  <2>4. QED
    BY <2>1, <2>3, <1>1
<1>4. tab2.node \in NodeVectors(size)
  <2> DEFINE R == [key : Keys \cup {NoKey}, val : Cells, next : 0 .. size]
  <2>1. tab.node \in [1 .. size -> R]
    BY DEF Hashed, NodeVectors
  <2>2. [key |-> k, val |-> v, next |-> at.next] \in R
    BY <1>1, HashedFact
  <2>3. [key |-> at.key, val |-> at.val, next |-> n] \in R
    <3>1. at.key \in Keys \cup {NoKey} /\ at.val \in Cells
      BY <1>1, HashedFact
    <3>2. QED
      BY <3>1
  <2> DEFINE r1 == [at EXCEPT !.next = n]
             r2 == [key |-> k, val |-> v, next |-> at.next]
  <2>4. r1 \in R /\ r2 \in R /\ tab2.node = [tab.node EXCEPT ![mp] = r1, ![n] = r2]
    BY <2>2, <2>3, <1>2 DEF PutAfter
  <2> HIDE DEF R, r1, r2
  <2>5. tab2.node \in [1 .. size -> R]
    BY <2>1, <2>4, <1>1
  <2>6. QED
    BY <2>5 DEF NodeVectors, R
<1>5. DOMAIN tab2.node = 1 .. size /\ DOMAIN tab.node = 1 .. size
  BY HashedFact, <1>4 DEF NodeVectors
<1>6. \A i \in 1 .. size : tab.node[i].next # n
  BY <1>5 DEF Hashed, Unused
<1>7. Acyclic(tab2.node)
  <2> DEFINE node == tab.node
             node2 == tab2.node
  <2>1. Acyclic(node)
    BY DEF Hashed
  <2>2. \A i \in DOMAIN node : node2[i].next = IF i = mp THEN n
                                               ELSE IF i = n THEN node[mp].next
                                               ELSE node[i].next
    BY <1>3, <1>5
  <2>3. /\ n # mp /\ DOMAIN node2 = DOMAIN node /\ mp \in DOMAIN node /\ n \in DOMAIN node
        /\ 0 \notin DOMAIN node /\ \A i \in DOMAIN node : node[i].next # n
    BY <2>1, <1>1, <1>5, <1>6
  <2> HIDE DEF node, node2
  <2>4. Acyclic(node2)
    BY <2>1, <2>2, <2>3, InsertedAcyclic
  <2>5. QED
    BY <2>4 DEF node2
<1>8. Unused(tab2.node)
  <2>1. SUFFICES ASSUME NEW m \in 1 .. size, tab2.node[m].key = NoKey
                 PROVE  /\ tab2.node[m].val = NoValue /\ tab2.node[m].next = 0
                        /\ \A i \in 1 .. size : tab2.node[i].next # m
    BY <1>5 DEF Unused
  <2>2. tab.node[m].key = NoKey /\ m # mp /\ m # n
    BY <2>1, <1>0, <1>1, <1>3
  <2>3. /\ tab.node[m].val = NoValue /\ tab.node[m].next = 0
        /\ \A i \in 1 .. size : tab.node[i].next # m
    BY <2>2, <1>5 DEF Hashed, Unused
  <2>4. QED
    BY <2>2, <2>3, <1>1, <1>3
<1>9. Shaped(tab2)
  <2>1. \A i \in 1 .. size : tab2.node[i].next \in 0 .. size
    <3>1. \A i \in 1 .. size : tab.node[i].next \in 0 .. size
      BY HashedFact
    <3>2. at.next \in 0 .. size /\ n \in 0 .. size
      BY <3>1, <1>1
    <3>3. QED
      BY <3>1, <3>2, <1>3
  <2>2. QED
    BY <2>1, <1>5, <1>7, HashedFact DEF Shaped
<1>10. \A x : mainposition(tab2, x) = mainposition(tab, x)
  BY SameMain
<1>11. Native(tab2)
  <2>1. SUFFICES ASSUME NEW m \in 1 .. size, tab2.node[m].key # NoKey,
                        NEW p, p = mainposition(tab2, tab2.node[m].key)
                 PROVE  tab2.node[p].key # NoKey /\ mainposition(tab2, tab2.node[p].key) = p
    BY <1>5 DEF Native
  <2>2. CASE m = n
    <3>1. p = mp /\ tab2.node[p].key = at.key
      BY <2>1, <2>2, <1>1, <1>3, <1>10
    <3>2. QED
      BY <3>1, <1>10
  <2>3. CASE m # n
    <3>1. tab.node[m].key # NoKey /\ p = mainposition(tab, tab.node[m].key)
      BY <2>1, <2>3, <1>3, <1>10
    <3>2. p \in 1 .. size /\ tab.node[p].key # NoKey /\ mainposition(tab, tab.node[p].key) = p
      BY <3>1, MainTaken
    <3>3. QED
      BY <3>2, <1>3, <1>10
  <2>4. QED
    BY <2>2, <2>3
<1>12. Linked(tab2)
  <2>1. SUFFICES ASSUME NEW m \in 1 .. size, tab2.node[m].key # NoKey,
                        NEW x, x = tab2.node[m].key
                 PROVE  NodeOf(tab2, x) = m
    BY <1>5 DEF Linked
  <2>2. CASE m = n
    <3>1. x = k
      BY <2>1, <2>2, <1>3
    <3>2. PICK find : IsSearch(tab2, k, find)
      BY <1>9, SearchExists
    <3>3. at.key # k
      BY <1>0, <1>1, HasNode
    <3>4. find[n] = n
      BY <3>2, <1>3 DEF IsSearch, Searches
    <3>5. tab2.node[mp].key # k /\ tab2.node[mp].next = n
      BY <3>3, <1>1, <1>3
    <3>6. find[mp] = n
      BY <3>2, <3>4, <3>5, <1>1 DEF IsSearch, Searches
    <3>7. mainposition(tab2, k) = mp /\ mp \in 0 .. sizenode(tab2)
      BY <1>1, <1>10
    <3>8. QED
      BY <3>1, <3>2, <3>6, <3>7, <2>2, <1>9, NodeOfIs
  <2>3. CASE m # n
    <3>1. x = tab.node[m].key /\ x # NoKey
      BY <2>1, <2>3, <1>3
    <3>2. x \in AllKeys
      BY <3>1, HashedFact, KeysFact
    <3>3. NodeOf(tab, x) = m
      BY <3>1, <3>2, HasNode
    <3>4. x # k
      BY <3>3
    <3> DEFINE p == mainposition(tab, x)
    <3>5. p \in 1 .. size /\ p # n
      BY <3>1, MainTaken
    <3>6. PICK find : IsSearch(tab, x, find)
      BY HashedFact, SearchExists
    <3>7. find[p] = m
      BY <3>3, <3>5, <3>6, HashedFact, NodeOfIs
    <3> HIDE DEF p
    <3> DEFINE f == [find EXCEPT ![n] = find[at.next]]
    <3>8. at.next \in 0 .. size /\ at.next # n
      BY <1>1, <1>6, HashedFact
    <3>9. DOMAIN find = 0 .. size /\ \A i \in 0 .. size : find[i] \in 0 .. size
      BY <3>6 DEF IsSearch
    <3>10. \A i \in 0 .. size : f[i] \in 0 .. size /\ f[i] = IF i = n THEN find[at.next] ELSE find[i]
      BY <3>8, <3>9
    <3>11. DOMAIN f = 0 .. size
      BY <3>9
    <3> HIDE DEF f
    <3>12. ASSUME NEW i \in 0 .. size
           PROVE  f[i] = IF i = 0 \/ tab2.node[i].key = x THEN i ELSE f[tab2.node[i].next]
      <4>0. find[i] = IF i = 0 \/ tab.node[i].key = x THEN i ELSE find[tab.node[i].next]
        BY <3>6 DEF IsSearch, Searches
      <4>1. CASE i = 0
        BY <4>0, <4>1, <3>10
      <4>2. CASE i = n
        <5>1. tab2.node[i].key = k /\ tab2.node[i].next = at.next
          BY <4>2, <1>1, <1>3
        <5>2. f[at.next] = find[at.next]
          BY <3>8, <3>10
        <5>3. QED
          BY <5>1, <5>2, <4>2, <3>4, <3>10
      <4>3. CASE i = mp
        <5>1. tab2.node[i].key = tab.node[i].key /\ tab2.node[i].next = n
          BY <4>3, <1>1, <1>3
        <5>2. f[i] = find[i] /\ f[n] = find[at.next]
          BY <4>3, <1>1, <3>10
        <5>3. QED
          BY <5>1, <5>2, <4>0, <4>3
      <4>4. CASE i \notin {0, n, mp}
        <5>1. i \in 1 .. size
          BY <4>4
        <5>2. tab2.node[i].key = tab.node[i].key /\ tab2.node[i].next = tab.node[i].next
          BY <5>1, <4>4, <1>3
        <5>3. tab.node[i].next \in 0 .. size /\ tab.node[i].next # n
          BY <5>1, <1>6, HashedFact
        <5>4. f[i] = find[i] /\ f[tab.node[i].next] = find[tab.node[i].next]
          BY <4>4, <5>3, <3>10
        <5>5. QED
          BY <5>2, <5>4, <4>0
      <4>5. QED
        BY <4>1, <4>2, <4>3, <4>4
    <3>13. IsSearch(tab2, x, f)
      <4>1. Searches(tab2, x, f)
        BY <3>11, <3>12 DEF Searches
      <4>2. f \in [0 .. size -> 0 .. size]
        BY <3>10, <3>11, <3>6 DEF f, IsSearch
      <4>3. QED
        BY <4>1, <4>2 DEF IsSearch
    <3>14. mainposition(tab2, x) = p /\ p \in 0 .. sizenode(tab2)
      BY <3>5, <1>10 DEF p
    <3>15. NodeOf(tab2, x) = f[p]
      BY <3>13, <3>14, <1>9, NodeOfIs
    <3>16. QED
      BY <3>15, <3>5, <3>7, <3>10
  <2>4. QED
    BY <2>2, <2>3
<1>13. Hashed(tab2)
  BY <1>4, <1>7, <1>8, <1>11, <1>12 DEF Hashed
<1>14. \A x \in AllKeys : HashGet(tab2, x) = IF x = k THEN v ELSE HashGet(tab, x)
  <2>1. \A m \in 1 .. size : m # n =>
          tab2.node[m].key = tab.node[m].key /\ tab2.node[m].val = tab.node[m].val
    BY <1>3
  <2>2. tab.node[n].val = NoValue
    BY <1>5 DEF Hashed, Unused
  <2>3. tab2.node[n].key = k /\ tab2.node[n].val = v
    BY <1>3
  <2>4. Carried(tab, tab2, k)
    BY <2>1, <2>2, <2>3 DEF Carried
  <2>5. \A x \in AllKeys : x # k => HashGet(tab2, x) = HashGet(tab, x)
    BY <2>4, <1>13, PutFrom
  <2>6. HashGet(tab2, k) = v
    <3>1. n \in 1 .. sizenode(tab2)
      OBVIOUS
    <3>2. \A m \in 1 .. sizenode(tab2) : tab2.node[m].key = k => HashGet(tab2, k) = tab2.node[m].val
      BY <1>0, <1>13, HashGetFact
    <3>3. QED
      BY <2>3, <3>1, <3>2
  <2>7. QED
    BY <2>5, <2>6
<1>15. QED
  BY <1>3, <1>13, <1>14

-----------------------------------------------------------------------------
\* newkey: a key out of its main position moves away.

\* The chains end when a node has moved to a free one, and its old place
\* starts a chain of its own.
LEMMA MovedAcyclic ==
  ASSUME NEW node, NEW node2, NEW mp, NEW n, n # mp,
         DOMAIN node2 = DOMAIN node, mp \in DOMAIN node, n \in DOMAIN node, 0 \notin DOMAIN node,
         Acyclic(node), \A i \in DOMAIN node : node[i].next # n,
         \A i \in DOMAIN node : node2[i].next = IF i = mp THEN 0
                                                ELSE IF i = n THEN node[mp].next
                                                ELSE IF node[i].next = mp THEN n
                                                ELSE node[i].next
  PROVE  Acyclic(node2)
<1>1. SUFFICES ASSUME NEW T \in SUBSET DOMAIN node, T # {}
               PROVE  \E i \in T : node2[i].next \notin T
  BY DEF Acyclic
<1>2. CASE mp \in T
  <2>1. node2[mp].next = 0
    OBVIOUS
  <2>2. QED
    BY <1>2, <2>1
<1>3. CASE mp \notin T
  <2> DEFINE S == IF n \in T THEN (T \ {n}) \cup {mp} ELSE T
  <2>1. S \in SUBSET DOMAIN node /\ S # {} /\ (n \in T => mp \in S) /\ (n \notin T => mp \notin S)
    BY <1>1, <1>3
  <2>2. PICK i \in S : node[i].next \notin S
    <3> HIDE DEF S
    <3>1. QED
      BY <2>1 DEF Acyclic
  <2>3. node[i].next # n /\ i \in DOMAIN node /\ n \notin S
    BY <2>1, <2>2
  <2>4. node[i].next \notin T
    BY <2>2, <2>3
  <2>5. CASE i = mp
    <3>1. n \in T /\ node2[n].next = node[mp].next
      BY <2>2, <2>5, <1>3
    <3>2. QED
      BY <3>1, <2>4, <2>5
  <2>6. CASE i # mp
    <3>1. i \in T /\ i # n
      BY <2>2, <2>3, <2>6
    <3>2. CASE node[i].next = mp
      <4>1. n \notin T
        BY <3>2, <2>1, <2>2
      <4>2. node2[i].next = n
        BY <3>1, <3>2, <2>6
      <4>3. QED
        BY <4>1, <4>2, <3>1
    <3>3. CASE node[i].next # mp
      <4>1. node2[i].next = node[i].next
        BY <3>1, <3>3, <2>6
      <4>2. QED
        BY <4>1, <2>4, <3>1
    <3>4. QED
      BY <3>2, <3>3
  <2>7. QED
    BY <2>5, <2>6
<1>4. QED
  BY <1>2, <1>3

\* The key at the main position has another one: it moves to a free node.
LEMMA Moved ==
  ASSUME NEW tab, Hashed(tab), NEW k \in Keys, NodeOf(tab, k) = 0, NEW v \in Cells,
         NEW mp, mp = mainposition(tab, k), NEW at, at = tab.node[mp],
         at.key # NoKey, mainposition(tab, at.key) # mp,
         NEW n \in 1 .. sizenode(tab), tab.node[n].key = NoKey,
         NEW tab2, tab2.node = MovedAway(tab.node, mp, n, k, v), sizenode(tab2) = sizenode(tab)
  PROVE  /\ Hashed(tab2)
         /\ \A x \in AllKeys : HashGet(tab2, x) = IF x = k THEN v ELSE HashGet(tab, x)
         /\ \A m \in 1 .. sizenode(tab) :
              tab2.node[m].key = IF m = mp THEN k ELSE IF m = n THEN at.key ELSE tab.node[m].key
<1> DEFINE size == sizenode(tab)
<1>s. size \in Nat
  BY HashedFact DEF Shaped
<1>0. k \in AllKeys /\ at.key \in AllKeys /\ k # NoKey
  <2>1. k \in AllKeys /\ k # NoKey
    BY KeysFact
  <2>2. mp \in 1 .. size
    BY <2>1, mainpositionType, HashedFact DEF Shaped
  <2>3. QED
    BY <2>1, <2>2, HashedFact, KeysFact
<1>1. mp \in 1 .. size /\ n # mp
  BY <1>0, mainpositionType, HashedFact DEF Shaped
<1>2. DOMAIN tab.node = 1 .. size /\ DOMAIN tab2.node = 1 .. size
  BY HashedFact DEF MovedAway
<1>3. \A m \in 1 .. size :
         /\ m = mp => tab2.node[m] = [key |-> k, val |-> v, next |-> 0]
         /\ m = n => tab2.node[m] = at
         /\ m # mp /\ m # n =>
              tab2.node[m] = [key |-> tab.node[m].key, val |-> tab.node[m].val,
                              next |-> IF tab.node[m].next = mp THEN n ELSE tab.node[m].next]
  <2>1. SUFFICES ASSUME NEW m \in 1 .. size
                 PROVE  /\ m = mp => tab2.node[m] = [key |-> k, val |-> v, next |-> 0]
                        /\ m = n => tab2.node[m] = at
                        /\ m # mp /\ m # n =>
                             tab2.node[m] = [key |-> tab.node[m].key, val |-> tab.node[m].val,
                                             next |-> IF tab.node[m].next = mp THEN n ELSE tab.node[m].next]
    OBVIOUS
  <2>2. tab2.node[m] = CASE m = mp -> [key |-> k, val |-> v, next |-> 0]
                         [] m = n -> tab.node[mp]
                         [] OTHER -> IF tab.node[m].next = mp THEN [tab.node[m] EXCEPT !.next = n]
                                     ELSE tab.node[m]
    BY <1>2 DEF MovedAway
  <2>3. tab.node[m] = [key |-> tab.node[m].key, val |-> tab.node[m].val, next |-> tab.node[m].next]
    BY HashedFact
  <2>4. [tab.node[m] EXCEPT !.next = n] = [key |-> tab.node[m].key, val |-> tab.node[m].val, next |-> n]
    BY <2>3, NodeRecord
  <2>5. CASE m = mp
    BY <2>2, <2>5, <1>1
  <2>6. CASE m = n
    BY <2>2, <2>6, <1>1
  <2>7. CASE m # mp /\ m # n
    <3>1. tab2.node[m] = IF tab.node[m].next = mp THEN [tab.node[m] EXCEPT !.next = n] ELSE tab.node[m]
      BY <2>2, <2>7
    <3>2. QED
      BY <3>1, <2>3, <2>4, <2>7
  <2>8. QED
    BY <2>5, <2>6, <2>7
<1>4. \A m \in 1 .. size :
         /\ tab2.node[m].key = IF m = mp THEN k ELSE IF m = n THEN at.key ELSE tab.node[m].key
         /\ tab2.node[m].next = IF m = mp THEN 0
                                ELSE IF m = n THEN at.next
                                ELSE IF tab.node[m].next = mp THEN n
                                ELSE tab.node[m].next
         /\ tab2.node[m].val = IF m = mp THEN v ELSE IF m = n THEN at.val ELSE tab.node[m].val
  <2>1. SUFFICES ASSUME NEW m \in 1 .. size
                 PROVE
         /\ tab2.node[m].key = IF m = mp THEN k ELSE IF m = n THEN at.key ELSE tab.node[m].key
         /\ tab2.node[m].next = IF m = mp THEN 0
                                ELSE IF m = n THEN at.next
                                ELSE IF tab.node[m].next = mp THEN n
                                ELSE tab.node[m].next
         /\ tab2.node[m].val = IF m = mp THEN v ELSE IF m = n THEN at.val ELSE tab.node[m].val
    OBVIOUS
  <2>2. CASE m = mp
    <3>1. tab2.node[m] = [key |-> k, val |-> v, next |-> 0]
      BY <2>2, <1>3
    <3>2. tab2.node[m].key = k /\ tab2.node[m].val = v /\ tab2.node[m].next = 0
      BY <3>1
    <3>3. QED
      BY <3>2, <2>2
  <2>3. CASE m = n
    BY <2>3, <1>1, <1>3
  <2>4. CASE m # mp /\ m # n
    <3> DEFINE nx == IF tab.node[m].next = mp THEN n ELSE tab.node[m].next
    <3>1. tab2.node[m] = [key |-> tab.node[m].key, val |-> tab.node[m].val, next |-> nx]
      BY <2>4, <1>3
    <3>2. tab2.node[m].key = tab.node[m].key /\ tab2.node[m].val = tab.node[m].val
          /\ tab2.node[m].next = nx
      <4> HIDE DEF nx
      <4>1. QED
        BY <3>1
    <3>3. QED
      BY <3>2, <2>4
  <2>5. QED
    BY <2>2, <2>3, <2>4
<1>5. tab2.node \in NodeVectors(size)
  <2> DEFINE R == [key : Keys \cup {NoKey}, val : Cells, next : 0 .. size]
  <2>1. tab.node \in [1 .. size -> R]
    BY DEF Hashed, NodeVectors
  <2>2. ASSUME NEW m \in 1 .. size PROVE tab2.node[m] \in R
    <3>1. [key |-> k, val |-> v, next |-> 0] \in R
      BY <1>s
    <3>2. at \in R
      <4> HIDE DEF R
      <4>1. QED
        BY <2>1, <1>1
    <3>3. [key |-> tab.node[m].key, val |-> tab.node[m].val,
           next |-> IF tab.node[m].next = mp THEN n ELSE tab.node[m].next] \in R
      <4>1. /\ tab.node[m].key \in Keys \cup {NoKey} /\ tab.node[m].val \in Cells
            /\ tab.node[m].next \in 0 .. size
        BY HashedFact
      <4>2. n \in 0 .. size
        BY <1>s
      <4>3. QED
        BY <4>1, <4>2
    <3> HIDE DEF R
    <3>4. QED
      BY <3>1, <3>2, <3>3, <1>3
  <2> HIDE DEF R
  <2>3. tab2.node = [m \in 1 .. size |-> tab2.node[m]]
    BY <1>2 DEF MovedAway
  <2>4. tab2.node \in [1 .. size -> R]
    BY <2>2, <2>3
  <2>5. QED
    BY <2>4 DEF NodeVectors, R
<1>6. \A i \in 1 .. size : tab.node[i].next # n
  BY <1>2 DEF Hashed, Unused
<1>7. Acyclic(tab2.node)
  <2> DEFINE node == tab.node
             node2 == tab2.node
  <2>1. Acyclic(node)
    BY DEF Hashed
  <2>2. \A i \in DOMAIN node : node2[i].next = IF i = mp THEN 0
                                               ELSE IF i = n THEN node[mp].next
                                               ELSE IF node[i].next = mp THEN n
                                               ELSE node[i].next
    BY <1>4, <1>2
  <2>3. /\ n # mp /\ DOMAIN node2 = DOMAIN node /\ mp \in DOMAIN node /\ n \in DOMAIN node
        /\ 0 \notin DOMAIN node /\ \A i \in DOMAIN node : node[i].next # n
    BY <1>1, <1>2, <1>6
  <2> HIDE DEF node, node2
  <2>4. Acyclic(node2)
    BY <2>1, <2>2, <2>3, MovedAcyclic
  <2>5. QED
    BY <2>4 DEF node2
<1>8. Unused(tab2.node)
  <2>1. SUFFICES ASSUME NEW m \in 1 .. size, tab2.node[m].key = NoKey
                 PROVE  /\ tab2.node[m].val = NoValue /\ tab2.node[m].next = 0
                        /\ \A i \in 1 .. size : tab2.node[i].next # m
    BY <1>2 DEF Unused
  <2>2. tab.node[m].key = NoKey /\ m # mp /\ m # n
    BY <2>1, <1>0, <1>1, <1>4
  <2>3. /\ tab.node[m].val = NoValue /\ tab.node[m].next = 0
        /\ \A i \in 1 .. size : tab.node[i].next # m
    BY <2>2, <1>2 DEF Hashed, Unused
  <2>4. QED
    BY <2>2, <2>3, <1>1, <1>4
<1>9. Shaped(tab2)
  <2>1. \A i \in 1 .. size : tab2.node[i].next \in 0 .. size
    <3>1. \A i \in 1 .. size : tab.node[i].next \in 0 .. size
      BY HashedFact
    <3>2. at.next \in 0 .. size /\ n \in 0 .. size /\ 0 \in 0 .. size
      BY <3>1, <1>1, <1>s
    <3>3. QED
      BY <3>1, <3>2, <1>4
  <2>2. QED
    BY <2>1, <1>2, <1>7, HashedFact DEF Shaped
<1>10. \A x : mainposition(tab2, x) = mainposition(tab, x)
  BY SameMain
<1>11. \A i \in 1 .. size : tab.node[i].key # NoKey => mainposition(tab, tab.node[i].key) \notin {mp, n}
  BY MainTaken
<1>12. Native(tab2)
  <2>1. SUFFICES ASSUME NEW m \in 1 .. size, tab2.node[m].key # NoKey,
                        NEW p, p = mainposition(tab2, tab2.node[m].key)
                 PROVE  tab2.node[p].key # NoKey /\ mainposition(tab2, tab2.node[p].key) = p
    BY <1>2 DEF Native
  <2>2. CASE m = mp
    <3>1. p = mp /\ tab2.node[p].key = k
      BY <2>1, <2>2, <1>1, <1>4, <1>10
    <3>2. QED
      BY <3>1, <1>0, <1>10
  <2>3. CASE m # mp
    <3>1. PICK i \in 1 .. size : tab.node[i].key # NoKey /\ p = mainposition(tab, tab.node[i].key)
      BY <2>1, <2>3, <1>1, <1>4, <1>10
    <3>2. p \in 1 .. size /\ tab.node[p].key # NoKey /\ mainposition(tab, tab.node[p].key) = p
      BY <3>1, MainTaken
    <3>3. p \notin {mp, n}
      BY <3>1, <1>11
    <3>4. QED
      BY <3>2, <3>3, <1>4, <1>10
  <2>4. QED
    BY <2>2, <2>3
<1>13. Linked(tab2)
  <2>1. SUFFICES ASSUME NEW m \in 1 .. size, tab2.node[m].key # NoKey,
                        NEW x, x = tab2.node[m].key
                 PROVE  NodeOf(tab2, x) = m
    BY <1>2 DEF Linked
  <2>2. CASE m = mp
    <3>1. x = k
      BY <2>1, <2>2, <1>4
    <3>2. PICK find : IsSearch(tab2, k, find)
      BY <1>9, SearchExists
    <3>3. find[mp] = mp
      BY <3>2, <1>1, <1>4 DEF IsSearch, Searches
    <3>4. mainposition(tab2, k) = mp /\ mp \in 0 .. sizenode(tab2)
      BY <1>1, <1>10
    <3>5. QED
      BY <3>1, <3>2, <3>3, <3>4, <2>2, <1>9, NodeOfIs
  <2>3. CASE m # mp
    <3> DEFINE Moves(i) == IF i = mp THEN n ELSE i
    <3>1. PICK w \in 1 .. size : x = tab.node[w].key /\ m = Moves(w)
      BY <2>1, <2>3, <1>1, <1>4
    <3>2. x \in AllKeys /\ x # NoKey
      BY <2>1, <3>1, HashedFact, KeysFact
    <3>3. NodeOf(tab, x) = w
      BY <3>1, <3>2, HasNode
    <3>4. x # k
      BY <3>3
    <3> DEFINE p == mainposition(tab, x)
    <3>5. p \in 1 .. size /\ p # mp /\ p # n
      BY <3>1, <3>2, <1>11, MainTaken
    <3>6. PICK find : IsSearch(tab, x, find)
      BY HashedFact, SearchExists
    <3>7. find[p] = w
      BY <3>3, <3>5, <3>6, HashedFact, NodeOfIs
    <3> HIDE DEF p
    <3>8. DOMAIN find = 0 .. size /\ \A i \in 0 .. size : find[i] \in 0 .. size
      BY <3>6 DEF IsSearch
    <3> DEFINE f == [i \in 0 .. size |-> IF i = mp THEN 0
                                         ELSE IF i = n THEN Moves(find[mp]) ELSE Moves(find[i])]
    <3>9. ASSUME NEW i \in 0 .. size PROVE f[i] \in 0 .. size
      <4>1. find[mp] \in 0 .. size /\ find[i] \in 0 .. size
        BY <3>8, <1>1, <1>s
      <4>2. \A j \in 0 .. size : Moves(j) \in 0 .. size
        BY <1>1, <1>s
      <4>3. f[i] = IF i = mp THEN 0 ELSE IF i = n THEN Moves(find[mp]) ELSE Moves(find[i])
        OBVIOUS
      <4> HIDE DEF Moves, f
      <4>4. QED
        BY <4>1, <4>2, <4>3, <1>s
    <3>10. /\ f[mp] = 0 /\ f[n] = Moves(find[mp])
           /\ \A i \in 0 .. size : i # mp /\ i # n => f[i] = Moves(find[i])
      BY <1>1
    <3>11. DOMAIN f = 0 .. size
      OBVIOUS
    <3>12. find[0] = 0 /\ 0 \in 0 .. size
      BY <3>6, <1>s DEF IsSearch, Searches
    <3> HIDE DEF f
    <3>13. at.next \in 0 .. size /\ at.next # n /\ at.next # mp
      <4>1. at.next \in 0 .. size /\ at.next # n
        BY <1>1, <1>6, HashedFact
      <4>2. PICK i \in {mp} : tab.node[i].next \notin {mp}
        <5>1. {mp} \in SUBSET DOMAIN tab.node /\ {mp} # {}
          BY <1>1, <1>2
        <5>2. QED
          BY <5>1 DEF Hashed, Acyclic
      <4>3. QED
        BY <4>1, <4>2
    <3>14. ASSUME NEW i \in 0 .. size
           PROVE  f[i] = IF i = 0 \/ tab2.node[i].key = x THEN i ELSE f[tab2.node[i].next]
      <4>0. find[i] = IF i = 0 \/ tab.node[i].key = x THEN i ELSE find[tab.node[i].next]
        BY <3>6 DEF IsSearch, Searches
      <4>1. CASE i = 0
        BY <4>1, <3>10, <3>12, <1>1
      <4>2. CASE i = mp
        <5>1. tab2.node[i].key = k /\ tab2.node[i].next = 0
          BY <4>2, <1>1, <1>4
        <5>2. f[0] = 0
          BY <3>10, <3>12, <1>1
        <5>3. QED
          BY <5>1, <5>2, <4>2, <3>4, <3>10, <1>1
      <4>3. CASE i = n
        <5>1. tab2.node[i].key = at.key /\ tab2.node[i].next = at.next
          BY <4>3, <1>1, <1>4
        <5>2. find[mp] = IF at.key = x THEN mp ELSE find[at.next]
          BY <3>6, <1>1 DEF IsSearch, Searches
        <5>3. f[at.next] = Moves(find[at.next])
          BY <3>10, <3>13
        <5>4. CASE at.key = x
          BY <5>1, <5>2, <5>4, <4>3, <3>10
        <5>5. CASE at.key # x
          BY <5>1, <5>2, <5>3, <5>5, <4>3, <3>10
        <5>6. QED
          BY <5>4, <5>5
      <4>4. CASE i \notin {0, n, mp}
        <5>1. i \in 1 .. size
          BY <4>4
        <5>2. /\ tab2.node[i].key = tab.node[i].key
              /\ tab2.node[i].next = IF tab.node[i].next = mp THEN n ELSE tab.node[i].next
          BY <5>1, <4>4, <1>4
        <5>3. tab.node[i].next \in 0 .. size /\ tab.node[i].next # n
          BY <5>1, <1>6, HashedFact
        <5>4. f[i] = Moves(find[i])
          BY <4>4, <3>10
        <5>5. f[tab2.node[i].next] = Moves(find[tab.node[i].next])
          BY <5>2, <5>3, <3>10
        <5>6. CASE tab.node[i].key = x
          BY <5>2, <5>4, <5>6, <4>0, <4>4
        <5>7. CASE tab.node[i].key # x
          BY <5>2, <5>4, <5>5, <5>7, <4>0, <4>4
        <5>8. QED
          BY <5>6, <5>7
      <4>5. QED
        BY <4>1, <4>2, <4>3, <4>4
    <3>15. IsSearch(tab2, x, f)
      <4>1. Searches(tab2, x, f)
        BY <3>11, <3>14 DEF Searches
      <4>2. f \in [0 .. size -> 0 .. size]
        BY <3>9, <3>11 DEF f
      <4>3. QED
        BY <4>1, <4>2 DEF IsSearch
    <3>16. mainposition(tab2, x) = p /\ p \in 0 .. sizenode(tab2)
      BY <3>5, <1>10 DEF p
    <3>17. NodeOf(tab2, x) = f[p]
      BY <3>15, <3>16, <1>9, NodeOfIs
    <3>18. QED
      BY <3>1, <3>17, <3>5, <3>7, <3>10
  <2>4. QED
    BY <2>2, <2>3
<1>14. Hashed(tab2)
  BY <1>5, <1>7, <1>8, <1>12, <1>13 DEF Hashed
<1>15. \A x \in AllKeys : HashGet(tab2, x) = IF x = k THEN v ELSE HashGet(tab, x)
  <2>1. \A m \in 1 .. size : m # n /\ m # mp =>
          tab2.node[m].key = tab.node[m].key /\ tab2.node[m].val = tab.node[m].val
    BY <1>4
  <2>2. tab.node[n].val = NoValue
    BY <1>2 DEF Hashed, Unused
  <2>3. /\ tab2.node[mp].key = k /\ tab2.node[mp].val = v
        /\ tab2.node[n].key = tab.node[mp].key /\ tab2.node[n].val = tab.node[mp].val
    BY <1>1, <1>4
  <2>4. Carried(tab, tab2, k)
    BY <2>1, <2>2, <2>3, <1>1 DEF Carried
  <2>5. \A x \in AllKeys : x # k => HashGet(tab2, x) = HashGet(tab, x)
    BY <2>4, <1>14, PutFrom
  <2>6. HashGet(tab2, k) = v
    <3>1. mp \in 1 .. sizenode(tab2)
      BY <1>1
    <3>2. \A m \in 1 .. sizenode(tab2) : tab2.node[m].key = k => HashGet(tab2, k) = tab2.node[m].val
      BY <1>0, <1>14, HashGetFact
    <3>3. QED
      BY <2>3, <3>1, <3>2
  <2>7. QED
    BY <2>5, <2>6
<1>16. QED
  BY <1>4, <1>14, <1>15

-----------------------------------------------------------------------------
\* getfreepos.

HashKeys(tab) == {tab.node[n].key : n \in 1 .. sizenode(tab)} \ {NoKey}

\* What luaH_set asks before it puts a key into the table as it is.
HasRoom(tab, k) ==
  InArray(tab, k) \/ NodeOf(tab, k) # 0 \/ ~NeedsNode(tab, k) \/ getfreepos(tab) # 0

\* A node has no key while there are fewer keys than nodes.
LEMMA FreeNode ==
  ASSUME NEW tab, Hashed(tab), NEW k \in Keys, NodeOf(tab, k) = 0,
         NEW B, IsFiniteSet(B), HashKeys(tab) \subseteq B, k \in B, Cardinality(B) <= sizenode(tab)
  PROVE  \E n \in 1 .. sizenode(tab) : tab.node[n].key = NoKey
<1> DEFINE size == sizenode(tab)
           C == B \ {k}
           f == [n \in 1 .. size |-> tab.node[n].key]
<1>1. SUFFICES ASSUME \A n \in 1 .. size : tab.node[n].key # NoKey PROVE FALSE
  OBVIOUS
<1>2. size \in Nat \ {0}
  BY HashedFact DEF Shaped
<1>3. IsFiniteSet(C) /\ Cardinality(C) = Cardinality(B) - 1 /\ Cardinality(B) \in Nat
  BY FS_RemoveElement, FS_CardinalityType
<1>4. k \in AllKeys
  BY KeysFact
<1>5. \A n \in 1 .. size : tab.node[n].key # k
  BY <1>4, HasNode
<1>6. \A n \in 1 .. size : tab.node[n].key \in C
  BY <1>1, <1>5 DEF HashKeys
<1>7. IsFiniteSet(1 .. size) /\ Cardinality(1 .. size) = size
  BY <1>2, FS_Interval
<1>8. Cardinality(1 .. size) > Cardinality(C)
  BY <1>2, <1>3, <1>7
<1>9. f \in [1 .. size -> C]
  BY <1>6
<1>10. \E x, y \in 1 .. size : x # y /\ f[x] = f[y]
  <2> HIDE DEF f, C, size
  <2>1. QED
    BY <1>3, <1>7, <1>8, <1>9, FS_PigeonHole
<1>11. PICK x \in 1 .. size, y \in 1 .. size : x # y /\ tab.node[x].key = tab.node[y].key
  BY <1>10
<1>12. tab.node[x].key \in AllKeys
  BY <1>1, HashedFact, KeysFact
<1>13. QED
  BY <1>11, <1>12, HasNode

\* getfreepos gives a node without a key, and none only when all are in use.
LEMMA getfreeposFact ==
  ASSUME NEW tab, Hashed(tab), tab.lastfree \in 0 .. sizenode(tab) + 1, Passed(tab)
  PROVE  /\ getfreepos(tab) # 0 =>
              /\ getfreepos(tab) \in 1 .. sizenode(tab) /\ getfreepos(tab) < tab.lastfree
              /\ tab.node[getfreepos(tab)].key = NoKey
              /\ \A m \in 1 .. sizenode(tab) : m > getfreepos(tab) /\ m < tab.lastfree => tab.node[m].key # NoKey
         /\ getfreepos(tab) = 0 /\ ~tab.dummy => \A n \in 1 .. sizenode(tab) : tab.node[n].key # NoKey
<1> DEFINE free == {n \in 1 .. tab.lastfree - 1 : tab.node[n].key = NoKey}
           size == sizenode(tab)
<1>1. size \in Nat \ {0} /\ DOMAIN tab.node = 1 .. size
  BY HashedFact DEF Shaped
<1>2. free \subseteq 1 .. size /\ free \subseteq 0 .. size
  BY <1>1
<1>3. getfreepos(tab) = IF free = {} THEN 0 ELSE CHOOSE n \in free : \A m \in free : m <= n
  BY DEF getfreepos
<1>4. CASE free = {}
  <2>1. getfreepos(tab) = 0
    BY <1>3, <1>4
  <2>2. ASSUME ~tab.dummy, NEW n \in 1 .. size PROVE tab.node[n].key # NoKey
    <3>1. CASE n >= tab.lastfree
      BY <2>2, <3>1, <1>1 DEF Passed
    <3>2. CASE n < tab.lastfree
      <4>1. n \in 1 .. tab.lastfree - 1
        BY <3>2, <1>1
      <4>2. QED
        BY <4>1, <1>4
    <3>3. QED
      BY <3>1, <3>2, <1>1
  <2>3. QED
    BY <2>1, <2>2
<1>5. CASE free # {}
  <2>1. \E n \in free : \A m \in free : m <= n
    <3> HIDE DEF free
    <3>1. QED
      BY <1>1, <1>2, <1>5, Greatest
  <2>2. getfreepos(tab) \in free /\ \A m \in free : m <= getfreepos(tab)
    <3> HIDE DEF free
    <3>1. QED
      BY <1>3, <1>5, <2>1
  <2> DEFINE g == getfreepos(tab)
  <2> HIDE DEF g
  <2>3. g \in free /\ \A m \in free : m <= g
    BY <2>2 DEF g
  <2>4. g \in 1 .. size /\ g < tab.lastfree /\ tab.node[g].key = NoKey /\ g # 0
    BY <1>1, <1>2, <2>3
  <2>5. ASSUME NEW m \in 1 .. size, m > g, m < tab.lastfree PROVE tab.node[m].key # NoKey
    <3>1. m \in 1 .. tab.lastfree - 1 /\ ~(m <= g)
      BY <2>4, <2>5, <1>1
    <3>2. QED
      BY <3>1, <2>3
  <2>6. QED
    BY <2>4, <2>5 DEF g
<1>6. QED
  BY <1>4, <1>5

-----------------------------------------------------------------------------
\* newkey and luaH_get.

\* The length of a function from 1 to n.
LEMMA LenOf ==
  ASSUME NEW n \in Nat, NEW f, f = [i \in 1 .. n |-> f[i]]
  PROVE  Len(f) = n
<1> DEFINE S == {f[i] : i \in 1 .. n}
<1>1. f \in [1 .. n -> S]
  OBVIOUS
<1> HIDE DEF S
<1>2. QED
  BY <1>1

\* newkey gives the key its value and changes no other, in each of its three
\* cases: the main position is free, taken by a key out of its own, or by one in it.
LEMMA PlacedFact ==
  ASSUME NEW tab, Hashed(tab), NEW k \in Keys, NodeOf(tab, k) = 0, NEW v \in Cells, NEW n,
         tab.node[mainposition(tab, k)].val # NoValue =>
           n \in 1 .. sizenode(tab) /\ tab.node[n].key = NoKey,
         NEW tab2, tab2.node = Placed(tab, k, v, n)
  PROVE  /\ Hashed(tab2) /\ sizenode(tab2) = sizenode(tab)
         /\ \A x \in AllKeys : HashGet(tab2, x) = IF x = k THEN v ELSE HashGet(tab, x)
         /\ \A m \in 1 .. sizenode(tab) : tab.node[m].key # NoKey => tab2.node[m].key # NoKey
         /\ tab.node[mainposition(tab, k)].val # NoValue => tab2.node[n].key # NoKey
         /\ HashKeys(tab2) \subseteq HashKeys(tab) \cup {k}
<1> DEFINE mp == mainposition(tab, k)
           at == tab.node[mp]
           size == sizenode(tab)
<1>0. k \in AllKeys /\ k # NoKey /\ size \in Nat \ {0} /\ DOMAIN tab.node = 1 .. size
  BY KeysFact, HashedFact DEF Shaped
<1>1. mp \in 1 .. size
  BY <1>0, mainpositionType
<1>2. at.val # NoValue => at.key # NoKey
  BY <1>0, <1>1 DEF Hashed, Unused
<1>3. sizenode(tab2) = size
  <2>1. DOMAIN tab2.node = 1 .. size /\ tab2.node = [i \in DOMAIN tab2.node |-> tab2.node[i]]
    BY <1>0 DEF Placed, MovedAway
  <2>2. Len(tab2.node) = size
    BY <2>1, <1>0, LenOf
  <2>3. QED
    BY <2>2 DEF sizenode
<1>4. CASE at.val = NoValue
  <2>1. tab2.node = TakenOver(tab.node, mp, k, v)
    BY <1>4 DEF Placed, TakenOver
  <2>2. /\ Hashed(tab2)
        /\ \A x \in AllKeys : HashGet(tab2, x) = IF x = k THEN v ELSE HashGet(tab, x)
        /\ \A m \in 1 .. size : tab2.node[m].key = IF m = mp THEN k ELSE tab.node[m].key
    BY <1>3, <1>4, <2>1, Reused
  <2>3. \A m \in 1 .. size : tab.node[m].key # NoKey => tab2.node[m].key # NoKey
    BY <2>2, <1>0
  <2>4. HashKeys(tab2) \subseteq HashKeys(tab) \cup {k}
    BY <2>2, <1>3 DEF HashKeys
  <2>5. QED
    BY <2>2, <2>3, <2>4, <1>3, <1>4
<1>5. CASE at.val # NoValue /\ mainposition(tab, at.key) # mp
  <2>1. tab2.node = MovedAway(tab.node, mp, n, k, v)
    BY <1>5 DEF Placed
  <2>2. n \in 1 .. size /\ tab.node[n].key = NoKey
    BY <1>5
  <2>3. /\ Hashed(tab2)
        /\ \A x \in AllKeys : HashGet(tab2, x) = IF x = k THEN v ELSE HashGet(tab, x)
        /\ \A m \in 1 .. size :
             tab2.node[m].key = IF m = mp THEN k ELSE IF m = n THEN at.key ELSE tab.node[m].key
    BY <1>2, <1>3, <1>5, <2>1, <2>2, Moved
  <2>4. \A m \in 1 .. size : tab.node[m].key # NoKey => tab2.node[m].key # NoKey
    BY <2>2, <2>3, <1>0
  <2>5. tab2.node[n].key # NoKey
    BY <2>2, <2>3, <1>0, <1>2, <1>5
  <2>6. HashKeys(tab2) \subseteq HashKeys(tab) \cup {k}
    BY <2>3, <1>1, <1>3 DEF HashKeys
  <2>7. QED
    BY <2>3, <2>4, <2>5, <2>6, <1>3
<1>6. CASE at.val # NoValue /\ mainposition(tab, at.key) = mp
  <2>1. tab2.node = PutAfter(tab.node, mp, n, k, v)
    BY <1>6 DEF Placed, PutAfter
  <2>2. n \in 1 .. size /\ tab.node[n].key = NoKey
    BY <1>6
  <2>3. /\ Hashed(tab2)
        /\ \A x \in AllKeys : HashGet(tab2, x) = IF x = k THEN v ELSE HashGet(tab, x)
        /\ \A m \in 1 .. size : tab2.node[m].key = IF m = n THEN k ELSE tab.node[m].key
    BY <1>2, <1>3, <1>6, <2>1, <2>2, Inserted
  <2>4. \A m \in 1 .. size : tab.node[m].key # NoKey => tab2.node[m].key # NoKey
    BY <2>3, <1>0
  <2>5. tab2.node[n].key # NoKey
    BY <2>2, <2>3, <1>0
  <2>6. HashKeys(tab2) \subseteq HashKeys(tab) \cup {k}
    BY <2>3, <1>3 DEF HashKeys
  <2>7. QED
    BY <2>3, <2>4, <2>5, <2>6, <1>3
<1>7. QED
  BY <1>4, <1>5, <1>6

\* luaH_get asks the array or the nodes.
LEMMA luaH_getFact ==
  ASSUME NEW tab, TabInv(tab), NEW x \in AllKeys
  PROVE  /\ luaH_get(tab, x) = IF InArray(tab, x) THEN tab.array[x] ELSE HashGet(tab, x)
         /\ luaH_get(tab, x) \in Cells /\ (luaH_get(tab, x) # NoValue => x \in Keys)
         /\ InArray(tab, x) <=> x \in 1 .. Len(tab.array)
<1>1. luaH_get(tab, x) = IF InArray(tab, x) THEN tab.array[x] ELSE HashGet(tab, x)
  BY DEF luaH_get, HashGet
<1>2. DOMAIN tab.array = 1 .. Len(tab.array) /\ Hashed(tab)
  BY DEF TabInv, TabType
<1>3. InArray(tab, x) <=> x \in 1 .. Len(tab.array)
  BY KeysFact, PowersFact DEF InArray, TabInv, TabType
<1>4. CASE InArray(tab, x)
  <2>1. tab.array[x] \in Cells /\ (tab.array[x] # NoValue => x \in Numbers)
    BY <1>2, <1>3, <1>4 DEF TabInv, TabType, Apart
  <2>2. QED
    BY <1>1, <1>3, <1>4, <2>1 DEF Keys
<1>5. CASE ~InArray(tab, x)
  BY <1>1, <1>2, <1>3, <1>5, HashGetFact
<1>6. QED
  BY <1>1, <1>3, <1>4, <1>5

-----------------------------------------------------------------------------
\* luaH_set in a table that has room.

\* The hash part stays as it is where no node is assigned.
LEMMA SameNodes ==
  ASSUME NEW tab, Hashed(tab), NEW tab2, tab2.node = tab.node
  PROVE  /\ Hashed(tab2) /\ sizenode(tab2) = sizenode(tab) /\ HashKeys(tab2) = HashKeys(tab)
         /\ \A x \in AllKeys : NodeOf(tab2, x) = NodeOf(tab, x) /\ HashGet(tab2, x) = HashGet(tab, x)
<1>1. sizenode(tab2) = sizenode(tab)
  BY DEF sizenode
<1>2. \A x : mainposition(tab2, x) = mainposition(tab, x)
  BY <1>1, SameMain
<1>3. Shaped(tab2) /\ Shaped(tab)
  BY <1>1, HashedFact DEF Shaped
<1>4. ASSUME NEW x \in AllKeys PROVE NodeOf(tab2, x) = NodeOf(tab, x)
  <2>1. PICK find : IsSearch(tab, x, find)
    BY <1>3, SearchExists
  <2>2. IsSearch(tab2, x, find)
    BY <2>1, <1>1 DEF IsSearch, Searches
  <2>3. mainposition(tab, x) \in 0 .. sizenode(tab)
    BY <1>3, mainpositionType DEF Shaped
  <2>4. NodeOf(tab, x) = find[mainposition(tab, x)]
    BY <1>3, <2>1, <2>3, NodeOfIs
  <2>5. NodeOf(tab2, x) = find[mainposition(tab2, x)]
    BY <1>1, <1>2, <1>3, <2>2, <2>3, NodeOfIs
  <2>6. QED
    BY <2>4, <2>5, <1>2
<1>5. ASSUME NEW x \in AllKeys PROVE HashGet(tab2, x) = HashGet(tab, x)
  BY <1>4 DEF HashGet
<1>6. Native(tab2)
  BY <1>2 DEF Hashed, Native
<1>7. Linked(tab2)
  <2>1. SUFFICES ASSUME NEW n \in DOMAIN tab.node, tab.node[n].key # NoKey
                 PROVE  NodeOf(tab2, tab.node[n].key) = n
    BY DEF Linked
  <2>2. tab.node[n].key \in AllKeys
    BY <2>1, HashedFact, KeysFact
  <2>3. QED
    BY <2>1, <2>2, <1>4 DEF Hashed, Linked
<1>8. HashKeys(tab2) = HashKeys(tab)
  BY <1>1 DEF HashKeys
<1>9. QED
  BY <1>1, <1>4, <1>5, <1>6, <1>7, <1>8 DEF Hashed

\* SetInRoom gives the key its value, and nothing else changes.
SetsOnly(tab, k, v, t2) ==
  /\ TabInv(t2)
  /\ \A x \in AllKeys : luaH_get(t2, x) = IF x = k THEN v ELSE luaH_get(tab, x)
  /\ Len(t2.array) = Len(tab.array) /\ sizenode(t2) = sizenode(tab) /\ t2.dummy = tab.dummy
  /\ HashKeys(t2) \subseteq HashKeys(tab) \cup (IF InArray(tab, k) THEN {} ELSE {k})
  /\ InArray(tab, k) \/ NodeOf(tab, k) # 0 =>
       /\ \A x \in AllKeys : NodeOf(t2, x) = NodeOf(tab, x)
       /\ \A n \in 1 .. sizenode(tab) : t2.node[n].key = tab.node[n].key

\* A key is in the array part when it is one of its indices.
LEMMA InArrayFact ==
  ASSUME NEW tab, TabInv(tab), NEW k
  PROVE  InArray(tab, k) <=> k \in 1 .. Len(tab.array)
  BY KeysFact, PowersFact DEF InArray, TabInv, TabType

\* An assignment to the array part, and one to the hash part.
LEMMA ArraySet ==
  ASSUME NEW tab, TabInv(tab), NEW k \in Keys, NEW v \in Cells, InArray(tab, k),
         NEW t2, t2 = SetInRoom(tab, k, v)
  PROVE  SetsOnly(tab, k, v, t2)
<1>1. k \in 1 .. Len(tab.array) /\ k \in Numbers /\ k \in AllKeys
  BY InArrayFact, KeysFact DEF Keys, InArray
<1>2. t2 = [tab EXCEPT !.array[k] = v] /\ DOMAIN tab = {"array", "node", "dummy", "lastfree"}
  BY DEF SetInRoom, TabInv, TabType
<1>3. /\ DOMAIN t2 = {"array", "node", "dummy", "lastfree"} /\ t2.array = [tab.array EXCEPT ![k] = v]
      /\ t2.node = tab.node /\ t2.dummy = tab.dummy /\ t2.lastfree = tab.lastfree
  BY <1>2
<1> HIDE DEF SetInRoom
<1>4. Len(tab.array) \in Nat /\ tab.array \in [1 .. Len(tab.array) -> Cells]
  BY PowersFact DEF TabInv, TabType
<1>5. t2.array \in [1 .. Len(tab.array) -> Cells] /\ Len(t2.array) = Len(tab.array)
  BY <1>1, <1>3, <1>4
<1>6. Hashed(tab)
  BY DEF TabInv
<1>7. /\ Hashed(t2) /\ sizenode(t2) = sizenode(tab) /\ HashKeys(t2) = HashKeys(tab)
      /\ \A x \in AllKeys : NodeOf(t2, x) = NodeOf(tab, x) /\ HashGet(t2, x) = HashGet(tab, x)
  BY <1>3, <1>6, SameNodes
<1>8. TabType(t2)
  BY <1>3, <1>5, <1>7 DEF TabInv, TabType
<1>9. Apart(t2)
  <2>1. \A n \in DOMAIN t2.node : t2.node[n].key \notin 1 .. Len(t2.array)
    BY <1>3, <1>5 DEF TabInv, Apart
  <2>2. \A i \in DOMAIN t2.array : t2.array[i] # NoValue => i \in Numbers
    BY <1>1, <1>3, <1>4 DEF TabInv, Apart
  <2>3. QED
    BY <2>1, <2>2 DEF Apart
<1>10. Passed(t2)
  BY <1>3, <1>7 DEF TabInv, Passed
<1>11. TabInv(t2)
  BY <1>7, <1>8, <1>9, <1>10 DEF TabInv
<1>12. ASSUME NEW x \in AllKeys PROVE luaH_get(t2, x) = IF x = k THEN v ELSE luaH_get(tab, x)
  <2>1. InArray(t2, x) <=> InArray(tab, x)
    BY <1>5 DEF InArray
  <2>2. luaH_get(tab, x) = IF InArray(tab, x) THEN tab.array[x] ELSE HashGet(tab, x)
    BY luaH_getFact
  <2>3. luaH_get(t2, x) = IF InArray(tab, x) THEN t2.array[x] ELSE HashGet(tab, x)
    BY <1>7, <1>11, <2>1, luaH_getFact
  <2>4. CASE InArray(tab, x)
    <3>1. x \in 1 .. Len(tab.array)
      BY <2>4, InArrayFact
    <3>2. QED
      BY <3>1, <2>2, <2>3, <2>4, <1>3, <1>4
  <2>5. CASE ~InArray(tab, x)
    BY <2>2, <2>3, <2>5
  <2>6. QED
    BY <2>4, <2>5
<1>13. QED
  BY <1>3, <1>5, <1>7, <1>11, <1>12 DEF SetsOnly

\* The same for a key that goes to the nodes, from what happens to them.
LEMMA HashSet ==
  ASSUME NEW tab, TabInv(tab), NEW k \in Keys, NEW v \in Cells, ~InArray(tab, k),
         NEW t2, Hashed(t2), sizenode(t2) = sizenode(tab),
         DOMAIN t2 = {"array", "node", "dummy", "lastfree"},
         t2.array = tab.array, t2.dummy = tab.dummy, t2.lastfree \in 0 .. sizenode(tab) + 1,
         \A x \in AllKeys : HashGet(t2, x) = IF x = k THEN v ELSE HashGet(tab, x),
         HashKeys(t2) \subseteq HashKeys(tab) \cup {k},
         Passed(t2),
         NodeOf(tab, k) # 0 =>
           /\ \A x \in AllKeys : NodeOf(t2, x) = NodeOf(tab, x)
           /\ \A n \in 1 .. sizenode(tab) : t2.node[n].key = tab.node[n].key
  PROVE  SetsOnly(tab, k, v, t2)
<1>1. k \notin 1 .. Len(tab.array)
  BY InArrayFact
<1>2. TabType(t2)
  BY DEF TabInv, TabType
<1>3. Apart(t2)
  <2>1. ASSUME NEW n \in DOMAIN t2.node PROVE t2.node[n].key \notin 1 .. Len(t2.array)
    <3>1. n \in 1 .. sizenode(t2)
      BY HashedFact
    <3>2. t2.node[n].key \in HashKeys(tab) \cup {k, NoKey}
      BY <3>1 DEF HashKeys
    <3>3. NoKey \notin 1 .. Len(tab.array)
      BY PowersFact DEF NoKey, TabInv, TabType
    <3>4. \A x \in HashKeys(tab) : x \notin 1 .. Len(tab.array)
      BY HashedFact DEF TabInv, Apart, HashKeys
    <3>5. QED
      BY <3>2, <3>3, <3>4, <1>1
  <2>2. QED
    BY <2>1 DEF TabInv, Apart
<1>4. TabInv(t2)
  BY <1>2, <1>3 DEF TabInv
<1>5. ASSUME NEW x \in AllKeys PROVE luaH_get(t2, x) = IF x = k THEN v ELSE luaH_get(tab, x)
  <2>1. InArray(t2, x) <=> InArray(tab, x)
    BY DEF InArray
  <2>2. luaH_get(tab, x) = IF InArray(tab, x) THEN tab.array[x] ELSE HashGet(tab, x)
    BY luaH_getFact
  <2>3. luaH_get(t2, x) = IF InArray(tab, x) THEN tab.array[x] ELSE HashGet(t2, x)
    BY <1>4, <2>1, luaH_getFact
  <2>4. QED
    BY <2>2, <2>3
<1>6. QED
  BY <1>4, <1>5 DEF SetsOnly

\* luaH_set, in a table that has room for the key, gives it its value and
\* changes no other; a key that has a place already keeps it, as all others do.
LEMMA SetInRoomFact ==
  ASSUME NEW tab, TabInv(tab), NEW k \in Keys, NEW v \in Cells, HasRoom(tab, k),
         NEW t2, t2 = SetInRoom(tab, k, v)
  PROVE  SetsOnly(tab, k, v, t2)
<1>0. k \in AllKeys /\ Hashed(tab) /\ DOMAIN tab = {"array", "node", "dummy", "lastfree"}
  BY KeysFact DEF TabInv, TabType
<1>1. CASE InArray(tab, k)
  BY <1>1, ArraySet
<1>2. CASE ~InArray(tab, k) /\ NodeOf(tab, k) # 0
  <2> DEFINE n == NodeOf(tab, k)
  <2>1. n \in 1 .. sizenode(tab) /\ tab.node[n].key = k
    BY <1>0, <1>2, HasNode
  <2>2. t2 = [tab EXCEPT !.node[n].val = v]
    BY <1>2 DEF SetInRoom
  <2> HIDE DEF n
  <2>3. /\ DOMAIN t2 = {"array", "node", "dummy", "lastfree"} /\ t2.array = tab.array
        /\ t2.node = [tab.node EXCEPT ![n].val = v] /\ t2.dummy = tab.dummy /\ t2.lastfree = tab.lastfree
    BY <2>2, <1>0
  <2>4. sizenode(t2) = sizenode(tab)
    <3>1. sizenode(tab) \in Nat /\ DOMAIN tab.node = 1 .. sizenode(tab)
      BY <1>0, HashedFact DEF Shaped
    <3>2. t2.node = [i \in 1 .. sizenode(tab) |-> t2.node[i]]
      BY <3>1, <2>3
    <3>3. Len(t2.node) = sizenode(tab)
      BY <3>1, <3>2, LenOf
    <3>4. QED
      BY <3>3 DEF sizenode
  <2>5. tab.node[n].key # NoKey
    BY <2>1, <1>0, KeysFact
  <2>6. /\ Hashed(t2)
        /\ \A x \in AllKeys : NodeOf(t2, x) = NodeOf(tab, x)
                              /\ HashGet(t2, x) = IF x = k THEN v ELSE HashGet(tab, x)
        /\ \A m \in 1 .. sizenode(tab) : t2.node[m].key = tab.node[m].key
    BY <1>0, <2>1, <2>3, <2>4, <2>5, ValueSet
  <2>7. HashKeys(t2) \subseteq HashKeys(tab) \cup {k}
    BY <2>4, <2>6 DEF HashKeys
  <2>8. Passed(t2)
    <3>1. DOMAIN t2.node = 1 .. sizenode(tab) /\ DOMAIN tab.node = 1 .. sizenode(tab)
      BY <2>4, <2>6, <1>0, HashedFact
    <3>2. sizenode(tab) \in Nat \ {0}
      BY <1>0, HashedFact DEF Shaped
    <3>3. QED
      BY <3>1, <3>2, <2>3, <2>4, <2>6 DEF Passed, TabInv
  <2>9. t2.lastfree \in 0 .. sizenode(tab) + 1
    BY <2>3 DEF TabInv, TabType
  <2>10. QED
    BY <1>2, <2>3, <2>4, <2>6, <2>7, <2>8, <2>9, HashSet
<1>3. CASE ~InArray(tab, k) /\ NodeOf(tab, k) = 0
  <2> DEFINE g == IF NeedsNode(tab, k) THEN getfreepos(tab) ELSE 0
             size == sizenode(tab)
  <2>1. t2 = [tab EXCEPT !.node = Placed(tab, k, v, g), !.lastfree = IF g = 0 THEN @ ELSE g]
    BY <1>3 DEF SetInRoom
  <2>2. NeedsNode(tab, k) => getfreepos(tab) # 0
    BY <1>3 DEF HasRoom
  <2>3. /\ getfreepos(tab) # 0 =>
             /\ getfreepos(tab) \in 1 .. size /\ getfreepos(tab) < tab.lastfree
             /\ tab.node[getfreepos(tab)].key = NoKey
             /\ \A m \in 1 .. size : m > getfreepos(tab) /\ m < tab.lastfree => tab.node[m].key # NoKey
    BY <1>0, getfreeposFact DEF TabInv, TabType
  <2>4. g = 0 <=> ~NeedsNode(tab, k)
    BY <2>2
  <2>5. g # 0 => /\ g \in 1 .. size /\ g < tab.lastfree /\ tab.node[g].key = NoKey
                 /\ \A m \in 1 .. size : m > g /\ m < tab.lastfree => tab.node[m].key # NoKey
    BY <2>3
  <2> HIDE DEF g
  <2>6. /\ DOMAIN t2 = {"array", "node", "dummy", "lastfree"} /\ t2.array = tab.array
        /\ t2.node = Placed(tab, k, v, g) /\ t2.dummy = tab.dummy
        /\ t2.lastfree = IF g = 0 THEN tab.lastfree ELSE g
    BY <2>1, <1>0
  <2>7. tab.node[mainposition(tab, k)].val # NoValue => g \in 1 .. size /\ tab.node[g].key = NoKey
    BY <2>4, <2>5 DEF NeedsNode
  <2>8. /\ Hashed(t2) /\ sizenode(t2) = size
        /\ \A x \in AllKeys : HashGet(t2, x) = IF x = k THEN v ELSE HashGet(tab, x)
        /\ \A m \in 1 .. size : tab.node[m].key # NoKey => t2.node[m].key # NoKey
        /\ tab.node[mainposition(tab, k)].val # NoValue => t2.node[g].key # NoKey
        /\ HashKeys(t2) \subseteq HashKeys(tab) \cup {k}
    BY <1>0, <1>3, <2>6, <2>7, PlacedFact
  <2>9. size \in Nat \ {0} /\ DOMAIN tab.node = 1 .. size /\ DOMAIN t2.node = 1 .. size
    BY <1>0, <2>8, HashedFact DEF Shaped
  <2>10. ~tab.dummy
    <3>1. SUFFICES ASSUME tab.dummy PROVE FALSE
      OBVIOUS
    <3>2. NeedsNode(tab, k)
      BY <3>1 DEF NeedsNode
    <3>3. g # 0
      BY <3>2, <2>4
    <3>4. size = 1 /\ tab.lastfree = 0
      BY <3>1 DEF TabInv, Passed
    <3>5. QED
      BY <3>3, <3>4, <2>5
  <2>11. Passed(t2)
    <3>1. SUFFICES ASSUME NEW m \in 1 .. size, m >= t2.lastfree PROVE t2.node[m].key # NoKey
      BY <2>6, <2>9, <2>10 DEF Passed
    <3>2. CASE m >= tab.lastfree
      BY <3>2, <2>8, <2>9, <2>10 DEF TabInv, Passed
    <3>3. CASE m < tab.lastfree /\ m > g /\ g # 0
      BY <3>3, <2>5, <2>8
    <3>4. CASE m = g
      BY <3>4, <2>4, <2>8, <2>9, <2>10 DEF NeedsNode
    <3>5. QED
      BY <3>1, <3>2, <3>3, <3>4, <2>5, <2>6, <2>9 DEF TabInv, TabType
  <2>12. t2.lastfree \in 0 .. size + 1
    BY <2>5, <2>6, <2>9 DEF TabInv, TabType
  <2>13. QED
    BY <1>3, <2>6, <2>8, <2>11, <2>12, HashSet
<1>4. QED
  BY <1>1, <1>2, <1>3

-----------------------------------------------------------------------------
\* luaH_new.

\* Nodes without a key.
LEMMA EmptyNodes ==
  ASSUME NEW nhsize \in 0 .. MAXASIZE, NEW t, t.node = Nodes(nhsize)
  PROVE  /\ Hashed(t) /\ HashKeys(t) = {} /\ sizenode(t) >= nhsize /\ (nhsize = 0 => sizenode(t) = 1)
         /\ sizenode(t) = Len(Nodes(nhsize))
         /\ \A n \in 1 .. sizenode(t) : t.node[n].key = NoKey
         /\ \A x \in AllKeys : HashGet(t, x) = NoValue
<1>1. PICK p \in Powers : p >= nhsize /\ (nhsize = 0 => p = 1) /\ Nodes(nhsize) = [n \in 1 .. p |-> EmptyNode]
  BY NodesFact
<1>2. p \in Nat \ {0}
  BY PowersFact
<1>3. t.node = [n \in 1 .. p |-> t.node[n]] /\ \A n \in 1 .. p : t.node[n] = EmptyNode
  BY <1>1
<1>4. sizenode(t) = p
  BY <1>2, <1>3, LenOf DEF sizenode
<1>5. DOMAIN t.node = 1 .. p /\ \A n \in 1 .. p : t.node[n].key = NoKey /\ t.node[n].next = 0
                                                  /\ t.node[n].val = NoValue
  BY <1>3 DEF EmptyNode
<1>6. t.node \in NodeVectors(p)
  <2> DEFINE R == [key : Keys \cup {NoKey}, val : Cells, next : 0 .. p]
  <2>1. EmptyNode \in R
    BY <1>2 DEF EmptyNode, Cells
  <2> HIDE DEF R
  <2>2. QED
    BY <2>1, <1>1 DEF NodeVectors, R
<1>7. Acyclic(t.node)
  <2>1. SUFFICES ASSUME NEW S \in SUBSET (1 .. p), S # {} PROVE \E n \in S : t.node[n].next \notin S
    BY <1>5 DEF Acyclic
  <2>2. 0 \notin S
    BY <1>2
  <2>3. \A n \in S : t.node[n].next = 0
    BY <2>1, <1>5
  <2>4. QED
    BY <2>1, <2>2, <2>3
<1>8. Unused(t.node)
  BY <1>2, <1>5 DEF Unused
<1>9. Native(t) /\ Linked(t)
  BY <1>5 DEF Native, Linked
<1>10. Hashed(t)
  BY <1>4, <1>6, <1>7, <1>8, <1>9 DEF Hashed
<1>11. HashKeys(t) = {}
  BY <1>4, <1>5 DEF HashKeys
<1>12. ASSUME NEW x \in AllKeys PROVE HashGet(t, x) = NoValue
  <2>1. SUFFICES ASSUME NodeOf(t, x) # 0 PROVE FALSE
    BY DEF HashGet
  <2>2. NodeOf(t, x) \in 1 .. p /\ t.node[NodeOf(t, x)].key = x
    BY <2>1, <1>4, <1>10, HasNode
  <2>3. QED
    BY <2>2, <1>5, KeysFact
<1>13. sizenode(t) = Len(Nodes(nhsize))
  BY DEF sizenode
<1>14. QED
  BY <1>1, <1>2, <1>4, <1>5, <1>10, <1>11, <1>12, <1>13

\* A table with such nodes and any array part.
LEMMA EmptyTable ==
  ASSUME NEW nhsize \in 0 .. MAXASIZE, NEW size \in 0 .. MAXASIZE, NEW t,
         DOMAIN t = {"array", "node", "dummy", "lastfree"},
         t.array \in [1 .. size -> Cells], \A i \in 1 .. size : t.array[i] # NoValue => i \in Numbers,
         t.node = Nodes(nhsize), t.dummy = (nhsize = 0),
         t.lastfree = IF nhsize = 0 THEN 0 ELSE Len(Nodes(nhsize)) + 1
  PROVE  /\ TabInv(t) /\ Len(t.array) = size /\ HashKeys(t) = {} /\ sizenode(t) >= nhsize
         /\ \A x \in AllKeys : luaH_get(t, x) = IF x \in 1 .. size THEN t.array[x] ELSE NoValue
<1>1. /\ Hashed(t) /\ HashKeys(t) = {} /\ sizenode(t) >= nhsize /\ (nhsize = 0 => sizenode(t) = 1)
      /\ sizenode(t) = Len(Nodes(nhsize))
      /\ \A n \in 1 .. sizenode(t) : t.node[n].key = NoKey
      /\ \A x \in AllKeys : HashGet(t, x) = NoValue
  BY EmptyNodes
<1>2. size \in Nat
  BY PowersFact
<1>3. Len(t.array) = size /\ DOMAIN t.array = 1 .. size
  BY <1>2
<1>4. sizenode(t) \in Nat \ {0} /\ DOMAIN t.node = 1 .. sizenode(t)
  BY <1>1, HashedFact DEF Shaped
<1>5. TabType(t)
  BY <1>1, <1>3, <1>4 DEF TabType
<1>6. Apart(t)
  BY <1>1, <1>3, <1>4 DEF Apart, NoKey
<1>7. Passed(t)
  <2>1. CASE nhsize = 0
    <3>1. t.dummy
      BY <2>1, Zenon
    <3>2. t.lastfree = 0 /\ sizenode(t) = 1
      BY <2>1, <1>1
    <3>3. 1 \in 1 .. sizenode(t)
      BY <3>2
    <3>4. t.node[1].key = NoKey
      BY <3>3, <1>1
    <3>5. QED
      BY <3>1, <3>2, <3>4 DEF Passed
  <2>2. CASE nhsize # 0
    <3>1. ~t.dummy /\ t.lastfree = sizenode(t) + 1
      BY <2>2, <1>1
    <3>2. QED
      BY <3>1, <1>4 DEF Passed
  <2>3. QED
    BY <2>1, <2>2
<1>8. TabInv(t)
  BY <1>1, <1>5, <1>6, <1>7 DEF TabInv
<1>9. ASSUME NEW x \in AllKeys PROVE luaH_get(t, x) = IF x \in 1 .. size THEN t.array[x] ELSE NoValue
  <2>1. InArray(t, x) <=> x \in 1 .. size
    BY <1>3, <1>8, InArrayFact
  <2>2. luaH_get(t, x) = IF InArray(t, x) THEN t.array[x] ELSE HashGet(t, x)
    BY <1>8, luaH_getFact
  <2>3. QED
    BY <2>1, <2>2, <1>1
<1>10. QED
  BY <1>1, <1>3, <1>8, <1>9

\* A new table is well formed, and empty.
LEMMA luaH_newFact ==
  ASSUME NEW narray \in 0 .. MAXASIZE, NEW nhash \in 0 .. MAXASIZE, NEW t, t = luaH_new(narray, nhash)
  PROVE  TabInv(t) /\ \A x \in AllKeys : luaH_get(t, x) = NoValue
<1>1. /\ DOMAIN t = {"array", "node", "dummy", "lastfree"} /\ t.array = [i \in 1 .. narray |-> NoValue]
      /\ t.node = Nodes(nhash) /\ t.dummy = (nhash = 0)
      /\ t.lastfree = IF nhash = 0 THEN 0 ELSE Len(Nodes(nhash)) + 1
  BY DEF luaH_new, Nils
<1>2. t.array \in [1 .. narray -> Cells] /\ \A i \in 1 .. narray : t.array[i] = NoValue
  BY <1>1 DEF Cells
<1>3. TabInv(t) /\ \A x \in AllKeys : luaH_get(t, x) = IF x \in 1 .. narray THEN t.array[x] ELSE NoValue
  BY <1>1, <1>2, EmptyTable
<1>4. QED
  BY <1>2, <1>3

-----------------------------------------------------------------------------
\* What resize moves.

Pairs(tab, nasize) ==
  LET old == Len(tab.array)
      vanishing == SubSeq([i \in 1 .. old |-> [key |-> i, val |-> tab.array[i]]], nasize + 1, old)
  IN vanishing \o Reverse(tab.node)

\* What resize puts into the new parts: each key that has a value and is not
\* copied with the array, with its value, once.
LEMMA PairsFact ==
  ASSUME NEW tab, TabInv(tab), NEW nasize \in 0 .. MAXASIZE,
         NEW pairs, pairs = Pairs(tab, nasize), NEW old, old = Len(tab.array)
  PROVE  /\ Len(pairs) \in Nat
         /\ \A i \in 1 .. Len(pairs) : pairs[i].val # NoValue =>
              /\ pairs[i].key \in Keys /\ pairs[i].val \in Cells
              /\ luaH_get(tab, pairs[i].key) = pairs[i].val
              /\ ~(pairs[i].key \in 1 .. old /\ pairs[i].key <= nasize)
         /\ \A x \in AllKeys : luaH_get(tab, x) # NoValue /\ ~(x \in 1 .. old /\ x <= nasize) =>
              \E i \in 1 .. Len(pairs) : pairs[i].key = x /\ pairs[i].val = luaH_get(tab, x)
<1> DEFINE all == [i \in 1 .. old |-> [key |-> i, val |-> tab.array[i]]]
           vanishing == SubSeq(all, nasize + 1, old)
           size == sizenode(tab)
           nodes == Reverse(tab.node)
<1>1. old \in Nat /\ nasize \in Nat /\ size \in Nat \ {0} /\ DOMAIN tab.node = 1 .. size /\ Hashed(tab)
  BY PowersFact, HashedFact DEF TabInv, TabType, Shaped
<1>2. pairs = vanishing \o nodes
  BY DEF Pairs
<1> DEFINE E == {all[i] : i \in 1 .. old} \cup {tab.node[n] : n \in 1 .. size}
<1>3. /\ vanishing \in Seq(E) /\ Len(vanishing) = IF nasize + 1 <= old THEN old - nasize ELSE 0
      /\ \A i \in 1 .. old - nasize : vanishing[i] = all[nasize + i]
  <2>1. \A i \in nasize + 1 .. old : all[i] \in E
    BY <1>1
  <2>2. nasize + 1 \in Int /\ old \in Int
    BY <1>1
  <2> HIDE DEF all, E
  <2>3. /\ vanishing \in Seq(E)
        /\ Len(vanishing) = IF nasize + 1 <= old THEN old - (nasize + 1) + 1 ELSE 0
        /\ \A i \in 1 .. old - (nasize + 1) + 1 : vanishing[i] = all[(nasize + 1) + i - 1]
    BY <2>1, <2>2, SubSeqProperties
  <2>4. \A i \in 1 .. old - nasize : (nasize + 1) + i - 1 = nasize + i
    BY <1>1
  <2>5. old - (nasize + 1) + 1 = old - nasize
    BY <1>1
  <2>6. QED
    BY <2>3, <2>4, <2>5
<1>4. nodes \in Seq(E) /\ Len(nodes) = size /\ \A i \in 1 .. size : nodes[i] = tab.node[(size - i) + 1]
  <2>1. nodes = [i \in 1 .. size |-> tab.node[(size - i) + 1]]
    BY DEF Reverse, sizenode
  <2>2. \A i \in 1 .. size : (size - i) + 1 \in 1 .. size
    BY <1>1
  <2>3. \A i \in 1 .. size : tab.node[(size - i) + 1] \in E
    BY <2>2
  <2> HIDE DEF E, nodes, size
  <2>4. nodes \in [1 .. size -> E]
    BY <2>1, <2>3
  <2>5. QED
    BY <2>1, <2>4, <1>1
<1> HIDE DEF E, vanishing, nodes, all
<1> DEFINE nv == Len(vanishing)
<1>5. nv = (IF nasize + 1 <= old THEN old - nasize ELSE 0) /\ nv \in Nat
  BY <1>1, <1>3
<1>6. /\ Len(pairs) = nv + size
      /\ \A i \in 1 .. nv + size : pairs[i] = IF i <= nv THEN vanishing[i] ELSE nodes[i - nv]
  <2>1. /\ Len(vanishing \o nodes) = Len(vanishing) + Len(nodes)
        /\ \A i \in 1 .. Len(vanishing) + Len(nodes) :
             (vanishing \o nodes)[i] = IF i <= Len(vanishing) THEN vanishing[i] ELSE nodes[i - Len(vanishing)]
    BY <1>3, <1>4, ConcatProperties
  <2>2. Len(nodes) = size
    BY <1>4
  <2> HIDE DEF size
  <2>3. QED
    BY <2>1, <2>2, <1>2
<1> HIDE DEF nv
<1>7. \A j \in nasize + 1 .. old : all[j] = [key |-> j, val |-> tab.array[j]]
  BY <1>1 DEF all
<1>8. ASSUME NEW i \in 1 .. Len(pairs)
      PROVE  \/ \E j \in nasize + 1 .. old : pairs[i] = [key |-> j, val |-> tab.array[j]]
             \/ \E n \in 1 .. size : pairs[i] = tab.node[n]
  <2>1. CASE i <= nv
    <3>1. pairs[i] = vanishing[i]
      BY <2>1, <1>1, <1>5, <1>6
    <3>2. i \in 1 .. old - nasize /\ nasize + i \in nasize + 1 .. old
      BY <2>1, <1>1, <1>5, <1>6
    <3>3. QED
      BY <3>1, <3>2, <1>3, <1>7
  <2>2. CASE i > nv
    <3>1. pairs[i] = nodes[i - nv]
      BY <2>2, <1>1, <1>5, <1>6
    <3>2. i - nv \in 1 .. size
      BY <2>2, <1>1, <1>5, <1>6
    <3>3. (size - (i - nv)) + 1 \in 1 .. size
      BY <3>2, <1>1
    <3>4. QED
      BY <3>1, <3>2, <3>3, <1>4
  <2>3. i <= nv \/ i > nv
    BY <1>1, <1>5, <1>6
  <2>4. QED
    BY <2>1, <2>2, <2>3, Zenon
<1>9. ASSUME NEW j \in nasize + 1 .. old
      PROVE  \E i \in 1 .. Len(pairs) : pairs[i] = [key |-> j, val |-> tab.array[j]]
  <2>1. j - nasize \in 1 .. nv /\ j - nasize \in 1 .. old - nasize /\ nasize + (j - nasize) = j
    BY <1>1, <1>5, <1>6
  <2>2. j - nasize \in 1 .. Len(pairs)
    BY <2>1, <1>1, <1>5, <1>6
  <2>3. pairs[j - nasize] = vanishing[j - nasize]
    <3>1. j - nasize \in 1 .. nv + size /\ j - nasize <= nv
      BY <2>1, <1>1, <1>5
    <3>2. QED
      BY <3>1, <1>6
  <2>4. vanishing[j - nasize] = all[j]
    BY <2>1, <1>3
  <2>5. QED
    BY <2>2, <2>3, <2>4, <1>7
<1>10. ASSUME NEW n \in 1 .. size
       PROVE  \E i \in 1 .. Len(pairs) : pairs[i] = tab.node[n]
  <2> DEFINE i == nv + ((size - n) + 1)
  <2>0. size \in Nat /\ nv \in Nat /\ Len(pairs) = nv + size
    BY <1>1, <1>5, <1>6
  <2>1. i \in 1 .. Len(pairs) /\ i > nv /\ i - nv = (size - n) + 1 /\ (size - n) + 1 \in 1 .. size
    <3> HIDE DEF size
    <3>1. QED
      BY <2>0
  <2>2. pairs[i] = nodes[(size - n) + 1]
    <3>1. i \in 1 .. nv + size /\ ~(i <= nv)
      BY <2>1, <1>1, <1>5, <1>6
    <3> HIDE DEF i
    <3>2. pairs[i] = nodes[i - nv]
      BY <3>1, <1>5, <1>6
    <3>3. QED
      BY <3>2, <2>1
  <2>3. nodes[(size - n) + 1] = tab.node[(size - ((size - n) + 1)) + 1]
    BY <2>1, <1>4
  <2>4. (size - ((size - n) + 1)) + 1 = n
    BY <1>1
  <2>5. QED
    BY <2>1, <2>2, <2>3, <2>4
<1>11. Len(pairs) \in Nat
  BY <1>1, <1>5, <1>6
<1>12. ASSUME NEW i \in 1 .. Len(pairs), pairs[i].val # NoValue
       PROVE  /\ pairs[i].key \in Keys /\ pairs[i].val \in Cells
              /\ luaH_get(tab, pairs[i].key) = pairs[i].val
              /\ ~(pairs[i].key \in 1 .. old /\ pairs[i].key <= nasize)
  <2>1. CASE \E j \in nasize + 1 .. old : pairs[i] = [key |-> j, val |-> tab.array[j]]
    <3>1. PICK j \in nasize + 1 .. old : pairs[i] = [key |-> j, val |-> tab.array[j]]
      BY <2>1
    <3>2. pairs[i].key = j /\ pairs[i].val = tab.array[j]
      BY <3>1
    <3>3. j \in 1 .. old /\ ~(j <= nasize)
      BY <1>1
    <3>4. tab.array[j] \in Cells /\ j \in Numbers
      BY <3>2, <3>3, <1>12 DEF TabInv, TabType, Apart
    <3>5. j \in Keys /\ j \in AllKeys
      BY <3>4, KeysFact DEF Keys
    <3>6. luaH_get(tab, j) = tab.array[j]
      BY <3>3, <3>5, luaH_getFact
    <3>7. QED
      BY <3>2, <3>3, <3>4, <3>5, <3>6
  <2>2. CASE \E n \in 1 .. size : pairs[i] = tab.node[n]
    <3>1. PICK n \in 1 .. size : pairs[i] = tab.node[n]
      BY <2>2
    <3>2. tab.node[n].val # NoValue
      BY <3>1, <1>12
    <3>3. tab.node[n].key # NoKey
      BY <3>2, <1>1 DEF Hashed, Unused
    <3>4. tab.node[n].key \in Keys /\ tab.node[n].val \in Cells
      BY <3>3, <1>1, HashedFact
    <3>5. tab.node[n].key \notin 1 .. old
      BY <1>1 DEF TabInv, Apart
    <3> DEFINE x == tab.node[n].key
    <3>6. x \in AllKeys
      BY <3>4, KeysFact
    <3>7. HashGet(tab, x) = tab.node[n].val
      BY <3>6, <1>1, HashGetFact
    <3>8. luaH_get(tab, x) = HashGet(tab, x)
      BY <3>5, <3>6, luaH_getFact
    <3>9. QED
      BY <3>1, <3>4, <3>5, <3>7, <3>8
  <2>3. QED
    BY <2>1, <2>2, <1>8
<1>13. ASSUME NEW x \in AllKeys, luaH_get(tab, x) # NoValue, ~(x \in 1 .. old /\ x <= nasize)
       PROVE  \E i \in 1 .. Len(pairs) : pairs[i].key = x /\ pairs[i].val = luaH_get(tab, x)
  <2>1. CASE x \in 1 .. old
    <3>1. x \in nasize + 1 .. old
      BY <2>1, <1>1, <1>13
    <3>2. luaH_get(tab, x) = tab.array[x]
      BY <2>1, luaH_getFact
    <3>3. PICK i \in 1 .. Len(pairs) : pairs[i] = [key |-> x, val |-> tab.array[x]]
      BY <3>1, <1>9
    <3>4. QED
      BY <3>2, <3>3
  <2>2. CASE x \notin 1 .. old
    <3>1. luaH_get(tab, x) = HashGet(tab, x)
      BY <2>2, luaH_getFact
    <3>2. NodeOf(tab, x) # 0 /\ luaH_get(tab, x) = tab.node[NodeOf(tab, x)].val
      BY <3>1, <1>13 DEF HashGet
    <3>3. NodeOf(tab, x) \in 1 .. size /\ tab.node[NodeOf(tab, x)].key = x
      BY <3>2, <1>1, HasNode
    <3>4. PICK i \in 1 .. Len(pairs) : pairs[i] = tab.node[NodeOf(tab, x)]
      BY <3>3, <1>10
    <3>5. QED
      BY <3>2, <3>3, <3>4
  <2>3. QED
    BY <2>1, <2>2
<1>14. QED
  BY <1>11, <1>12, <1>13

-----------------------------------------------------------------------------
\* resize.

Outside(tab, n) == {x \in Keys : luaH_get(tab, x) # NoValue /\ x \notin 1 .. n}

Fresh(tab, nasize, nhsize) ==
  [luaH_new(0, nhsize) EXCEPT
     !.array = [i \in 1 .. nasize |-> IF i <= Len(tab.array) THEN tab.array[i] ELSE NoValue]]

Move(p, t) == IF p.val = NoValue THEN t ELSE SetInRoom(t, p.key, p.val)

\* The nodes have room for the keys that are counted for them.
LEMMA RoomFor ==
  ASSUME NEW t, TabInv(t), NEW nhsize \in Nat, sizenode(t) >= nhsize, t.dummy = (nhsize = 0),
         NEW B, IsFiniteSet(B), Cardinality(B) <= nhsize, HashKeys(t) \subseteq B,
         NEW k \in Keys, InArray(t, k) \/ k \in B
  PROVE  HasRoom(t, k)
<1>1. SUFFICES ASSUME ~InArray(t, k), NodeOf(t, k) = 0, getfreepos(t) = 0 PROVE FALSE
  BY DEF HasRoom
<1>2. k \in B
  BY <1>1
<1>3. nhsize # 0
  <2>1. Cardinality(B) \in Nat /\ Cardinality(B) # 0
    BY <1>2, FS_CardinalityType, FS_EmptySet
  <2>2. QED
    BY <2>1
<1>4. ~t.dummy
  BY <1>3, Zenon
<1>5. Hashed(t) /\ sizenode(t) \in Nat
  BY HashedFact DEF TabInv, Shaped
<1>6. Cardinality(B) <= sizenode(t)
  BY <1>5, FS_CardinalityType
<1>7. \E n \in 1 .. sizenode(t) : t.node[n].key = NoKey
  BY <1>1, <1>2, <1>5, <1>6, FreeNode
<1>8. \A n \in 1 .. sizenode(t) : t.node[n].key # NoKey
  BY <1>1, <1>4, <1>5, getfreeposFact DEF TabInv, TabType
<1>9. QED
  BY <1>7, <1>8

\* The new parts, with the start of the array copied.
LEMMA FreshFact ==
  ASSUME NEW tab, TabInv(tab), NEW nasize \in 0 .. MAXASIZE, NEW nhsize \in 0 .. MAXASIZE,
         NEW t, t = Fresh(tab, nasize, nhsize)
  PROVE  /\ TabInv(t) /\ Len(t.array) = nasize /\ HashKeys(t) = {} /\ sizenode(t) >= nhsize
         /\ t.dummy = (nhsize = 0)
         /\ \A x \in AllKeys : luaH_get(t, x) = IF x \in 1 .. Len(tab.array) /\ x <= nasize
                                                THEN luaH_get(tab, x) ELSE NoValue
<1> DEFINE old == Len(tab.array)
           part == [i \in 1 .. nasize |-> IF i <= old THEN tab.array[i] ELSE NoValue]
<1>1. old \in Nat /\ nasize \in Nat /\ tab.array \in [1 .. old -> Cells]
  BY PowersFact DEF TabInv, TabType
<1>2. \A i \in 1 .. nasize : part[i] \in Cells /\ (part[i] # NoValue => i \in 1 .. old /\ part[i] = tab.array[i])
  BY <1>1 DEF Cells
<1>3. part \in [1 .. nasize -> Cells]
  BY <1>2
<1>4. \A i \in 1 .. nasize : part[i] # NoValue => i \in Numbers
  BY <1>1, <1>2 DEF TabInv, Apart
<1>5. \A i \in 1 .. nasize : i \in 1 .. old => part[i] = tab.array[i]
  BY <1>1
<1> HIDE DEF part
<1>6. /\ DOMAIN t = {"array", "node", "dummy", "lastfree"} /\ t.array = part
      /\ t.node = Nodes(nhsize) /\ t.dummy = (nhsize = 0)
      /\ t.lastfree = IF nhsize = 0 THEN 0 ELSE Len(Nodes(nhsize)) + 1
  BY DEF Fresh, luaH_new, part
<1>7. /\ TabInv(t) /\ Len(t.array) = nasize /\ HashKeys(t) = {} /\ sizenode(t) >= nhsize
      /\ \A x \in AllKeys : luaH_get(t, x) = IF x \in 1 .. nasize THEN part[x] ELSE NoValue
  BY <1>3, <1>4, <1>6, EmptyTable
<1>8. ASSUME NEW x \in AllKeys
      PROVE  luaH_get(t, x) = IF x \in 1 .. old /\ x <= nasize THEN luaH_get(tab, x) ELSE NoValue
  <2>1. CASE x \in 1 .. old /\ x <= nasize
    <3>1. x \in 1 .. nasize
      BY <2>1, <1>1
    <3>2. luaH_get(tab, x) = tab.array[x]
      BY <2>1, luaH_getFact
    <3>3. QED
      BY <3>1, <3>2, <2>1, <1>5, <1>7
  <2>2. CASE ~(x \in 1 .. old /\ x <= nasize)
    <3>1. x \in 1 .. nasize => part[x] = NoValue
      BY <2>2, <1>1, <1>2
    <3>2. QED
      BY <3>1, <2>2, <1>7
  <2>3. QED
    BY <2>1, <2>2
<1>9. QED
  BY <1>6, <1>7, <1>8

Moves(f, len, pairs, fresh) ==
  f = [n \in 0 .. len |-> IF n = 0 THEN fresh ELSE Move(pairs[n], f[n - 1])]

\* The tables on the way, from the fresh one on.
LEMMA MovesExist ==
  ASSUME NEW len \in Nat, NEW pairs, NEW fresh
  PROVE  \E f : Moves(f, len, pairs, fresh)
<1> DEFINE P(j) == \E f : /\ DOMAIN f = 0 .. len /\ f = [n \in 0 .. len |-> f[n]] /\ f[0] = fresh
                          /\ \A n \in 1 .. j : f[n] = Move(pairs[n], f[n - 1])
           S == {j \in 0 .. len : ~P(j)}
<1>1. P(0)
  <2> DEFINE f == [n \in 0 .. len |-> fresh]
  <2>1. DOMAIN f = 0 .. len /\ f = [n \in 0 .. len |-> f[n]] /\ f[0] = fresh
    OBVIOUS
  <2>2. 1 .. 0 = {}
    OBVIOUS
  <2> HIDE DEF f
  <2>3. QED
    BY <2>1, <2>2
<1>2. S = {}
  <2>1. SUFFICES ASSUME S # {} PROVE FALSE
    OBVIOUS
  <2>2. S \subseteq Nat
    OBVIOUS
  <2>3. PICK j \in S : \A i \in S : j <= i
    <3> HIDE DEF S
    <3>1. QED
      BY <2>1, <2>2, Least
  <2>4. j # 0 /\ j \in 0 .. len
    BY <1>1, <2>3
  <2>5. j - 1 \in 0 .. len /\ j - 1 \notin S
    BY <2>3, <2>4
  <2>6. P(j - 1)
    BY <2>5
  <2>7. PICK f : /\ DOMAIN f = 0 .. len /\ f = [n \in 0 .. len |-> f[n]] /\ f[0] = fresh
                 /\ \A n \in 1 .. j - 1 : f[n] = Move(pairs[n], f[n - 1])
    BY <2>6
  <2> DEFINE step == Move(pairs[j], f[j - 1])
  <2> HIDE DEF step
  <2> DEFINE g == [f EXCEPT ![j] = step]
  <2>8. DOMAIN g = 0 .. len /\ g = [n \in 0 .. len |-> g[n]] /\ g[0] = fresh
    <3>1. DOMAIN g = 0 .. len
      BY <2>7
    <3>2. g = [n \in 0 .. len |-> g[n]]
      BY <2>7
    <3>3. g[0] = fresh
      BY <2>4, <2>7
    <3>4. QED
      BY <3>1, <3>2, <3>3
  <2>9. \A n \in 0 .. len : g[n] = IF n = j THEN step ELSE f[n]
    BY <2>4, <2>7
  <2> HIDE DEF g
  <2>10. ASSUME NEW n \in 1 .. j PROVE g[n] = Move(pairs[n], g[n - 1])
    <3>1. n \in 0 .. len /\ n - 1 \in 0 .. len /\ n - 1 # j
      BY <2>4
    <3>2. g[n - 1] = f[n - 1]
      BY <3>1, <2>9
    <3>3. CASE n = j
      BY <3>1, <3>2, <3>3, <2>9 DEF step
    <3>4. CASE n # j
      <4>1. n \in 1 .. j - 1
        BY <3>4, <2>4
      <4>2. QED
        BY <4>1, <3>1, <3>2, <3>4, <2>7, <2>9
    <3>5. QED
      BY <3>3, <3>4
  <2>11. P(j)
    BY <2>8, <2>10
  <2>12. QED
    BY <2>3, <2>11
<1>3. len \in 0 .. len
  OBVIOUS
<1>4. P(len)
  BY <1>2, <1>3
<1>5. PICK f : /\ DOMAIN f = 0 .. len /\ f = [n \in 0 .. len |-> f[n]] /\ f[0] = fresh
               /\ \A n \in 1 .. len : f[n] = Move(pairs[n], f[n - 1])
  BY <1>4
<1>6. \A n \in 0 .. len : f[n] = IF n = 0 THEN fresh ELSE Move(pairs[n], f[n - 1])
  <2>1. \A n \in 0 .. len : n # 0 => n \in 1 .. len
    OBVIOUS
  <2>2. QED
    BY <2>1, <1>5
<1>7. f = [n \in 0 .. len |-> IF n = 0 THEN fresh ELSE Move(pairs[n], f[n - 1])]
  BY <1>5, <1>6
<1>8. QED
  BY <1>7 DEF Moves

\* resize keeps the value of every key, when the new hash part has room for
\* those outside the new array part.
LEMMA resizeFact ==
  ASSUME NEW tab, TabInv(tab), NEW nasize \in 0 .. MAXASIZE, NEW nhsize \in 0 .. MAXASIZE,
         Cardinality(Outside(tab, nasize)) <= nhsize,
         NEW t, t = resize(tab, nasize, nhsize)
  PROVE  /\ TabInv(t) /\ Len(t.array) = nasize /\ sizenode(t) >= nhsize /\ t.dummy = (nhsize = 0)
         /\ HashKeys(t) \subseteq Outside(tab, nasize)
         /\ \A x \in AllKeys : luaH_get(t, x) = luaH_get(tab, x)
<1> DEFINE pairs == Pairs(tab, nasize)
           fresh == Fresh(tab, nasize, nhsize)
           len == Len(pairs)
           old == Len(tab.array)
           B == Outside(tab, nasize)
           moved == CHOOSE f : f = [n \in 0 .. len |-> IF n = 0 THEN fresh
                                 ELSE IF pairs[n].val = NoValue THEN f[n - 1]
                                 ELSE SetInRoom(f[n - 1], pairs[n].key, pairs[n].val)]
<1>1. t = moved[len]
  BY Zenon DEF resize, Pairs, Fresh
<1>2. /\ len \in Nat
      /\ \A i \in 1 .. len : pairs[i].val # NoValue =>
           /\ pairs[i].key \in Keys /\ pairs[i].val \in Cells
           /\ luaH_get(tab, pairs[i].key) = pairs[i].val
           /\ ~(pairs[i].key \in 1 .. old /\ pairs[i].key <= nasize)
      /\ \A x \in AllKeys : luaH_get(tab, x) # NoValue /\ ~(x \in 1 .. old /\ x <= nasize) =>
           \E i \in 1 .. len : pairs[i].key = x /\ pairs[i].val = luaH_get(tab, x)
  <2>1. pairs = Pairs(tab, nasize) /\ old = Len(tab.array)
    OBVIOUS
  <2> HIDE DEF pairs, old
  <2>2. QED
    BY <2>1, PairsFact
<1>3. /\ TabInv(fresh) /\ Len(fresh.array) = nasize /\ HashKeys(fresh) = {} /\ sizenode(fresh) >= nhsize
      /\ fresh.dummy = (nhsize = 0)
      /\ \A x \in AllKeys : luaH_get(fresh, x) = IF x \in 1 .. old /\ x <= nasize
                                                 THEN luaH_get(tab, x) ELSE NoValue
  <2>1. fresh = Fresh(tab, nasize, nhsize)
    OBVIOUS
  <2> HIDE DEF fresh
  <2>2. QED
    BY <2>1, FreshFact
<1> HIDE DEF pairs, fresh
<1>4. \E f : Moves(f, len, pairs, fresh)
  <2>1. len \in Nat
    BY <1>2
  <2> HIDE DEF len
  <2>2. QED
    BY <2>1, MovesExist
<1>5. moved = [n \in 0 .. len |-> IF n = 0 THEN fresh
                 ELSE IF pairs[n].val = NoValue THEN moved[n - 1]
                 ELSE SetInRoom(moved[n - 1], pairs[n].key, pairs[n].val)]
  BY <1>4, Zenon DEF Moves, Move
<1> HIDE DEF moved
<1>6. moved[0] = fresh /\ \A n \in 1 .. len : moved[n] = Move(pairs[n], moved[n - 1])
  BY <1>2, <1>5 DEF Move
<1> HIDE DEF len
<1> DEFINE J(j) ==
      /\ TabInv(moved[j]) /\ Len(moved[j].array) = nasize /\ sizenode(moved[j]) = sizenode(fresh)
      /\ moved[j].dummy = fresh.dummy /\ HashKeys(moved[j]) \subseteq B
      /\ \A x \in AllKeys : luaH_get(moved[j], x) = NoValue \/ luaH_get(moved[j], x) = luaH_get(tab, x)
      /\ \A x \in AllKeys : x \in 1 .. old /\ x <= nasize => luaH_get(moved[j], x) = luaH_get(tab, x)
      /\ \A i \in 1 .. j : pairs[i].val # NoValue => luaH_get(moved[j], pairs[i].key) = pairs[i].val
<1>7. J(0)
  BY <1>3, <1>6
<1>8. IsFiniteSet(B)
  BY KeysFact, FS_Subset DEF Outside
<1>9. ASSUME NEW j \in 1 .. len, J(j - 1) PROVE J(j)
  <2> DEFINE a == moved[j - 1]
             b == moved[j]
  <2>1. b = Move(pairs[j], a)
    BY <1>6
  <2>2. CASE pairs[j].val = NoValue
    <3>1. b = a
      BY <2>1, <2>2 DEF Move
    <3>2. \A i \in 1 .. j : pairs[i].val # NoValue => i \in 1 .. j - 1
      BY <2>2, <1>2
    <3> HIDE DEF B
    <3>3. QED
      BY <3>1, <3>2, <1>9
  <2>3. CASE pairs[j].val # NoValue
    <3> DEFINE k == pairs[j].key
               v == pairs[j].val
    <3>1. k \in Keys /\ k \in AllKeys /\ v \in Cells /\ luaH_get(tab, k) = v /\ ~(k \in 1 .. old /\ k <= nasize)
      BY <2>3, <1>2, KeysFact
    <3>2. b = SetInRoom(a, k, v)
      BY <2>1, <2>3 DEF Move
    <3>3. TabInv(a) /\ nasize \in Nat /\ nhsize \in Nat
      BY <1>9, PowersFact
    <3>4. InArray(a, k) \/ k \in B
      BY <3>1, <3>3, <2>3, <1>9, InArrayFact DEF Outside
    <3>5. sizenode(a) >= nhsize /\ a.dummy = (nhsize = 0) /\ HashKeys(a) \subseteq B
      BY <1>3, <1>9
    <3>6. HasRoom(a, k)
      BY <3>1, <3>3, <3>4, <3>5, <1>8, RoomFor
    <3> HIDE DEF k, v, B
    <3>7. SetsOnly(a, k, v, b)
      BY <3>1, <3>2, <3>3, <3>6, SetInRoomFact
    <3>8. \A x \in AllKeys : luaH_get(b, x) = IF x = k THEN v ELSE luaH_get(a, x)
      BY <3>7 DEF SetsOnly
    <3>9. TabInv(b) /\ Len(b.array) = nasize /\ sizenode(b) = sizenode(fresh) /\ b.dummy = fresh.dummy
      BY <3>7, <1>9 DEF SetsOnly
    <3>10. HashKeys(b) \subseteq B
      BY <3>4, <3>5, <3>7 DEF SetsOnly
    <3>11. \A x \in AllKeys : luaH_get(b, x) = NoValue \/ luaH_get(b, x) = luaH_get(tab, x)
      BY <3>1, <3>8, <1>9
    <3>12. \A x \in AllKeys : x \in 1 .. old /\ x <= nasize => luaH_get(b, x) = luaH_get(tab, x)
      BY <3>1, <3>8, <1>9
    <3>13. ASSUME NEW i \in 1 .. j, pairs[i].val # NoValue PROVE luaH_get(b, pairs[i].key) = pairs[i].val
      <4>1. i \in 1 .. len
        BY <1>2
      <4>2. pairs[i].key \in AllKeys /\ luaH_get(tab, pairs[i].key) = pairs[i].val
        BY <4>1, <3>13, <1>2, KeysFact
      <4>3. CASE pairs[i].key = k
        BY <4>2, <4>3, <3>1, <3>8
      <4>4. CASE pairs[i].key # k
        <5>1. i \in 1 .. j - 1
          BY <4>4, <1>2 DEF k
        <5>2. luaH_get(a, pairs[i].key) = pairs[i].val
          BY <5>1, <3>13, <1>9
        <5>3. QED
          BY <5>2, <4>2, <4>4, <3>8
      <4>5. QED
        BY <4>3, <4>4
    <3>14. QED
      BY <3>9, <3>10, <3>11, <3>12, <3>13 DEF B
  <2>4. QED
    BY <2>2, <2>3
<1>10. J(len)
  <2> DEFINE S == {j \in 0 .. len : ~J(j)}
  <2> HIDE DEF J
  <2>1. SUFFICES ASSUME S # {} PROVE FALSE
    BY <1>2
  <2>2. S \subseteq Nat
    OBVIOUS
  <2>3. PICK j \in S : \A i \in S : j <= i
    <3> HIDE DEF S
    <3>1. QED
      BY <2>1, <2>2, Least
  <2>4. j # 0
    BY <2>3, <1>7
  <2>5. j \in 1 .. len /\ j - 1 \in 0 .. len /\ j - 1 \notin S
    BY <2>3, <2>4, <1>2
  <2>6. QED
    BY <2>3, <2>5, <1>9
<1>11. ASSUME NEW x \in AllKeys PROVE luaH_get(t, x) = luaH_get(tab, x)
  <2>1. CASE x \in 1 .. old /\ x <= nasize
    BY <2>1, <1>1, <1>10
  <2>2. CASE ~(x \in 1 .. old /\ x <= nasize) /\ luaH_get(tab, x) # NoValue
    <3>1. PICK i \in 1 .. len : pairs[i].key = x /\ pairs[i].val = luaH_get(tab, x)
      BY <2>2, <1>2
    <3>2. QED
      BY <3>1, <2>2, <1>1, <1>10
  <2>3. CASE luaH_get(tab, x) = NoValue
    BY <2>3, <1>1, <1>10
  <2>4. QED
    BY <2>1, <2>2, <2>3
<1>12. QED
  BY <1>1, <1>3, <1>10, <1>11

-----------------------------------------------------------------------------
\* rehash and luaH_set.

\* numusearray and numusehash count the keys that have a value.
LEMMA InUseFact ==
  ASSUME NEW tab, TabInv(tab)
  PROVE  InUse(tab) = {x \in Keys : luaH_get(tab, x) # NoValue}
<1>1. /\ Hashed(tab) /\ DOMAIN tab.array = 1 .. Len(tab.array)
      /\ \A i \in DOMAIN tab.array : tab.array[i] # NoValue => i \in Numbers
  BY DEF TabInv, TabType, Apart
<1>2. ASSUME NEW x \in InUse(tab) PROVE x \in Keys /\ luaH_get(tab, x) # NoValue
  <2>1. CASE x \in 1 .. Len(tab.array) /\ tab.array[x] # NoValue
    <3>1. x \in Keys /\ x \in AllKeys
      BY <2>1, <1>1, KeysFact DEF Keys
    <3>2. QED
      BY <3>1, <2>1, luaH_getFact
  <2>2. CASE \E n \in 1 .. sizenode(tab) : tab.node[n].val # NoValue /\ x = tab.node[n].key
    <3>1. PICK n \in 1 .. sizenode(tab) : tab.node[n].val # NoValue /\ x = tab.node[n].key
      BY <2>2
    <3>2. x # NoKey
      BY <3>1, <1>1, HashedFact DEF Hashed, Unused
    <3>3. x \in Keys /\ x \in AllKeys /\ x \notin 1 .. Len(tab.array)
      BY <3>1, <3>2, <1>1, HashedFact, KeysFact DEF TabInv, Apart
    <3>4. HashGet(tab, x) = tab.node[n].val
      BY <3>1, <3>3, <1>1, HashGetFact
    <3>5. QED
      BY <3>1, <3>3, <3>4, luaH_getFact
  <2>3. QED
    BY <2>1, <2>2 DEF InUse
<1>3. ASSUME NEW x \in Keys, luaH_get(tab, x) # NoValue PROVE x \in InUse(tab)
  <2>1. x \in AllKeys
    BY KeysFact
  <2>2. CASE x \in 1 .. Len(tab.array)
    BY <2>1, <2>2, <1>3, luaH_getFact DEF InUse
  <2>3. CASE x \notin 1 .. Len(tab.array)
    <3>1. HashGet(tab, x) # NoValue
      BY <2>1, <2>3, <1>3, luaH_getFact
    <3>2. NodeOf(tab, x) # 0 /\ tab.node[NodeOf(tab, x)].val # NoValue
      BY <3>1 DEF HashGet
    <3>3. NodeOf(tab, x) \in 1 .. sizenode(tab) /\ tab.node[NodeOf(tab, x)].key = x
      BY <2>1, <3>2, <1>1, HasNode
    <3>4. QED
      BY <3>2, <3>3 DEF InUse
  <2>4. QED
    BY <2>2, <2>3
<1>4. QED
  BY <1>2, <1>3

\* rehash keeps the value of every key, and makes room for the one to come.
LEMMA rehashFact ==
  ASSUME NEW tab, TabInv(tab), NEW k \in Keys, NEW t, t = rehash(tab, k)
  PROVE  /\ TabInv(t) /\ HasRoom(t, k)
         /\ \A x \in AllKeys : luaH_get(t, x) = luaH_get(tab, x)
<1> DEFINE used == InUse(tab) \cup {k}
           ints == {i \in used \ Strings : i <= MAXASIZE}
           nasize == computesizes(ints)
           S == {i \in ints : i <= nasize}
           nhsize == Cardinality(used) - Cardinality(S)
           B == used \ S
<1>1. t = resize(tab, nasize, nhsize)
  BY DEF rehash
<1>2. nasize \in 0 .. MAXASIZE
  BY computesizesFact
<1>3. used \subseteq Keys /\ k \in used
  BY InUseFact
<1> HIDE DEF nasize
<1>4. \A x \in used : x \in S <=> x \in 1 .. nasize
  <2>1. ASSUME NEW x \in used, x \in S PROVE x \in 1 .. nasize
    <3>1. x \in Numbers
      BY <2>1, <1>3 DEF Keys
    <3>2. QED
      BY <2>1, <3>1, <1>2, KeysFact, PowersFact
  <2>2. ASSUME NEW x \in used, x \in 1 .. nasize PROVE x \in S
    <3>1. x \in Nat /\ x <= nasize /\ x <= MAXASIZE
      BY <2>2, <1>2, PowersFact
    <3>2. x \notin Strings
      BY <3>1, KeysFact
    <3>3. QED
      BY <3>1, <3>2
  <2>3. QED
    BY <2>1, <2>2
<1>5. IsFiniteSet(used) /\ Cardinality(used) \in Nat /\ Cardinality(used) <= MAXASIZE
  <2> HIDE DEF used
  <2>1. IsFiniteSet(used) /\ Cardinality(used) <= Cardinality(Keys)
    BY <1>3, KeysFact, FS_Subset
  <2>2. Cardinality(used) \in Nat
    BY <2>1, FS_CardinalityType
  <2>3. QED
    BY <2>1, <2>2, KeysFact, PowersFact
<1>6. S \subseteq used
  OBVIOUS
<1> HIDE DEF used, S
<1>7. /\ IsFiniteSet(S) /\ Cardinality(S) \in Nat /\ Cardinality(S) <= Cardinality(used)
      /\ IsFiniteSet(B) /\ Cardinality(B) = nhsize
  <2>1. IsFiniteSet(S) /\ Cardinality(S) <= Cardinality(used)
    BY <1>5, <1>6, FS_Subset
  <2>2. Cardinality(S) \in Nat
    BY <2>1, FS_CardinalityType
  <2>3. IsFiniteSet(B) /\ Cardinality(B) = Cardinality(used) - Cardinality(used \cap S)
    BY <1>5, FS_Difference
  <2>4. used \cap S = S
    BY <1>6
  <2>5. QED
    BY <2>1, <2>2, <2>3, <2>4
<1>8. nhsize \in 0 .. MAXASIZE
  BY <1>5, <1>7, PowersFact
<1>9. Outside(tab, nasize) \subseteq B
  <2>1. SUFFICES ASSUME NEW x \in Keys, luaH_get(tab, x) # NoValue, x \notin 1 .. nasize PROVE x \in B
    BY DEF Outside
  <2>2. x \in used
    BY <2>1, InUseFact DEF used
  <2>3. QED
    BY <2>1, <2>2, <1>4
<1> HIDE DEF nhsize, B
<1>10. Cardinality(Outside(tab, nasize)) <= nhsize
  <2>1. Cardinality(Outside(tab, nasize)) <= Cardinality(B)
    BY <1>7, <1>9, FS_Subset
  <2>2. QED
    BY <2>1, <1>7
<1>11. /\ TabInv(t) /\ Len(t.array) = nasize /\ sizenode(t) >= nhsize /\ t.dummy = (nhsize = 0)
       /\ HashKeys(t) \subseteq Outside(tab, nasize)
       /\ \A x \in AllKeys : luaH_get(t, x) = luaH_get(tab, x)
  BY <1>1, <1>2, <1>8, <1>10, resizeFact
<1>12. InArray(t, k) \/ k \in B
  BY <1>3, <1>4, <1>11, InArrayFact DEF B
<1>13. HasRoom(t, k)
  <2>1. nhsize \in Nat /\ HashKeys(t) \subseteq B /\ Cardinality(B) <= nhsize
    BY <1>7, <1>8, <1>9, <1>11, PowersFact
  <2>2. QED
    BY <2>1, <1>7, <1>11, <1>12, RoomFor
<1>14. QED
  BY <1>11, <1>13

\* luaH_set gives a key its value and changes no other; a key that had one keeps
\* its place, as all others do.
LEMMA luaH_setFact ==
  ASSUME NEW tab, TabInv(tab), NEW k \in Keys, NEW v \in Cells, NEW t, t = luaH_set(tab, k, v)
  PROVE  /\ TabInv(t)
         /\ \A x \in AllKeys : luaH_get(t, x) = IF x = k THEN v ELSE luaH_get(tab, x)
         /\ luaH_get(tab, k) # NoValue =>
              SetsOnly(tab, k, v, t) /\ (InArray(tab, k) \/ NodeOf(tab, k) # 0)
<1>1. HasRoom(tab, k) <=> ~(~InArray(tab, k) /\ NodeOf(tab, k) = 0 /\ NeedsNode(tab, k) /\ getfreepos(tab) = 0)
  BY DEF HasRoom
<1>2. luaH_get(tab, k) # NoValue => InArray(tab, k) \/ NodeOf(tab, k) # 0
  BY DEF luaH_get
<1>3. CASE HasRoom(tab, k)
  <2>1. t = SetInRoom(tab, k, v)
    BY <1>1, <1>3 DEF luaH_set
  <2>2. SetsOnly(tab, k, v, t)
    BY <1>3, <2>1, SetInRoomFact
  <2>3. QED
    BY <2>2, <1>2 DEF SetsOnly
<1>4. CASE ~HasRoom(tab, k)
  <2> DEFINE r == rehash(tab, k)
  <2>1. t = SetInRoom(r, k, v)
    BY <1>1, <1>4 DEF luaH_set
  <2>2. TabInv(r) /\ HasRoom(r, k) /\ \A x \in AllKeys : luaH_get(r, x) = luaH_get(tab, x)
    BY rehashFact
  <2> HIDE DEF r
  <2>3. SetsOnly(r, k, v, t)
    BY <2>1, <2>2, SetInRoomFact
  <2>4. luaH_get(tab, k) = NoValue
    BY <1>2, <1>4 DEF HasRoom
  <2>5. QED
    BY <2>2, <2>3, <2>4 DEF SetsOnly
<1>5. QED
  BY <1>3, <1>4

\* luaH_resizearray keeps the value of every key.
LEMMA luaH_resizearrayFact ==
  ASSUME NEW tab, TabInv(tab), NEW nasize \in 0 .. MAXASIZE, nasize > Len(tab.array),
         NEW t, t = luaH_resizearray(tab, nasize)
  PROVE  TabInv(t) /\ \A x \in AllKeys : luaH_get(t, x) = luaH_get(tab, x)
<1> DEFINE nhsize == IF tab.dummy THEN 0 ELSE sizenode(tab)
           O == Outside(tab, nasize)
           size == sizenode(tab)
<1>1. t = resize(tab, nasize, nhsize)
  BY DEF luaH_resizearray
<1>2. Hashed(tab) /\ Len(tab.array) \in Nat /\ nasize \in Nat
  BY PowersFact DEF TabInv, TabType
<1>3. size \in 1 .. MAXASIZE /\ size \in Nat
  BY <1>2, HashedFact DEF Shaped
<1>4. ASSUME NEW x \in O PROVE NodeOf(tab, x) \in 1 .. size /\ tab.node[NodeOf(tab, x)].key = x
  <2>1. x \in AllKeys /\ luaH_get(tab, x) # NoValue /\ x \notin 1 .. nasize
    BY KeysFact DEF Outside
  <2>2. x \notin 1 .. Len(tab.array)
    BY <2>1, <1>2
  <2>3. HashGet(tab, x) # NoValue
    BY <2>1, <2>2, luaH_getFact
  <2>4. NodeOf(tab, x) # 0
    BY <2>3 DEF HashGet
  <2>5. QED
    BY <2>1, <2>4, <1>2, HasNode
<1>5. IsFiniteSet(O) /\ Cardinality(O) \in Nat
  <2>1. IsFiniteSet(O)
    BY KeysFact, FS_Subset DEF Outside
  <2>2. QED
    BY <2>1, FS_CardinalityType
<1>6. Cardinality(O) <= size
  <2> DEFINE f == [x \in O |-> NodeOf(tab, x)]
  <2>1. SUFFICES ASSUME Cardinality(O) > size PROVE FALSE
    BY <1>3, <1>5
  <2>2. IsFiniteSet(1 .. size) /\ Cardinality(1 .. size) = size
    BY <1>3, FS_Interval
  <2>3. f \in [O -> 1 .. size]
    BY <1>4
  <2>4. \E x, y \in O : x # y /\ f[x] = f[y]
    <3> HIDE DEF f, O, size
    <3>1. QED
      BY <1>5, <2>1, <2>2, <2>3, FS_PigeonHole
  <2>5. QED
    BY <2>4, <1>4
<1>7. tab.dummy => O = {}
  <2>1. SUFFICES ASSUME tab.dummy, NEW x \in O PROVE FALSE
    OBVIOUS
  <2>2. size = 1 /\ tab.node[1].key = NoKey
    BY <2>1 DEF TabInv, Passed
  <2>3. x = NoKey
    BY <2>2, <1>4
  <2>4. QED
    BY <2>3, KeysFact DEF Outside
<1>8. nhsize \in 0 .. MAXASIZE /\ Cardinality(O) <= nhsize
  <2>1. CASE tab.dummy
    BY <2>1, <1>7, FS_EmptySet, PowersFact
  <2>2. CASE ~tab.dummy
    BY <2>2, <1>3, <1>6, PowersFact
  <2>3. QED
    BY <2>1, <2>2
<1> HIDE DEF nhsize
<1>9. QED
  BY <1>1, <1>8, resizeFact

-----------------------------------------------------------------------------
\* The order of a traversal.

Places(tab) == 1 .. Len(tab.array) + sizenode(tab)
PlaceKey(tab, i) == IF i <= Len(tab.array) THEN i ELSE tab.node[i - Len(tab.array)].key
PlaceVal(tab, i) ==
  IF i <= Len(tab.array) THEN tab.array[i] ELSE tab.node[i - Len(tab.array)].val

\* findindex gives the place of a key in the table.
LEMMA findindexFact ==
  ASSUME NEW tab, TabInv(tab), NEW k \in Keys
  PROVE  /\ luaH_get(tab, k) # NoValue => InTable(tab, k)
         /\ InTable(tab, k) =>
              /\ findindex(tab, k) \in Places(tab)
              /\ PlaceKey(tab, findindex(tab, k)) = k
              /\ PlaceVal(tab, findindex(tab, k)) = luaH_get(tab, k)
<1> DEFINE size == Len(tab.array)
           hsize == sizenode(tab)
<1>1. k \in AllKeys /\ k # NoKey /\ Hashed(tab)
  BY KeysFact DEF TabInv
<1>2. size \in Nat /\ hsize \in Nat /\ DOMAIN tab.node = 1 .. hsize
  BY <1>1, HashedFact, PowersFact DEF TabInv, TabType
<1>3. InArray(tab, k) <=> k \in 1 .. size
  BY InArrayFact
<1>4. CASE InArray(tab, k)
  <2>1. findindex(tab, k) = k /\ k \in 1 .. size /\ luaH_get(tab, k) = tab.array[k]
    BY <1>1, <1>3, <1>4 DEF findindex, luaH_get
  <2>2. QED
    BY <2>1, <1>2, <1>4 DEF Places, PlaceKey, PlaceVal, InTable
<1>5. CASE ~InArray(tab, k)
  <2> DEFINE n == NodeOf(tab, k)
  <2>1. n \in 0 .. hsize /\ (n # 0 => tab.node[n].key = k)
        /\ \A m \in 1 .. hsize : tab.node[m].key = k => n = m
    BY <1>1, HasNode
  <2>2. findindex(tab, k) = size + n
    BY <1>1, <1>5 DEF findindex
  <2>3. luaH_get(tab, k) = IF n = 0 THEN NoValue ELSE tab.node[n].val
    BY <1>5 DEF luaH_get
  <2>4. InTable(tab, k) <=> n # 0
    BY <2>1, <1>2, <1>5 DEF InTable
  <2> HIDE DEF n
  <2>5. n # 0 => ~(size + n <= size) /\ size + n - size = n /\ size + n \in 1 .. size + hsize
    BY <2>1, <1>2
  <2>6. QED
    BY <2>2, <2>3, <2>4, <2>5, <2>1 DEF Places, PlaceKey, PlaceVal
<1>6. QED
  BY <1>4, <1>5

\* The key at a place with a value is found there.
LEMMA PlaceFact ==
  ASSUME NEW tab, TabInv(tab), NEW i \in Places(tab), PlaceVal(tab, i) # NoValue
  PROVE  LET k == PlaceKey(tab, i)
         IN /\ k \in Keys /\ InTable(tab, k) /\ findindex(tab, k) = i
            /\ luaH_get(tab, k) # NoValue
<1> DEFINE size == Len(tab.array)
           hsize == sizenode(tab)
<1>1. Hashed(tab)
  BY DEF TabInv
<1>2. size \in Nat /\ hsize \in Nat /\ DOMAIN tab.node = 1 .. hsize /\ DOMAIN tab.array = 1 .. size
  BY <1>1, HashedFact, PowersFact DEF TabInv, TabType
<1>3. CASE i <= size
  <2>1. PlaceKey(tab, i) = i /\ tab.array[i] # NoValue /\ i \in 1 .. size
    BY <1>2, <1>3 DEF Places, PlaceKey, PlaceVal
  <2>2. i \in Keys /\ InArray(tab, i) /\ i # NoKey
    BY <2>1, <1>2, InArrayFact DEF TabInv, Apart, Keys, NoKey
  <2>3. QED
    BY <2>1, <2>2 DEF InTable, findindex, luaH_get
<1>4. CASE ~(i <= size)
  <2> DEFINE n == i - size
             k == tab.node[n].key
  <2>1. n \in 1 .. hsize /\ PlaceKey(tab, i) = k /\ tab.node[n].val # NoValue /\ i = size + n
    BY <1>2, <1>4 DEF Places, PlaceKey, PlaceVal
  <2> HIDE DEF n
  <2>2. k # NoKey
    BY <2>1, <1>1, <1>2 DEF Hashed, Unused
  <2>3. k \in Keys /\ k \in AllKeys /\ k \notin 1 .. size
    BY <2>1, <2>2, <1>1, <1>2, HashedFact, KeysFact DEF TabInv, Apart
  <2>4. NodeOf(tab, k) = n /\ n # 0
    BY <2>1, <2>3, <1>1, HasNode
  <2>5. ~InArray(tab, k)
    BY <2>3, InArrayFact
  <2>6. findindex(tab, k) = i /\ luaH_get(tab, k) = tab.node[n].val
    BY <2>1, <2>2, <2>4, <2>5 DEF findindex, luaH_get
  <2>7. InTable(tab, k)
    BY <2>1, <1>2 DEF InTable
  <2>8. QED
    BY <2>1, <2>3, <2>6, <2>7
<1>5. QED
  BY <1>3, <1>4

\* luaH_next finds the first key with a value that comes after k.
LEMMA luaH_nextFact ==
  ASSUME NEW tab, TabInv(tab), NEW k,
         findindex(tab, k) \in 0 .. Len(tab.array) + sizenode(tab),
         NEW n, n = luaH_next(tab, k)
  PROVE  \/ /\ n = NoKey
            /\ \A x \in Keys : luaH_get(tab, x) # NoValue => findindex(tab, x) <= findindex(tab, k)
         \/ /\ n \in Keys /\ InTable(tab, n) /\ luaH_get(tab, n) # NoValue
            /\ findindex(tab, n) > findindex(tab, k)
            /\ \A x \in Keys :
                 luaH_get(tab, x) # NoValue /\ findindex(tab, x) < findindex(tab, n) =>
                   findindex(tab, x) <= findindex(tab, k)
<1> DEFINE start == findindex(tab, k)
           total == Len(tab.array) + sizenode(tab)
           places == {i \in start + 1 .. total : PlaceVal(tab, i) # NoValue}
<1>1. n = IF places = {} THEN NoKey
          ELSE LET i == CHOOSE i \in places : \A j \in places : i <= j IN PlaceKey(tab, i)
  BY DEF luaH_next, PlaceKey, PlaceVal
<1>2. start \in 0 .. total /\ total \in Nat
  BY HashedFact, PowersFact DEF TabInv, TabType
<1>3. places \subseteq Nat /\ places \subseteq Places(tab)
  BY <1>2 DEF Places
<1>4. ASSUME NEW x \in Keys, luaH_get(tab, x) # NoValue, ~(findindex(tab, x) <= start)
      PROVE  findindex(tab, x) \in places
  <2>1. findindex(tab, x) \in 1 .. total /\ PlaceVal(tab, findindex(tab, x)) # NoValue
    BY <1>4, findindexFact DEF Places
  <2> HIDE DEF start
  <2>2. QED
    BY <2>1, <1>2, <1>4
<1>5. CASE places = {}
  BY <1>1, <1>4, <1>5
<1>6. CASE places # {}
  <2> DEFINE i == CHOOSE i \in places : \A j \in places : i <= j
  <2>1. i \in places /\ \A j \in places : i <= j
    <3>1. \E j \in places : \A m \in places : j <= m
      <4> HIDE DEF places
      <4>1. QED
        BY <1>3, <1>6, Least
    <3>2. QED
      BY <3>1
  <2>2. n = PlaceKey(tab, i)
    BY <1>1, <1>6
  <2> HIDE DEF i
  <2>3. n \in Keys /\ InTable(tab, n) /\ findindex(tab, n) = i /\ luaH_get(tab, n) # NoValue
    BY <2>1, <2>2, <1>3, PlaceFact
  <2>4. i > start
    BY <2>1, <1>2
  <2>5. ASSUME NEW x \in Keys, luaH_get(tab, x) # NoValue, findindex(tab, x) < i
        PROVE  findindex(tab, x) <= start
    <3>1. SUFFICES ASSUME ~(findindex(tab, x) <= start) PROVE FALSE
      OBVIOUS
    <3>2. findindex(tab, x) \in places
      BY <3>1, <2>5, <1>4
    <3>3. i <= findindex(tab, x) /\ findindex(tab, x) \in Nat /\ i \in Nat
      BY <3>2, <2>1, <1>3
    <3>4. QED
      BY <3>3, <2>5
  <2>6. QED
    BY <2>3, <2>4, <2>5
<1>7. QED
  BY <1>5, <1>6

\* A table keeps the places of its keys when a key it has is given a value.
LEMMA KeepsPlaces ==
  ASSUME NEW tab, TabInv(tab), NEW k \in Keys, luaH_get(tab, k) # NoValue, NEW v \in Cells,
         NEW t, t = luaH_set(tab, k, v), NEW x \in Keys
  PROVE  (InTable(t, x) <=> InTable(tab, x)) /\ findindex(t, x) = findindex(tab, x)
<1>1. SetsOnly(tab, k, v, t) /\ (InArray(tab, k) \/ NodeOf(tab, k) # 0)
  BY luaH_setFact
<1>2. /\ TabInv(t) /\ Len(t.array) = Len(tab.array) /\ sizenode(t) = sizenode(tab)
      /\ \A y \in AllKeys : NodeOf(t, y) = NodeOf(tab, y)
      /\ \A n \in 1 .. sizenode(tab) : t.node[n].key = tab.node[n].key
  BY <1>1 DEF SetsOnly
<1>3. InArray(t, x) <=> InArray(tab, x)
  BY <1>2, InArrayFact
<1>4. DOMAIN t.node = 1 .. sizenode(tab) /\ DOMAIN tab.node = 1 .. sizenode(tab)
  BY <1>2, HashedFact DEF TabInv
<1>5. InTable(t, x) <=> InTable(tab, x)
  BY <1>2, <1>3, <1>4 DEF InTable
<1>6. NodeOf(t, x) = NodeOf(tab, x)
  BY <1>2, KeysFact
<1>7. QED
  BY <1>2, <1>3, <1>5, <1>6 DEF findindex

-----------------------------------------------------------------------------
\* The invariant and the promise.

\* No key has a place before the first; a key in the table has one after it.
LEMMA VisitedPlace ==
  ASSUME NEW tab, TabInv(tab)
  PROVE  /\ findindex(tab, NoKey) = 0
         /\ \A k \in Keys : InTable(tab, k) =>
              /\ findindex(tab, k) \in 1 .. Len(tab.array) + sizenode(tab)
              /\ findindex(tab, k) \in Nat /\ findindex(tab, k) > 0
         /\ Len(tab.array) + sizenode(tab) \in Nat
<1>1. Len(tab.array) + sizenode(tab) \in Nat
  BY HashedFact, PowersFact DEF TabInv, TabType
<1>2. ASSUME NEW k \in Keys, InTable(tab, k)
      PROVE  findindex(tab, k) \in 1 .. Len(tab.array) + sizenode(tab)
  BY <1>2, findindexFact DEF Places
<1>3. QED
  BY <1>1, <1>2 DEF findindex

\* TableInv holds at first.
LEMMA TableInvInit == TableInit => TableInv
<1> SUFFICES ASSUME TableInit PROVE TableInv
  OBVIOUS
<1>1. PICK narray, nhash \in 0 .. MaxSizes : tbl = luaH_new(narray, nhash)
  BY DEF TableInit
<1>2. narray \in 0 .. MAXASIZE /\ nhash \in 0 .. MAXASIZE
  BY SizesAssumption, PowersFact
<1>3. TabInv(tbl) /\ \A x \in Keys : luaH_get(tbl, x) = NoValue
  BY <1>1, <1>2, luaH_newFact, KeysFact
<1>4. visiting = FALSE /\ key = NoKey /\ seen = {}
  BY DEF TableInit
<1>5. VisitInv
  BY <1>3, <1>4 DEF VisitInv
<1>6. QED
  BY <1>3, <1>4, <1>5 DEF TableInv

\* An assignment in a traversal is of a key that has a value, so that no key
\* changes its place.
LEMMA TableInvAssign ==
  ASSUME TableInv, NEW k \in Keys, NEW v \in Values \cup {NoValue}, Assign(k, v)
  PROVE  TableInv'
<1>1. TabInv(tbl) /\ v \in Cells /\ tbl' = luaH_set(tbl, k, v) /\ VisitInv
  BY DEF TableInv, Cells, Assign
<1>2. TabInv(tbl') /\ \A x \in Keys : luaH_get(tbl', x) = IF x = k THEN v ELSE luaH_get(tbl, x)
  BY <1>1, luaH_setFact, KeysFact
<1>3. visiting' = visiting /\ key' = key /\ seen' = seen
  BY DEF Assign
<1>4. findindex(tbl, NoKey) = 0 /\ findindex(tbl', NoKey) = 0
  BY <1>1, <1>2, VisitedPlace
<1>5. CASE visiting
  <2>1. luaH_get(tbl, k) # NoValue
    BY <1>5 DEF Assign
  <2>2. \A x \in Keys : (InTable(tbl', x) <=> InTable(tbl, x)) /\ findindex(tbl', x) = findindex(tbl, x)
    BY <1>1, <2>1, KeepsPlaces
  <2>3. findindex(tbl', key) = findindex(tbl, key)
    BY <1>1, <1>4, <2>2 DEF VisitInv
  <2>4. ASSUME NEW x \in Keys, luaH_get(tbl', x) # NoValue PROVE luaH_get(tbl, x) # NoValue
    BY <1>2, <2>1, <2>4
  <2>5. VisitInv'
    BY <1>1, <1>3, <2>2, <2>3, <2>4 DEF VisitInv
  <2>6. QED
    BY <1>2, <1>3, <2>5 DEF TableInv
<1>6. CASE ~visiting
  <2>1. key = NoKey /\ seen = {}
    BY <1>1, <1>6 DEF VisitInv
  <2>2. ASSUME NEW x \in Keys, luaH_get(tbl', x) # NoValue PROVE ~(findindex(tbl', x) <= 0)
    BY <1>2, <2>2, findindexFact, VisitedPlace
  <2>3. VisitInv'
    BY <1>3, <1>4, <2>1, <2>2 DEF VisitInv
  <2>4. QED
    BY <1>2, <1>3, <2>3 DEF TableInv
<1>7. QED
  BY <1>5, <1>6

\* A constructor keeps the value of every key.
LEMMA ConstructFact ==
  ASSUME TableInv, NEW n \in 1 .. MaxSizes, Construct(n)
  PROVE  TabInv(tbl') /\ \A x \in AllKeys : luaH_get(tbl', x) = luaH_get(tbl, x)
<1>1. n \in 0 .. MAXASIZE
  BY SizesAssumption, PowersFact
<1>2. TabInv(tbl) /\ n > Len(tbl.array) /\ tbl' = luaH_resizearray(tbl, n)
  BY DEF TableInv, Construct
<1>3. QED
  BY <1>1, <1>2, luaH_resizearrayFact

\* No traversal goes on when a constructor makes the array larger.
LEMMA TableInvConstruct ==
  ASSUME TableInv, NEW n \in 1 .. MaxSizes, Construct(n)
  PROVE  TableInv'
<1>1. TabInv(tbl')
  BY ConstructFact
<1>2. visiting' = visiting /\ key' = NoKey /\ seen' = {} /\ ~visiting
  BY DEF Construct, TableInv, VisitInv
<1>3. findindex(tbl', NoKey) = 0
  BY <1>1, VisitedPlace
<1>4. ASSUME NEW x \in Keys, luaH_get(tbl', x) # NoValue PROVE ~(findindex(tbl', x) <= 0)
  BY <1>1, <1>4, findindexFact, VisitedPlace
<1>5. VisitInv'
  BY <1>2, <1>3, <1>4 DEF VisitInv
<1>6. QED
  BY <1>1, <1>2, <1>5 DEF TableInv

\* A traversal begins before the first place.
LEMMA TableInvBegin == TableInv /\ Begin => TableInv'
<1> SUFFICES ASSUME TableInv, Begin PROVE TableInv'
  OBVIOUS
<1>1. tbl' = tbl /\ visiting' = TRUE /\ key' = key /\ seen' = seen
  BY DEF Begin
<1>2. QED
  BY <1>1 DEF TableInv, VisitInv

\* The place of the key reached.
LEMMA KeyPlace ==
  ASSUME TableInv
  PROVE  /\ findindex(tbl, key) \in 0 .. Len(tbl.array) + sizenode(tbl)
         /\ findindex(tbl, key) \in Nat
<1>1. TabInv(tbl) /\ (key # NoKey => key \in Keys /\ InTable(tbl, key))
  BY DEF TableInv, VisitInv
<1>2. QED
  BY <1>1, VisitedPlace

\* luaH_next leads to a key that has not been seen, or to the end when all have.
LEMMA VisitFact ==
  ASSUME TableInv, Visit
  PROVE  \/ /\ key' = NoKey
            /\ \A x \in Keys : luaH_get(tbl, x) # NoValue => x \in seen
         \/ /\ key' \in Keys /\ InTable(tbl, key') /\ luaH_get(tbl, key') # NoValue
            /\ key' \notin seen
            /\ findindex(tbl, key') > findindex(tbl, key)
            /\ \A x \in Keys :
                 luaH_get(tbl, x) # NoValue /\ findindex(tbl, x) < findindex(tbl, key') =>
                   x \in seen
<1>1. TabInv(tbl) /\ VisitInv /\ key' = luaH_next(tbl, key)
  BY DEF TableInv, Visit
<1>2. findindex(tbl, key) \in 0 .. Len(tbl.array) + sizenode(tbl) /\ findindex(tbl, key) \in Nat
  BY KeyPlace
<1>3. CASE /\ key' = NoKey
           /\ \A x \in Keys : luaH_get(tbl, x) # NoValue => findindex(tbl, x) <= findindex(tbl, key)
  BY <1>1, <1>3 DEF VisitInv
<1>4. CASE /\ key' \in Keys /\ InTable(tbl, key') /\ luaH_get(tbl, key') # NoValue
           /\ findindex(tbl, key') > findindex(tbl, key)
           /\ \A x \in Keys :
                luaH_get(tbl, x) # NoValue /\ findindex(tbl, x) < findindex(tbl, key') =>
                  findindex(tbl, x) <= findindex(tbl, key)
  <2>1. findindex(tbl, key') \in Nat
    BY <1>1, <1>4, VisitedPlace
  <2>2. key' \notin seen
    BY <1>1, <1>2, <1>4, <2>1 DEF VisitInv
  <2>3. QED
    BY <1>1, <1>4, <2>2 DEF VisitInv
<1>5. QED
  BY <1>1, <1>2, <1>3, <1>4, luaH_nextFact

\* The keys up to the one reached have been seen.
LEMMA TableInvVisit == TableInv /\ Visit => TableInv'
<1> SUFFICES ASSUME TableInv, Visit PROVE TableInv'
  OBVIOUS
<1>1. /\ tbl' = tbl /\ visiting' = (key' # NoKey)
      /\ seen' = IF key' = NoKey THEN {} ELSE seen \cup {key'}
  BY DEF Visit
<1>2. TabInv(tbl) /\ VisitInv
  BY DEF TableInv
<1>3. findindex(tbl, NoKey) = 0
  BY <1>2, VisitedPlace
<1>4. visiting' \in BOOLEAN /\ (visiting' <=> key' # NoKey)
  BY <1>1
<1>5. CASE key' = NoKey
  <2>1. ASSUME NEW x \in Keys, luaH_get(tbl, x) # NoValue PROVE ~(findindex(tbl, x) <= 0)
    BY <1>2, <2>1, findindexFact, VisitedPlace
  <2>2. VisitInv'
    BY <1>1, <1>3, <1>4, <1>5, <2>1 DEF VisitInv
  <2>3. QED
    BY <1>1, <1>2, <1>4, <2>2 DEF TableInv
<1>6. CASE key' # NoKey
  <2>1. /\ key' \in Keys /\ InTable(tbl, key') /\ luaH_get(tbl, key') # NoValue
        /\ findindex(tbl, key') > findindex(tbl, key)
        /\ \A x \in Keys :
             luaH_get(tbl, x) # NoValue /\ findindex(tbl, x) < findindex(tbl, key') => x \in seen
    BY <1>6, VisitFact
  <2>2. seen' = seen \cup {key'}
    BY <1>1, <1>6
  <2>3. findindex(tbl, key) \in Nat /\ findindex(tbl, key') \in Nat
    BY <2>1, <1>2, KeyPlace, VisitedPlace
  <2>4. ASSUME NEW x \in seen'
        PROVE  x \in Keys /\ InTable(tbl, x) /\ findindex(tbl, x) <= findindex(tbl, key')
    <3>1. CASE x = key'
      BY <3>1, <2>1, <2>3
    <3>2. CASE x \in seen
      <4>1. x \in Keys /\ InTable(tbl, x) /\ findindex(tbl, x) <= findindex(tbl, key)
        BY <3>2, <1>2 DEF VisitInv
      <4>2. findindex(tbl, x) \in Nat
        BY <4>1, <1>2, VisitedPlace
      <4>3. QED
        BY <4>1, <4>2, <2>1, <2>3
    <3>3. QED
      BY <3>1, <3>2, <2>2
  <2>5. ASSUME NEW x \in Keys, luaH_get(tbl, x) # NoValue, findindex(tbl, x) <= findindex(tbl, key')
        PROVE  x \in seen'
    <3>1. CASE findindex(tbl, x) = findindex(tbl, key')
      <4>1. InTable(tbl, x) /\ InTable(tbl, key')
        BY <2>1, <2>5, <1>2, findindexFact
      <4>2. x = key'
        BY <3>1, <4>1, <2>1, <1>2, findindexFact
      <4>3. QED
        BY <4>2, <2>2
    <3>2. CASE findindex(tbl, x) # findindex(tbl, key')
      <4>1. findindex(tbl, x) \in Nat
        BY <2>5, <1>2, findindexFact, VisitedPlace
      <4>2. findindex(tbl, x) < findindex(tbl, key')
        BY <4>1, <3>2, <2>3, <2>5
      <4>3. QED
        BY <4>2, <2>1, <2>2, <2>5
    <3>3. QED
      BY <3>1, <3>2
  <2>6. VisitInv'
    BY <1>1, <1>4, <1>6, <2>1, <2>4, <2>5 DEF VisitInv
  <2>7. QED
    BY <1>1, <1>2, <1>4, <2>6 DEF TableInv
<1>7. QED
  BY <1>5, <1>6

\* A table stays well formed: every key with a value is found from its main
\* position, chains end, no key is in both parts, and a traversal has seen the
\* keys up to the one it has reached (ltable.c).
THEOREM TableInvariant == TableSpec => []TableInv
<1>1. ASSUME TableInv, TableNext PROVE TableInv'
  <2>1. CASE \E k \in Keys, v \in Values \cup {NoValue} : Assign(k, v)
    BY <1>1, <2>1, TableInvAssign
  <2>2. CASE \E n \in 1 .. MaxSizes : Construct(n)
    BY <1>1, <2>2, TableInvConstruct
  <2>3. CASE Begin
    BY <1>1, <2>3, TableInvBegin
  <2>4. CASE Visit
    BY <1>1, <2>4, TableInvVisit
  <2>5. QED
    BY <1>1, <2>1, <2>2, <2>3, <2>4 DEF TableNext
<1>2. ASSUME TableInv, UNCHANGED tableVars PROVE TableInv'
  BY <1>2 DEF TableInv, VisitInv, tableVars
<1>3. QED
  BY TableInvInit, <1>1, <1>2, PTL DEF TableSpec

-----------------------------------------------------------------------------
Map == [k \in Keys |-> luaH_get(tbl, k)]

\* The steps of a table are steps of its promise.
LEMMA PromisedStep ==
  ASSUME TableInv, TableNext PROVE Promise!Next \/ UNCHANGED <<Map, visiting, seen>>
<1>1. TabInv(tbl)
  BY DEF TableInv
<1>2. CASE \E k \in Keys, v \in Values \cup {NoValue} : Assign(k, v)
  <2>1. PICK k \in Keys, v \in Values \cup {NoValue} : Assign(k, v)
    BY <1>2
  <2>2. \A x \in Keys : luaH_get(tbl', x) = IF x = k THEN v ELSE luaH_get(tbl, x)
    BY <1>1, <2>1, luaH_setFact, KeysFact DEF Assign, Cells
  <2>3. Map' = [Map EXCEPT ![k] = v]
    BY <2>2 DEF Map
  <2>4. (visiting => Map[k] # NoValue) /\ UNCHANGED <<visiting, seen>>
    BY <2>1 DEF Assign, Map
  <2>5. Promise!Assign(k, v)
    BY <2>3, <2>4 DEF Promise!Assign, Map
  <2>6. QED
    BY <2>5 DEF Promise!Next
<1>3. CASE \E n \in 1 .. MaxSizes : Construct(n)
  <2>1. PICK n \in 1 .. MaxSizes : Construct(n)
    BY <1>3
  <2>2. \A x \in Keys : luaH_get(tbl', x) = luaH_get(tbl, x)
    BY <2>1, ConstructFact, KeysFact
  <2>3. QED
    BY <2>1, <2>2 DEF Construct, Map
<1>4. CASE Begin
  <2>1. seen = {}
    BY <1>4 DEF Begin, TableInv, VisitInv
  <2>2. Promise!Begin
    BY <1>4, <2>1 DEF Begin, Promise!Begin
  <2>3. QED
    BY <2>2 DEF Promise!Next
<1>5. CASE Visit
  <2>1. tbl' = tbl /\ visiting
    BY <1>5 DEF Visit
  <2>2. CASE key' = NoKey
    <3>1. visiting' = FALSE /\ seen' = {}
      BY <1>5, <2>2 DEF Visit
    <3>2. \A x \in Keys : luaH_get(tbl, x) # NoValue => x \in seen
      BY <1>5, <2>2, VisitFact, KeysFact
    <3>3. {k \in Keys : Map[k] # NoValue} \subseteq seen
      BY <3>2 DEF Map
    <3>4. Promise!End
      BY <2>1, <3>1, <3>3 DEF Promise!End, Map
    <3>5. QED
      BY <3>4 DEF Promise!Next
  <2>3. CASE key' # NoKey
    <3>1. key' \in Keys /\ luaH_get(tbl, key') # NoValue /\ key' \notin seen
      BY <1>5, <2>3, VisitFact
    <3>2. visiting' = TRUE /\ seen' = seen \cup {key'}
      BY <1>5, <2>3 DEF Visit
    <3>3. visiting' = visiting
      BY <2>1, <3>2 DEF TableInv
    <3>4. Promise!Visit(key')
      BY <2>1, <3>1, <3>2, <3>3 DEF Promise!Visit
    <3>5. QED
      BY <3>1, <3>4 DEF Promise!Next
  <2>4. QED
    BY <2>2, <2>3
<1>6. QED
  BY <1>2, <1>3, <1>4, <1>5 DEF TableNext

\* A table is the function its specification promises, for all keys and hashes.
THEOREM TableImplements == TableSpec => Implements
<1>1. TableInit => Promise!Init
  <2>1. SUFFICES ASSUME TableInit PROVE Promise!Init
    OBVIOUS
  <2>2. PICK narray, nhash \in 0 .. MaxSizes : tbl = luaH_new(narray, nhash)
    BY <2>1 DEF TableInit
  <2>3. narray \in 0 .. MAXASIZE /\ nhash \in 0 .. MAXASIZE
    BY SizesAssumption, PowersFact
  <2>4. \A x \in Keys : luaH_get(tbl, x) = NoValue
    BY <2>2, <2>3, luaH_newFact, KeysFact
  <2>5. QED
    BY <2>1, <2>4 DEF TableInit, Promise!Init
<1>2. ASSUME TableInv, [TableNext]_tableVars
      PROVE  [Promise!Next]_<<Map, visiting, seen>>
  <2>1. CASE TableNext
    BY <1>2, <2>1, PromisedStep
  <2>2. CASE UNCHANGED tableVars
    BY <2>2 DEF tableVars, Map
  <2>3. QED
    BY <1>2, <2>1, <2>2
<1>3. QED
  BY TableInvariant, <1>1, <1>2, PTL DEF TableSpec, Implements, Promise!Spec, Map

-----------------------------------------------------------------------------
\* The binary search of luaH_getn.

\* r has a value, or is 0, and r + 1 has none.
Border(tab, r) ==
  /\ r \in 0 .. MAX_INT - 1
  /\ r > 0 => luaH_get(tab, r) # NoValue
  /\ luaH_get(tab, r + 1) = NoValue

Pair == (0 .. MAX_INT) \X (0 .. MAX_INT)
Middle(p) == (p[1] + p[2]) \div 2
Halves == [p \in Pair |-> IF p[2] - p[1] <= 1 THEN {} ELSE {<<p[1], Middle(p)>>, <<Middle(p), p[2]>>}]
Halving(tab, f, p) ==
  IF p[2] - p[1] <= 1 THEN p[1]
  ELSE IF luaH_get(tab, Middle(p)) = NoValue THEN f[<<p[1], Middle(p)>>]
  ELSE f[<<Middle(p), p[2]>>]

\* The middle is between the ends when they are more than 1 apart.
LEMMA MiddleFact ==
  ASSUME NEW p \in Pair
  PROVE  /\ p[1] \in 0 .. MAX_INT /\ p[2] \in 0 .. MAX_INT /\ Middle(p) \in 0 .. MAX_INT
         /\ p[2] - p[1] > 1 => p[1] < Middle(p) /\ Middle(p) < p[2]
<1>1. p[1] \in 0 .. MAX_INT /\ p[2] \in 0 .. MAX_INT /\ MAX_INT \in Nat
  BY PowersFact DEF Pair
<1> DEFINE a == p[1]
           b == p[2]
           m == (a + b) \div 2
<1>2. a \in 0 .. MAX_INT /\ b \in 0 .. MAX_INT /\ Middle(p) = m
  BY <1>1 DEF Middle
<1> HIDE DEF a, b
<1>3. m \in Int /\ 2 * m <= a + b /\ a + b <= 2 * m + 1
  BY <1>1, <1>2
<1> HIDE DEF m
<1>4. m \in 0 .. MAX_INT /\ (b - a > 1 => a < m /\ m < b)
  BY <1>1, <1>2, <1>3
<1>5. QED
  BY <1>1, <1>2, <1>4 DEF a, b

\* Halving ends.
LEMMA HalvesFact ==
  /\ Founded(Pair, Halves)
  /\ \A p \in Pair :
       /\ Halves[p] \subseteq Pair
       /\ p[2] - p[1] > 1 =>
            /\ <<p[1], Middle(p)>> \in Halves[p] /\ <<Middle(p), p[2]>> \in Halves[p]
<1> DEFINE m == [p \in Pair |-> IF p[1] <= p[2] THEN p[2] - p[1] ELSE 0]
<1>1. m \in [Pair -> Nat]
  BY MiddleFact
<1>2. ASSUME NEW p \in Pair, NEW q \in Halves[p] PROVE q \in Pair /\ m[q] < m[p]
  <2>1. p[2] - p[1] > 1 /\ (q = <<p[1], Middle(p)>> \/ q = <<Middle(p), p[2]>>)
    BY <1>2, MiddleFact DEF Halves
  <2>2. /\ p[1] \in 0 .. MAX_INT /\ p[2] \in 0 .. MAX_INT /\ Middle(p) \in 0 .. MAX_INT
        /\ p[1] < Middle(p) /\ Middle(p) < p[2]
    BY <2>1, MiddleFact
  <2> HIDE DEF m
  <2>3. q \in Pair
    BY <2>1, <2>2 DEF Pair
  <2>4. m[p] = p[2] - p[1]
    BY <2>2 DEF m
  <2>5. CASE q = <<p[1], Middle(p)>>
    <3>1. q[1] = p[1] /\ q[2] = Middle(p)
      BY <2>5
    <3>2. m[q] = Middle(p) - p[1]
      BY <2>2, <2>3, <3>1 DEF m
    <3>3. QED
      BY <2>2, <2>3, <2>4, <3>2
  <2>6. CASE q = <<Middle(p), p[2]>>
    <3>1. q[1] = Middle(p) /\ q[2] = p[2]
      BY <2>6
    <3>2. m[q] = p[2] - Middle(p)
      BY <2>2, <2>3, <3>1 DEF m
    <3>3. QED
      BY <2>2, <2>3, <2>4, <3>2
  <2>7. QED
    BY <2>1, <2>5, <2>6
<1> HIDE DEF m
<1>3. Founded(Pair, Halves)
  BY <1>1, <1>2, MeasureFounded
<1>4. ASSUME NEW p \in Pair, p[2] - p[1] > 1
      PROVE  <<p[1], Middle(p)>> \in Halves[p] /\ <<Middle(p), p[2]>> \in Halves[p]
  BY <1>4, MiddleFact DEF Halves
<1>5. QED
  BY <1>2, <1>3, <1>4

\* The binary search gives each pair a result.
LEMMA HalvingExists ==
  ASSUME NEW tab
  PROVE  \E f \in [Pair -> 0 .. MAX_INT] : \A p \in Pair : f[p] = Halving(tab, f, p)
<1> DEFINE V == 0 .. MAX_INT
           Step == [p \in Pair |-> [f \in [Pair -> V] |-> Halving(tab, f, p)]]
<1>1. Local(Pair, V, Halves, Step)
  <2>1. SUFFICES ASSUME NEW d \in Pair, NEW p \in [Pair -> V], NEW q \in [Pair -> V],
                        \A e \in Pair : e \in Halves[d] => p[e] = q[e]
                 PROVE  Step[d][p] = Step[d][q]
    BY DEF Local
  <2>2. CASE d[2] - d[1] <= 1
    BY <2>2 DEF Halving
  <2>3. CASE ~(d[2] - d[1] <= 1)
    <3>1. d[2] - d[1] > 1
      BY <2>3, MiddleFact
    <3>2. p[<<d[1], Middle(d)>>] = q[<<d[1], Middle(d)>>] /\ p[<<Middle(d), d[2]>>] = q[<<Middle(d), d[2]>>]
      BY <3>1, <2>1, HalvesFact
    <3>3. QED
      BY <3>2 DEF Halving
  <2>4. QED
    BY <2>2, <2>3
<1>2. ASSUME NEW d \in Pair, NEW p \in [Pair -> V] PROVE Step[d][p] \in V
  <2>1. d[1] \in V /\ <<d[1], Middle(d)>> \in Pair /\ <<Middle(d), d[2]>> \in Pair
    BY MiddleFact DEF Pair
  <2>2. Halving(tab, p, d) \in V
    BY <2>1 DEF Halving
  <2>3. QED
    BY <2>2
<1>3. V # {}
  BY PowersFact
<1>4. \E f \in [Pair -> V] : \A p \in Pair : f[p] = Step[p][f]
  <2>1. Founded(Pair, Halves) /\ \A p \in Pair : Halves[p] \subseteq Pair
    BY HalvesFact
  <2> HIDE DEF V, Step
  <2>2. \A d \in Pair : \A p \in [Pair -> V] : Step[d][p] \in V
    BY <1>2
  <2>3. QED
    BY <1>1, <1>3, <2>1, <2>2, Recursion
<1>5. PICK f \in [Pair -> V] : \A p \in Pair : f[p] = Step[p][f]
  BY <1>4
<1>6. QED
  BY <1>5

\* Between finds a border below j.
LEMMA BetweenFact ==
  ASSUME NEW tab, NEW i \in 0 .. MAX_INT, NEW j \in 0 .. MAX_INT
  PROVE  /\ Between(tab, i, j) \in 0 .. MAX_INT
         /\ i < j /\ (i > 0 => luaH_get(tab, i) # NoValue) /\ luaH_get(tab, j) = NoValue
              => Border(tab, Between(tab, i, j))
<1> DEFINE V == 0 .. MAX_INT
           search == CHOOSE f : f = [p \in (0 .. MAX_INT) \X (0 .. MAX_INT) |->
             IF p[2] - p[1] <= 1 THEN p[1]
             ELSE IF luaH_get(tab, (p[1] + p[2]) \div 2) = NoValue THEN f[<<p[1], (p[1] + p[2]) \div 2>>]
             ELSE f[<<(p[1] + p[2]) \div 2, p[2]>>]]
<1>1. Between(tab, i, j) = search[<<i, j>>]
  BY Zenon DEF Between
<1>2. \E f \in [Pair -> V] : f = [p \in (0 .. MAX_INT) \X (0 .. MAX_INT) |->
             IF p[2] - p[1] <= 1 THEN p[1]
             ELSE IF luaH_get(tab, (p[1] + p[2]) \div 2) = NoValue THEN f[<<p[1], (p[1] + p[2]) \div 2>>]
             ELSE f[<<(p[1] + p[2]) \div 2, p[2]>>]]
  <2>1. PICK f \in [Pair -> V] : \A p \in Pair : f[p] = Halving(tab, f, p)
    BY HalvingExists
  <2>2. QED
    BY <2>1 DEF Halving, Middle, Pair
<1>3. search = [p \in (0 .. MAX_INT) \X (0 .. MAX_INT) |->
             IF p[2] - p[1] <= 1 THEN p[1]
             ELSE IF luaH_get(tab, (p[1] + p[2]) \div 2) = NoValue THEN search[<<p[1], (p[1] + p[2]) \div 2>>]
             ELSE search[<<(p[1] + p[2]) \div 2, p[2]>>]]
  BY <1>2, Zenon
<1> HIDE DEF search
<1>4. DOMAIN search = Pair /\ \A p \in Pair : search[p] = Halving(tab, search, p)
  BY <1>3 DEF Halving, Middle, Pair
<1>5. \A p \in Pair : search[p] \in V
  <2> DEFINE S == {p \in Pair : search[p] \notin V}
  <2>1. SUFFICES ASSUME S # {} PROVE FALSE
    OBVIOUS
  <2>2. PICK p \in S : Halves[p] \cap S = {}
    <3>1. S \subseteq Pair
      OBVIOUS
    <3> HIDE DEF S
    <3>2. QED
      BY <2>1, <3>1, HalvesFact DEF Founded
  <2>3. CASE p[2] - p[1] <= 1
    BY <2>2, <2>3, <1>4, MiddleFact DEF Halving
  <2>4. CASE ~(p[2] - p[1] <= 1)
    <3>1. /\ <<p[1], Middle(p)>> \in Halves[p] /\ <<Middle(p), p[2]>> \in Halves[p]
          /\ Halves[p] \subseteq Pair
      BY <2>4, MiddleFact, HalvesFact
    <3>2. search[<<p[1], Middle(p)>>] \in V /\ search[<<Middle(p), p[2]>>] \in V
      BY <3>1, <2>2
    <3>3. QED
      BY <3>2, <2>2, <2>4, <1>4 DEF Halving
  <2>5. QED
    BY <2>3, <2>4
<1> DEFINE Encloses(p) ==
     p[1] < p[2] /\ (p[1] > 0 => luaH_get(tab, p[1]) # NoValue) /\ luaH_get(tab, p[2]) = NoValue
<1>6. \A p \in Pair : Encloses(p) => Border(tab, search[p])
  <2> DEFINE S == {p \in Pair : Encloses(p) /\ ~Border(tab, search[p])}
  <2>1. SUFFICES ASSUME S # {} PROVE FALSE
    OBVIOUS
  <2>2. PICK p \in S : Halves[p] \cap S = {}
    <3>1. S \subseteq Pair
      OBVIOUS
    <3> HIDE DEF S
    <3>2. QED
      BY <2>1, <3>1, HalvesFact DEF Founded
  <2>3. CASE p[2] - p[1] <= 1
    <3>1. search[p] = p[1]
      BY <2>2, <2>3, <1>4 DEF Halving
    <3>2. p[2] = p[1] + 1 /\ p[1] \in 0 .. MAX_INT - 1
      <4>1. p[1] \in 0 .. MAX_INT /\ p[2] \in 0 .. MAX_INT /\ MAX_INT \in Nat
        BY MiddleFact, PowersFact
      <4>2. p[1] < p[2]
        BY <2>2
      <4> DEFINE a == p[1]
                 b == p[2]
      <4>3. a \in 0 .. MAX_INT /\ b \in 0 .. MAX_INT /\ a < b /\ b - a <= 1
        BY <4>1, <4>2, <2>3
      <4> HIDE DEF a, b
      <4>4. b = a + 1 /\ a \in 0 .. MAX_INT - 1
        BY <4>1, <4>3
      <4>5. QED
        BY <4>4 DEF a, b
    <3>3. QED
      BY <3>1, <3>2, <2>2 DEF Border
  <2>4. CASE ~(p[2] - p[1] <= 1)
    <3> DEFINE lower == <<p[1], Middle(p)>>
               upper == <<Middle(p), p[2]>>
    <3>1. /\ lower \in Halves[p] /\ upper \in Halves[p] /\ Halves[p] \subseteq Pair
          /\ p[1] < Middle(p) /\ Middle(p) < p[2] /\ Middle(p) > 0
      BY <2>4, MiddleFact, HalvesFact
    <3>2. lower[1] = p[1] /\ lower[2] = Middle(p) /\ upper[1] = Middle(p) /\ upper[2] = p[2]
      OBVIOUS
    <3>3. search[p] = IF luaH_get(tab, Middle(p)) = NoValue THEN search[lower] ELSE search[upper]
      BY <2>2, <2>4, <1>4 DEF Halving
    <3> HIDE DEF lower, upper
    <3>4. lower \in Pair /\ upper \in Pair /\ lower \notin S /\ upper \notin S
      BY <3>1, <2>2
    <3>5. CASE luaH_get(tab, Middle(p)) = NoValue
      BY <3>1, <3>2, <3>3, <3>4, <3>5, <2>2
    <3>6. CASE luaH_get(tab, Middle(p)) # NoValue
      BY <3>1, <3>2, <3>3, <3>4, <3>6, <2>2
    <3>7. QED
      BY <3>5, <3>6
  <2>5. QED
    BY <2>3, <2>4
<1>7. <<i, j>> \in Pair
  BY DEF Pair
<1>8. QED
  BY <1>1, <1>5, <1>6, <1>7

-----------------------------------------------------------------------------
\* luaH_getn.

Probe == (0 .. MAX_INT) \X (1 .. MAX_INT)
Larger == [p \in Probe |-> IF 2 * p[2] > MAX_INT THEN {} ELSE {<<p[2], 2 * p[2]>>}]
Doubling(tab, f, p) ==
  IF luaH_get(tab, p[2]) = NoValue THEN Between(tab, p[1], p[2])
  ELSE IF 2 * p[2] > MAX_INT THEN linear_search(tab)
  ELSE f[<<p[2], 2 * p[2]>>]

\* The next probe is one when it is not too large.
LEMMA ProbeFact ==
  ASSUME NEW p \in Probe
  PROVE  /\ p[1] \in 0 .. MAX_INT /\ p[2] \in 1 .. MAX_INT /\ p[2] \in 0 .. MAX_INT /\ p[2] \in Nat
         /\ ~(2 * p[2] > MAX_INT) => <<p[2], 2 * p[2]>> \in Probe /\ <<p[2], 2 * p[2]>> \in Larger[p]
<1>1. p[1] \in 0 .. MAX_INT /\ p[2] \in 1 .. MAX_INT /\ MAX_INT \in Nat
  BY PowersFact DEF Probe
<1>2. ASSUME ~(2 * p[2] > MAX_INT) PROVE 2 * p[2] \in 1 .. MAX_INT /\ p[2] \in 0 .. MAX_INT
  BY <1>1, <1>2
<1>3. ASSUME ~(2 * p[2] > MAX_INT) PROVE <<p[2], 2 * p[2]>> \in Probe /\ <<p[2], 2 * p[2]>> \in Larger[p]
  BY <1>2, <1>3 DEF Probe, Larger
<1>4. QED
  BY <1>1, <1>3

\* Doubling ends.
LEMMA LargerFact == Founded(Probe, Larger) /\ \A p \in Probe : Larger[p] \subseteq Probe
<1> DEFINE m == [p \in Probe |-> MAX_INT - p[2]]
<1>1. m \in [Probe -> Nat]
  <2>1. ASSUME NEW p \in Probe PROVE MAX_INT - p[2] \in Nat
    <3> DEFINE b == p[2]
    <3>1. b \in 1 .. MAX_INT /\ MAX_INT \in Nat
      BY ProbeFact, PowersFact
    <3> HIDE DEF b
    <3>2. MAX_INT - b \in Nat
      BY <3>1
    <3>3. QED
      BY <3>2 DEF b
  <2>2. QED
    BY <2>1
<1>2. ASSUME NEW p \in Probe, NEW q \in Larger[p] PROVE q \in Probe /\ m[q] < m[p]
  <2>1. ~(2 * p[2] > MAX_INT) /\ q = <<p[2], 2 * p[2]>>
    BY <1>2 DEF Larger
  <2>2. q \in Probe /\ q[2] = 2 * p[2] /\ p[2] \in 1 .. MAX_INT /\ MAX_INT \in Nat
    BY <2>1, ProbeFact, PowersFact
  <2> DEFINE b == p[2]
  <2>3. b \in 1 .. MAX_INT /\ m[q] = MAX_INT - 2 * b /\ m[p] = MAX_INT - b
    BY <2>2
  <2> HIDE DEF b, m
  <2>4. QED
    BY <2>2, <2>3
<1> HIDE DEF m
<1>3. QED
  BY <1>1, <1>2, MeasureFounded

\* No key is as large as MAX_INT, so that a search from 1 ends.
LEMMA linear_searchFact ==
  ASSUME NEW tab, TabInv(tab)
  PROVE  Border(tab, linear_search(tab))
<1> DEFINE S == {k \in 1 .. MAX_INT : luaH_get(tab, k) = NoValue}
<1>1. MAX_INT \in Nat /\ MAX_INT > 0
  BY PowersFact
<1>2. MAX_INT \in S
  <2>1. MAX_INT \in AllKeys /\ MAX_INT \notin Keys
    BY <1>1, KeysFact DEF AllKeys, Keys
  <2>2. luaH_get(tab, MAX_INT) = NoValue
    BY <2>1, luaH_getFact
  <2>3. QED
    BY <1>1, <2>2
<1>3. PICK m \in S : \A n \in S : m <= n
  <2>1. S \subseteq Nat /\ S # {}
    BY <1>2
  <2> HIDE DEF S
  <2>2. QED
    BY <2>1, Least
<1>4. m \in 1 .. MAX_INT /\ luaH_get(tab, m) = NoValue
  OBVIOUS
<1>5. \A k \in 1 .. m - 1 : luaH_get(tab, k) # NoValue
  <2>1. SUFFICES ASSUME NEW k \in 1 .. m - 1, luaH_get(tab, k) = NoValue PROVE FALSE
    OBVIOUS
  <2>2. k \in S /\ ~(m <= k)
    BY <2>1, <1>1, <1>4
  <2>3. QED
    BY <2>2, <1>3
<1> HIDE DEF S
<1>6. \E i \in 0 .. MAX_INT - 1 :
        luaH_get(tab, i + 1) = NoValue /\ \A k \in 1 .. i : luaH_get(tab, k) # NoValue
  <2>1. m - 1 \in 0 .. MAX_INT - 1 /\ (m - 1) + 1 = m
    BY <1>1, <1>4
  <2>2. QED
    BY <2>1, <1>4, <1>5
<1> DEFINE r == CHOOSE i \in 0 .. MAX_INT - 1 :
        luaH_get(tab, i + 1) = NoValue /\ \A k \in 1 .. i : luaH_get(tab, k) # NoValue
<1>7. r \in 0 .. MAX_INT - 1 /\ luaH_get(tab, r + 1) = NoValue /\ \A k \in 1 .. r : luaH_get(tab, k) # NoValue
  BY <1>6
<1>8. linear_search(tab) = r
  BY DEF linear_search
<1> HIDE DEF r
<1>9. r > 0 => r \in 1 .. r
  BY <1>1, <1>7
<1>10. QED
  BY <1>7, <1>8, <1>9 DEF Border

\* unbound_search gives each probe a result.
LEMMA DoublingExists ==
  ASSUME NEW tab, TabInv(tab)
  PROVE  \E f \in [Probe -> 0 .. MAX_INT] : \A p \in Probe : f[p] = Doubling(tab, f, p)
<1> DEFINE V == 0 .. MAX_INT
           Step == [p \in Probe |-> [f \in [Probe -> V] |-> Doubling(tab, f, p)]]
<1>1. Local(Probe, V, Larger, Step)
  <2>1. SUFFICES ASSUME NEW d \in Probe, NEW p \in [Probe -> V], NEW q \in [Probe -> V],
                        \A e \in Probe : e \in Larger[d] => p[e] = q[e]
                 PROVE  Step[d][p] = Step[d][q]
    BY DEF Local
  <2>2. CASE 2 * d[2] > MAX_INT
    BY <2>2 DEF Doubling
  <2>3. CASE ~(2 * d[2] > MAX_INT)
    <3>1. p[<<d[2], 2 * d[2]>>] = q[<<d[2], 2 * d[2]>>]
      BY <2>1, <2>3, ProbeFact
    <3>2. QED
      BY <3>1 DEF Doubling
  <2>4. QED
    BY <2>2, <2>3
<1>2. ASSUME NEW d \in Probe, NEW p \in [Probe -> V] PROVE Step[d][p] \in V
  <2>1. Between(tab, d[1], d[2]) \in V
    BY ProbeFact, BetweenFact
  <2>2. linear_search(tab) \in V
    BY linear_searchFact, PowersFact DEF Border
  <2>3. ~(2 * d[2] > MAX_INT) => p[<<d[2], 2 * d[2]>>] \in V
    BY ProbeFact
  <2>4. Doubling(tab, p, d) \in V
    BY <2>1, <2>2, <2>3 DEF Doubling
  <2>5. QED
    BY <2>4
<1>3. V # {}
  BY PowersFact
<1>4. \E f \in [Probe -> V] : \A p \in Probe : f[p] = Step[p][f]
  <2> HIDE DEF V, Step
  <2>1. \A d \in Probe : \A p \in [Probe -> V] : Step[d][p] \in V
    BY <1>2
  <2>2. QED
    BY <1>1, <1>3, <2>1, LargerFact, Recursion
<1>5. PICK f \in [Probe -> V] : \A p \in Probe : f[p] = Step[p][f]
  BY <1>4
<1>6. QED
  BY <1>5

\* unbound_search finds a border after the array part.
LEMMA unbound_searchFact ==
  ASSUME NEW tab, TabInv(tab), NEW j \in 0 .. MAX_INT - 1, j > 0 => luaH_get(tab, j) # NoValue
  PROVE  Border(tab, unbound_search(tab, j))
<1> DEFINE V == 0 .. MAX_INT
           double == CHOOSE f : f = [p \in (0 .. MAX_INT) \X (1 .. MAX_INT) |->
             IF luaH_get(tab, p[2]) = NoValue THEN Between(tab, p[1], p[2])
             ELSE IF 2 * p[2] > MAX_INT THEN linear_search(tab)
             ELSE f[<<p[2], 2 * p[2]>>]]
<1>1. unbound_search(tab, j) = double[<<j, j + 1>>]
  BY Zenon DEF unbound_search
<1>2. \E f \in [Probe -> V] : f = [p \in (0 .. MAX_INT) \X (1 .. MAX_INT) |->
             IF luaH_get(tab, p[2]) = NoValue THEN Between(tab, p[1], p[2])
             ELSE IF 2 * p[2] > MAX_INT THEN linear_search(tab)
             ELSE f[<<p[2], 2 * p[2]>>]]
  <2>1. PICK f \in [Probe -> V] : \A p \in Probe : f[p] = Doubling(tab, f, p)
    BY DoublingExists
  <2>2. QED
    BY <2>1 DEF Doubling, Probe
<1>3. double = [p \in (0 .. MAX_INT) \X (1 .. MAX_INT) |->
             IF luaH_get(tab, p[2]) = NoValue THEN Between(tab, p[1], p[2])
             ELSE IF 2 * p[2] > MAX_INT THEN linear_search(tab)
             ELSE double[<<p[2], 2 * p[2]>>]]
  BY <1>2, Zenon
<1> HIDE DEF double
<1>4. \A p \in Probe : double[p] = Doubling(tab, double, p)
  BY <1>3 DEF Doubling, Probe
<1> DEFINE Starts(p) == p[1] < p[2] /\ (p[1] > 0 => luaH_get(tab, p[1]) # NoValue)
           S == {p \in Probe : Starts(p) /\ ~Border(tab, double[p])}
<1>5. S = {}
  <2>1. SUFFICES ASSUME S # {} PROVE FALSE
    OBVIOUS
  <2>2. PICK p \in S : Larger[p] \cap S = {}
    <3>1. S \subseteq Probe
      OBVIOUS
    <3> HIDE DEF S
    <3>2. QED
      BY <2>1, <3>1, LargerFact DEF Founded
  <2>3. p \in Probe /\ Starts(p) /\ ~Border(tab, double[p])
    BY <2>2
  <2>4. CASE luaH_get(tab, p[2]) = NoValue
    <3>1. double[p] = Between(tab, p[1], p[2])
      BY <2>3, <2>4, <1>4 DEF Doubling
    <3>2. Border(tab, Between(tab, p[1], p[2]))
      BY <2>3, <2>4, ProbeFact, BetweenFact
    <3>3. QED
      BY <2>3, <3>1, <3>2
  <2>5. CASE luaH_get(tab, p[2]) # NoValue /\ 2 * p[2] > MAX_INT
    BY <2>3, <2>5, <1>4, linear_searchFact DEF Doubling
  <2>6. CASE luaH_get(tab, p[2]) # NoValue /\ ~(2 * p[2] > MAX_INT)
    <3> DEFINE q == <<p[2], 2 * p[2]>>
    <3>1. q \in Probe /\ q \in Larger[p] /\ double[p] = double[q]
      BY <2>3, <2>6, <1>4, ProbeFact DEF Doubling
    <3>2. q[1] = p[2] /\ q[2] = 2 * p[2] /\ p[2] < 2 * p[2]
      <4> DEFINE b == p[2]
      <4>1. b \in 1 .. MAX_INT
        BY <2>3, ProbeFact
      <4> HIDE DEF b
      <4>2. b < 2 * b
        BY <4>1, PowersFact
      <4>3. QED
        BY <4>2 DEF b
    <3> HIDE DEF q
    <3>3. Starts(q)
      BY <2>6, <3>2
    <3>4. q \in S
      BY <3>1, <3>3, <2>3
    <3>5. QED
      BY <3>1, <3>4, <2>2
  <2>7. QED
    BY <2>4, <2>5, <2>6
<1>6. <<j, j + 1>> \in Probe /\ Starts(<<j, j + 1>>)
  BY PowersFact DEF Probe
<1>7. QED
  BY <1>1, <1>5, <1>6

\* luaH_getn finds a border of every table.
LEMMA luaH_getnFact ==
  ASSUME NEW tab, TabInv(tab)
  PROVE  Border(tab, luaH_getn(tab))
<1> DEFINE j == Len(tab.array)
<1>1. j \in 0 .. MAXASIZE /\ j \in 0 .. MAX_INT - 1 /\ j \in 0 .. MAX_INT /\ j \in Nat /\ j + 1 \in AllKeys
  BY PowersFact DEF TabInv, TabType, AllKeys
<1>2. /\ j > 0 => luaH_get(tab, j) = tab.array[j]
      /\ ~InArray(tab, j + 1)
  <2>1. j > 0 => InArray(tab, j)
    BY <1>1, InArrayFact
  <2>2. ~InArray(tab, j + 1)
    BY <1>1, InArrayFact
  <2>3. QED
    BY <2>1, <2>2 DEF luaH_get
<1> HIDE DEF j
<1>3. luaH_getn(tab) = IF j > 0 /\ tab.array[j] = NoValue THEN Between(tab, 0, j)
                       ELSE IF tab.dummy THEN j ELSE unbound_search(tab, j)
  BY DEF luaH_getn, j
<1>4. CASE j > 0 /\ tab.array[j] = NoValue
  <2>1. 0 \in 0 .. MAX_INT
    BY PowersFact
  <2>2. 0 < j /\ luaH_get(tab, j) = NoValue
    BY <1>2, <1>4
  <2>3. Border(tab, Between(tab, 0, j))
    <3>1. ~(0 > 0)
      OBVIOUS
    <3>2. QED
      BY <1>1, <2>1, <2>2, <3>1, BetweenFact
  <2>4. QED
    BY <1>3, <1>4, <2>3
<1>5. CASE ~(j > 0 /\ tab.array[j] = NoValue) /\ tab.dummy
  <2>1. sizenode(tab) = 1 /\ tab.node[1].key = NoKey /\ Hashed(tab)
    BY <1>5 DEF TabInv, Passed
  <2>2. NodeOf(tab, j + 1) = 0
    BY <2>1, <1>1, HasNode, KeysFact
  <2>3. luaH_get(tab, j + 1) = NoValue
    BY <1>2, <2>2 DEF luaH_get
  <2>4. QED
    BY <1>1, <1>2, <1>3, <1>5, <2>3 DEF Border
<1>6. CASE ~(j > 0 /\ tab.array[j] = NoValue) /\ ~tab.dummy
  BY <1>1, <1>2, <1>3, <1>6, unbound_searchFact
<1>7. QED
  BY <1>4, <1>5, <1>6

\* #t is a border of every table a program can make.
THEOREM TableLength == TableSpec => []LengthIsBorder
<1>1. TableInv => LengthIsBorder
  BY luaH_getnFact DEF TableInv, LengthIsBorder, Border
<1>2. QED
  BY TableInvariant, <1>1, PTL
=============================================================================
