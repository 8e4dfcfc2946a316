------------------------------ MODULE LuaTable ------------------------------
(***************************************************************************)
(* The tables of Lua (ltable.c).  A table has an array part, for the keys  *)
(* 1 to its size, and a hash part of nodes, whose size is a power of 2.    *)
(* The nodes that collide are chained through the hash part itself: a key  *)
(* that finds its main position taken by one out of its own moves that one *)
(* away.  A key that finds no free node makes the table choose the sizes   *)
(* of both parts anew (rehash).                                            *)
(*                                                                         *)
(* Nodes are numbered from 1, and 0 is no node.  Keys are integers and     *)
(* strings, with the hash of each; metatables and memory are left out.     *)
(***************************************************************************)
EXTENDS Integers, FiniteSets, Sequences, SequencesExt

CONSTANTS
  Numbers,  \* the integer keys that are given values
  Strings,  \* the string keys in use
  Hash,     \* the hash of each: the sum of a double's words, or tsv.hash
  Values,
  NoValue,  \* nil
  MAXBITS, MAX_INT,
  MaxSizes  \* bound: the sizes a table is created with

VARIABLES
  tbl,       \* the table
  visiting,  \* a traversal goes on
  key,       \* the key it has reached, NoKey at its start
  seen       \* history: the keys it has visited

tableVars == <<tbl, visiting, key, seen>>

Keys == Numbers \cup Strings
NoKey == 0

twoto[i \in 0 .. MAXBITS] == IF i = 0 THEN 1 ELSE 2 * twoto[i - 1]
Powers == {twoto[i] : i \in 0 .. MAXBITS}
MAXASIZE == twoto[MAXBITS]

ASSUME SizesAssumption ==
  /\ MAXBITS \in Nat /\ MAX_INT \in Nat /\ MAXASIZE < MAX_INT
  /\ MaxSizes \in 0 .. MAXASIZE

\* Not every int is a key at once, and no table overflows: memory is less.
ASSUME KeysAssumption ==
  /\ Numbers \subseteq 1 .. MAX_INT - 1 /\ Strings \cap Nat = {}
  /\ IsFiniteSet(Strings) /\ Cardinality(Keys) <= MAXASIZE
  /\ Hash \in [1 .. MAX_INT \cup Strings -> Nat]
  /\ NoValue \notin Values

-----------------------------------------------------------------------------
EmptyNode == [key |-> NoKey, val |-> NoValue, next |-> 0]
sizenode(tab) == Len(tab.node)

\* hashpow2 for strings, hashmod for numbers.
mainposition(tab, k) ==
  LET size == sizenode(tab)
  IN 1 + (Hash[k] % (IF k \in Strings \/ size = 1 THEN size ELSE size - 1))

\* The key's node, searched along the chain of its main position.
NodeOf(tab, k) ==
  LET search[n \in 0 .. sizenode(tab)] ==
        IF n = 0 \/ tab.node[n].key = k THEN n ELSE search[tab.node[n].next]
  IN search[mainposition(tab, k)]

InArray(tab, k) == k \notin Strings /\ k \in 1 .. Len(tab.array)

luaH_get(tab, k) ==
  IF InArray(tab, k) THEN tab.array[k]
  ELSE LET n == NodeOf(tab, k) IN IF n = 0 THEN NoValue ELSE tab.node[n].val

-----------------------------------------------------------------------------
\* getfreepos: lastfree goes down to a node without a key; 0 when there is none.
getfreepos(tab) ==
  LET free == {n \in 1 .. tab.lastfree - 1 : tab.node[n].key = NoKey}
  IN IF free = {} THEN 0 ELSE CHOOSE n \in free : \A m \in free : m <= n

\* setnodevector, and setarrayvector's fresh part.
Nodes(size) ==
  LET rooms == {p \in Powers : p >= size}
  IN [n \in 1 .. CHOOSE p \in rooms : \A q \in rooms : p <= q |-> EmptyNode]
Nils(n) == [i \in 1 .. n |-> NoValue]
luaH_new(narray, nhash) ==
  [array |-> Nils(narray), node |-> Nodes(nhash), dummy |-> nhash = 0,
   lastfree |-> IF nhash = 0 THEN 0 ELSE Len(Nodes(nhash)) + 1]

\* Fault: the chain of the node that moved still leads to its old place.
MutMovedAway(node, mp, n, k, v) ==
  [node EXCEPT ![mp] = [key |-> k, val |-> v, next |-> 0], ![n] = node[mp]]

\* The node at mp moves to n, and the one that led to it leads there; the key
\* takes its place.
MovedAway(node, mp, n, k, v) ==
  [i \in DOMAIN node |->
     CASE i = mp -> [key |-> k, val |-> v, next |-> 0]
       [] i = n -> node[mp]
       [] OTHER -> IF node[i].next = mp THEN [node[i] EXCEPT !.next = n] ELSE node[i]]

\* newkey, when a node is free (n), or the main position is.
Placed(tab, k, v, n) ==
  LET mp == mainposition(tab, k)
      at == tab.node[mp]
  IN IF at.val = NoValue THEN [tab.node EXCEPT ![mp] = [key |-> k, val |-> v, next |-> at.next]]
     ELSE IF mainposition(tab, at.key) # mp THEN MovedAway(tab.node, mp, n, k, v)
     ELSE [tab.node EXCEPT ![mp] = [at EXCEPT !.next = n],
                           ![n] = [key |-> k, val |-> v, next |-> at.next]]

NeedsNode(tab, k) == tab.node[mainposition(tab, k)].val # NoValue \/ tab.dummy

\* luaH_set and an assignment to what it returns, in a table that has room.
SetInRoom(tab, k, v) ==
  IF InArray(tab, k) THEN [tab EXCEPT !.array[k] = v]
  ELSE LET n == NodeOf(tab, k) IN
       IF n # 0 THEN [tab EXCEPT !.node[n].val = v]
       ELSE LET free == IF NeedsNode(tab, k) THEN getfreepos(tab) ELSE 0
            IN [tab EXCEPT !.node = Placed(tab, k, v, free),
                           !.lastfree = IF free = 0 THEN @ ELSE free]

-----------------------------------------------------------------------------
\* computesizes: the largest power of 2 such that the integer keys up to it fill
\* more than half of it, one of them its upper half.
computesizes(ints) ==
  LET UpTo(n) == Cardinality({k \in ints : k <= n})
      optimal == {p \in Powers :
                    /\ UpTo(p) > p \div 2 /\ UpTo(p) > UpTo(p \div 2)
                    /\ p \div 2 < Cardinality(ints)}
  IN IF optimal = {} THEN 0 ELSE CHOOSE p \in optimal : \A q \in optimal : q <= p

\* resize: the part of the array that goes, then the old nodes from the last,
\* are put into the new parts, which have room for them.
resize(tab, nasize, nhsize) ==
  LET old == Len(tab.array)
      fresh == [luaH_new(0, nhsize) EXCEPT
                  !.array = [i \in 1 .. nasize |-> IF i <= old THEN tab.array[i] ELSE NoValue]]
      vanishing == SubSeq([i \in 1 .. old |-> [key |-> i, val |-> tab.array[i]]], nasize + 1, old)
      pairs == vanishing \o Reverse(tab.node)
      moved[n \in 0 .. Len(pairs)] ==
        IF n = 0 THEN fresh
        ELSE IF pairs[n].val = NoValue THEN moved[n - 1]
        ELSE SetInRoom(moved[n - 1], pairs[n].key, pairs[n].val)
  IN moved[Len(pairs)]

\* rehash: numusearray, numusehash and countint count the keys with a value, and
\* the one to come.
InUse(tab) ==
  {k \in 1 .. Len(tab.array) : tab.array[k] # NoValue} \cup
  {tab.node[n].key : n \in {m \in 1 .. sizenode(tab) : tab.node[m].val # NoValue}}
rehash(tab, k) ==
  LET used == InUse(tab) \cup {k}
      ints == {i \in used \ Strings : i <= MAXASIZE}
      nasize == computesizes(ints)
      na == Cardinality({i \in ints : i <= nasize})
  IN resize(tab, nasize, Cardinality(used) - na)

\* luaH_set, luaH_setnum, luaH_setstr and newkey.
luaH_set(tab, k, v) ==
  IF ~InArray(tab, k) /\ NodeOf(tab, k) = 0 /\ NeedsNode(tab, k) /\ getfreepos(tab) = 0
  THEN SetInRoom(rehash(tab, k), k, v)
  ELSE SetInRoom(tab, k, v)

-----------------------------------------------------------------------------
\* The binary search of luaH_getn and unbound_search: i has a value, or is 0,
\* and j has none.
Between(tab, i, j) ==
  LET search[p \in (0 .. MAX_INT) \X (0 .. MAX_INT)] ==
        LET m == (p[1] + p[2]) \div 2 IN
        IF p[2] - p[1] <= 1 THEN p[1]
        ELSE IF luaH_get(tab, m) = NoValue THEN search[<<p[1], m>>]
        ELSE search[<<m, p[2]>>]
  IN search[<<i, j>>]

\* Fault: a value at the end of the array part is the last.
Mutunbound_search(tab, j) == j

\* unbound_search doubles j until it has no value; if it gets too large it counts
\* from 1 instead.
linear_search(tab) ==
  CHOOSE i \in 0 .. MAX_INT - 1 :
    luaH_get(tab, i + 1) = NoValue /\ \A k \in 1 .. i : luaH_get(tab, k) # NoValue
unbound_search(tab, j) ==
  LET double[p \in (0 .. MAX_INT) \X (1 .. MAX_INT)] ==
        LET k == p[2] IN
        IF luaH_get(tab, k) = NoValue THEN Between(tab, p[1], k)
        ELSE IF 2 * k > MAX_INT THEN linear_search(tab)
        ELSE double[<<k, 2 * k>>]
  IN double[<<j, j + 1>>]

luaH_getn(tab) ==
  LET j == Len(tab.array) IN
  IF j > 0 /\ tab.array[j] = NoValue THEN Between(tab, 0, j)
  ELSE IF tab.dummy THEN j
  ELSE unbound_search(tab, j)

\* findindex: the place of a key in the order of a traversal, 0 before the first.
findindex(tab, k) ==
  IF k = NoKey THEN 0 ELSE IF InArray(tab, k) THEN k ELSE Len(tab.array) + NodeOf(tab, k)

\* luaH_next: the key of the next place with a value, NoKey when there is none.
luaH_next(tab, k) ==
  LET size == Len(tab.array)
      places == {i \in findindex(tab, k) + 1 .. size + sizenode(tab) :
                   IF i <= size THEN tab.array[i] # NoValue ELSE tab.node[i - size].val # NoValue}
  IN IF places = {} THEN NoKey
     ELSE LET i == CHOOSE i \in places : \A j \in places : i <= j
          IN IF i <= size THEN i ELSE tab.node[i - size].key

-----------------------------------------------------------------------------
TableInit ==
  /\ \E narray, nhash \in 0 .. MaxSizes : tbl = luaH_new(narray, nhash)
  /\ visiting = FALSE /\ key = NoKey /\ seen = {}

\* t[k] = v: in a traversal, only of a key that has a value.
Assign(k, v) ==
  /\ visiting => luaH_get(tbl, k) # NoValue
  /\ tbl' = luaH_set(tbl, k, v)
  /\ UNCHANGED <<visiting, key, seen>>

\* A constructor with n items (OP_SETLIST) calls luaH_resizearray before it assigns
\* them, if they are more than the array takes.
luaH_resizearray(tab, nasize) ==
  resize(tab, nasize, IF tab.dummy THEN 0 ELSE sizenode(tab))
Construct(n) ==
  /\ ~visiting /\ n > Len(tbl.array)
  /\ tbl' = luaH_resizearray(tbl, n)
  /\ UNCHANGED <<visiting, key, seen>>

Begin == ~visiting /\ visiting' = TRUE /\ UNCHANGED <<tbl, key, seen>>

\* next(t, key).
Visit ==
  /\ visiting
  /\ key' = luaH_next(tbl, key)
  /\ visiting' = (key' # NoKey)
  /\ seen' = IF key' = NoKey THEN {} ELSE seen \cup {key'}
  /\ UNCHANGED tbl

TableNext ==
  \/ \E k \in Keys, v \in Values \cup {NoValue} : Assign(k, v)
  \/ \E n \in 1 .. MaxSizes : Construct(n)
  \/ Begin \/ Visit

TableSpec == TableInit /\ [][TableNext]_tableVars

-----------------------------------------------------------------------------
\* A table behaves as the function that LuaTableSpec promises, however its keys
\* collide, move and change parts, and next visits every key once even while
\* fields are cleared (ltable.c:162-179, 297-324, 399-429, 469-505).
Promise ==
  INSTANCE LuaTableSpec WITH map <- [k \in Keys |-> luaH_get(tbl, k)], Nil <- NoValue
Implements == Promise!Spec

\* #t is a border: t[#t] has a value, or #t is 0, and t[#t + 1] has none
\* (ltable.c:532-576).
LengthIsBorder ==
  LET n == luaH_getn(tbl)
  IN (n > 0 => luaH_get(tbl, n) # NoValue) /\ luaH_get(tbl, n + 1) = NoValue
=============================================================================
