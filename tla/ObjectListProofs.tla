-------------------------- MODULE ObjectListProofs --------------------------
(***************************************************************************)
(* Proofs about what a script is given of a battle, for every set of       *)
(* objects, values and delays: the objects of a character (ObjectList),    *)
(* and the delayed values of the enemy (DataDelay), as MCBattle puts them  *)
(* together.                                                               *)
(*                                                                         *)
(* The walk of the game's list is exact because what it has at any moment  *)
(* is a prefix of the list, and the node to be read next the first one     *)
(* after that prefix (Walked); no object is in the list twice (Distinct).  *)
(* What the script counts to is right because nothing touches the objects  *)
(* between the end of a poll and the next ReloadObject (Counted).          *)
(*                                                                         *)
(* enemy_frame: the array always holds the last delay samples, with zeros  *)
(* where there are none yet (FrameHolds), so that its front is the value   *)
(* that the abstract DelayLine gives out; each step of yield() is a step   *)
(* of that line or a stutter.  Arrays that hold something older than the   *)
(* script are those that it has not yet called yield with (OldOnlyAtLoad). *)
(***************************************************************************)
EXTENDS MCBattle, SequenceTheorems, TLAPS

Steps == {"base", "fields", "list", "first", "walk", "object", "lua", "hit", "script"}

TypeOK ==
  /\ list \in Seq(Objects) /\ stable \in BOOLEAN
  /\ pc \in Steps
  /\ next \in Pointers /\ val \in Objects \cup {Null}
  /\ size \in Nat /\ k \in Nat
  /\ object \in Seq(Obj)

Distinct == \A i, j \in 1 .. Len(list) : list[i] = list[j] => i = j

Counted ==
  /\ pc \in {"base", "fields", "list", "hit", "script"} => obj_n = Len(object)
  /\ pc = "script" => obj_dis2 = IF object = <<>> THEN "far" ELSE "near"

\* The first n nodes of the list, and the one after them.
Seen(n) == [i \in 1 .. n |-> [addr |-> list[i], attached |-> list[i] \in Attached]]
After(n) == IF n = Len(list) THEN Sentinel ELSE list[n + 1]

Walked ==
  stable =>
    /\ battle
    /\ pc = "first" => object = <<>> /\ k = 0 /\ size = Len(list)
    /\ pc = "walk" =>
         k <= Len(list) /\ size = Len(list) /\ object = Seen(k) /\ next = After(k)
    /\ pc = "object" =>
         /\ k < Len(list) /\ size = Len(list) /\ object = Seen(k)
         /\ val = list[k + 1] /\ next = After(k + 1)
    /\ pc = "lua" => object = Seen(Len(list))

ListInv == TypeOK /\ Distinct /\ Counted /\ Walked

-----------------------------------------------------------------------------
LEMMA RemoveAtFacts ==
  ASSUME NEW S, NEW s \in Seq(S), NEW i \in 1 .. Len(s)
  PROVE  /\ RemoveAt(s, i) \in Seq(S)
         /\ Len(RemoveAt(s, i)) = Len(s) - 1
         /\ \A j \in 1 .. Len(s) - 1 : RemoveAt(s, i)[j] = IF j < i THEN s[j] ELSE s[j + 1]
<1> DEFINE a == SubSeq(s, 1, i - 1)
           b == SubSeq(s, i + 1, Len(s))
<1>0. Len(s) \in Nat
  BY LenProperties
<1>1. \A j \in 1 .. Len(s) : s[j] \in S
  BY ElementOfSeq
<1>2. a \in Seq(S) /\ Len(a) = i - 1 /\ \A j \in 1 .. i - 1 : a[j] = s[j]
  <2>1. \A j \in 1 .. i - 1 : s[j] \in S
    BY <1>0, <1>1
  <2>2. QED
    BY <1>0, <2>1, SubSeqProperties
<1>3. b \in Seq(S) /\ Len(b) = Len(s) - i /\ \A j \in 1 .. Len(s) - i : b[j] = s[j + i]
  <2>1. \A j \in i + 1 .. Len(s) : s[j] \in S
    BY <1>0, <1>1
  <2>2. QED
    BY <1>0, <2>1, SubSeqProperties
<1> HIDE DEF a, b
<1>4. /\ a \o b \in Seq(S) /\ Len(a \o b) = Len(s) - 1
      /\ \A j \in 1 .. Len(s) - 1 : (a \o b)[j] = IF j <= i - 1 THEN a[j] ELSE b[j - (i - 1)]
  <2>1. /\ a \o b \in Seq(S) /\ Len(a \o b) = Len(a) + Len(b)
        /\ \A j \in 1 .. Len(a) + Len(b) : (a \o b)[j] = IF j <= Len(a) THEN a[j] ELSE b[j - Len(a)]
    BY <1>2, <1>3, ConcatProperties
  <2>2. Len(a) = i - 1 /\ Len(a) + Len(b) = Len(s) - 1
    BY <1>0, <1>2, <1>3
  <2>3. QED
    BY <2>1, <2>2
<1>5. ASSUME NEW j \in 1 .. Len(s) - 1
      PROVE  (a \o b)[j] = IF j < i THEN s[j] ELSE s[j + 1]
  <2>1. CASE j < i
    <3>1. j \in 1 .. i - 1 /\ j <= i - 1
      BY <1>0, <2>1
    <3>2. QED
      BY <1>2, <1>4, <2>1, <3>1
  <2>2. CASE ~(j < i)
    <3>1. ~(j <= i - 1) /\ j - (i - 1) \in 1 .. Len(s) - i /\ j - (i - 1) + i = j + 1
      BY <1>0, <2>2
    <3>2. (a \o b)[j] = b[j - (i - 1)]
      BY <1>4, <3>1
    <3>3. b[j - (i - 1)] = s[j - (i - 1) + i]
      BY <1>3, <3>1
    <3>4. QED
      BY <2>2, <3>1, <3>2, <3>3
  <2>3. QED
    BY <2>1, <2>2
<1>6. QED
  BY <1>4, <1>5 DEF RemoveAt, a, b

LEMMA ListDomain == TypeOK => DOMAIN list = 1 .. Len(list)
  BY LenProperties DEF TypeOK

LEMMA LiveFacts ==
  ASSUME TypeOK
  PROVE  /\ Live \subseteq Objects /\ Len(list) \in Nat
         /\ \A i \in 1 .. Len(list) : list[i] \in Live
         /\ \A o \in Live : \E i \in 1 .. Len(list) : list[i] = o
<1>1. Len(list) \in Nat
  BY LenProperties DEF TypeOK
<1>2. \A i \in 1 .. Len(list) : list[i] \in Objects
  BY ElementOfSeq DEF TypeOK
<1>3. QED
  BY <1>1, <1>2, ListDomain DEF Live, ToSet

LEMMA ListInit == Init => ListInv
<1> SUFFICES ASSUME Init PROVE ListInv
  OBVIOUS
<1>1. TypeOK
  BY EmptySeq DEF Init, TypeOK, Steps, Pointers
<1>2. Distinct /\ Counted /\ Walked
  BY DEF Init, Distinct, Counted, Walked
<1>3. QED
  BY <1>1, <1>2 DEF ListInv

\* The game's steps: the list stays one without duplicates.
LEMMA GameInv == ASSUME ListInv, Game PROVE ListInv'
<1> USE DEF ListInv
<1>1. /\ ~stable' /\ stable' \in BOOLEAN
      /\ UNCHANGED <<pc, base_addr, next, val, size, k, object, obj_n, obj_dis2>>
  BY DEF Game, iter, lua
<1>2. list' \in Seq(Objects) /\ Distinct'
  <2>1. CASE EnterBattle \/ LeaveBattle
    <3>1. list' = <<>>
      BY <2>1 DEF EnterBattle, LeaveBattle
    <3>2. list' \in Seq(Objects) /\ Len(list') = 0
      BY <3>1
    <3>3. QED
      BY <3>2 DEF Distinct
  <2>2. ASSUME NEW o \in Objects, Spawn(o) PROVE list' \in Seq(Objects) /\ Distinct'
    <3>1. \A i \in 1 .. Len(list) : list[i] # o
      BY <2>2, LiveFacts DEF Spawn
    <3>2. /\ list' \in Seq(Objects) /\ Len(list') = Len(list) + 1
          /\ list'[Len(list) + 1] = o /\ \A i \in 1 .. Len(list) : list'[i] = list[i]
          /\ Len(list) \in Nat
      BY <2>2, AppendProperties, LenProperties DEF Spawn, TypeOK
    <3>3. QED
      BY <3>1, <3>2 DEF Distinct
  <2>3. ASSUME NEW i \in DOMAIN list, Vanish(i) PROVE list' \in Seq(Objects) /\ Distinct'
    <3>1. i \in 1 .. Len(list) /\ Len(list) \in Nat
      BY ListDomain, LiveFacts
    <3>2. /\ list' \in Seq(Objects) /\ Len(list') = Len(list) - 1
          /\ \A j \in 1 .. Len(list) - 1 : list'[j] = IF j < i THEN list[j] ELSE list[j + 1]
      BY <2>3, <3>1, RemoveAtFacts DEF Vanish, TypeOK
    <3>3. QED
      BY <3>1, <3>2 DEF Distinct
  <2>4. QED
    BY <2>1, <2>2, <2>3 DEF Game
<1>3. QED
  BY <1>1, <1>2 DEF TypeOK, Counted, Walked

-----------------------------------------------------------------------------
(* The bot's steps.                                                            *)

\* Those that leave the walk's variables alone: nothing is claimed of a walk between its
\* end and the next one's begin.
LEMMA OutsideInv ==
  ASSUME ListInv, ReloadBaseAddr \/ Reload \/ ReloadLuaValue \/ is_bullethit \/ CallYield
  PROVE  ListInv'
<1> USE DEF ListInv
<1>1. UNCHANGED <<battle, list, stable, next, val, size, k, object>>
  BY DEF ReloadBaseAddr, Reload, ReloadLuaValue, is_bullethit, CallYield, game, iter
<1>2. pc' \in {"fields", "hit", "list", "base", "script"}
  BY DEF ReloadBaseAddr, Reload, ReloadLuaValue, is_bullethit, CallYield
<1>3. TypeOK'
  BY <1>1, <1>2 DEF TypeOK, Steps
<1>4. Distinct'
  BY <1>1 DEF Distinct
<1>5. Counted'
  <2>1. CASE ReloadBaseAddr \/ Reload \/ CallYield
    BY <1>1, <2>1 DEF Counted, ReloadBaseAddr, Reload, CallYield, lua
  <2>2. CASE ReloadLuaValue
    BY <1>1, <2>2 DEF Counted, ReloadLuaValue
  <2>3. CASE is_bullethit
    BY <1>1, <2>3 DEF Counted, is_bullethit
  <2>4. QED
    BY <2>1, <2>2, <2>3
<1>6. Walked'
  BY <1>1, <1>2 DEF Walked
<1>7. QED
  BY <1>3, <1>4, <1>5, <1>6

LEMMA HeaderInv == ASSUME ListInv, ReloadObject PROVE ListInv'
<1> USE DEF ListInv
<1>1. object' = <<>> /\ UNCHANGED <<battle, list, next, val>>
  BY DEF ReloadObject, iter
<1>2. \/ /\ battle /\ pc' = "first" /\ size' = Len(list) /\ k' = 0 /\ stable' = TRUE
      \/ ~battle /\ pc' = "lua" /\ UNCHANGED <<size, k, stable>>
  BY DEF ReloadObject
<1>3. TypeOK'
  <2>1. Len(list) \in Nat
    BY LiveFacts
  <2>2. object' \in Seq(Obj)
    BY <1>1
  <2>3. stable' \in BOOLEAN
    BY <1>2 DEF TypeOK
  <2>4. size' \in Nat /\ k' \in Nat /\ pc' \in Steps
    BY <1>2, <2>1 DEF TypeOK, Steps
  <2>5. QED
    BY <1>1, <2>2, <2>3, <2>4 DEF TypeOK
<1>4. Distinct'
  BY <1>1 DEF Distinct
<1>5. Counted'
  BY <1>2 DEF Counted
<1>6. Walked'
  BY <1>1, <1>2 DEF Walked
<1>7. QED
  BY <1>3, <1>4, <1>5, <1>6

\* What a successful read of a node gives.
LEMMA SuccessorIsNext ==
  ASSUME ListInv, NEW i \in 1 .. Len(list)
  PROVE  Successor(list[i]) = After(i)
<1> USE DEF ListInv
<1>1. Len(list) \in Nat
  BY LiveFacts
<1>2. CASE i = Len(list)
  BY <1>2 DEF Successor, After, Last
<1>3. CASE i # Len(list)
  <2>0. Len(list) \in 1 .. Len(list) /\ i + 1 \in 2 .. Len(list) /\ i + 1 - 1 = i
    BY <1>1, <1>3
  <2>1. list[i] # Last(list)
    BY <1>3, <2>0 DEF Distinct, Last
  <2>2. i + 1 \in 2 .. Len(list) /\ list[i + 1 - 1] = list[i]
    BY <2>0
  <2>3. \A j \in 2 .. Len(list) : list[j - 1] = list[i] => j = i + 1
    BY <1>1 DEF Distinct
  <2>4. (CHOOSE j \in 2 .. Len(list) : list[j - 1] = list[i]) = i + 1
    BY <2>2, <2>3
  <2>5. Successor(list[i]) = list[CHOOSE j \in 2 .. Len(list) : list[j - 1] = list[i]]
    BY <2>1 DEF Successor
  <2>6. QED
    BY <1>3, <2>4, <2>5 DEF After
<1>4. QED
  BY <1>2, <1>3

LEMMA ReadNodeTypes ==
  ASSUME ListInv, NEW p \in Pointers, ReadNode(p)
  PROVE  next' \in Pointers /\ val' \in Objects \cup {Null}
<1> USE DEF ListInv
<1>1. CASE ~Readable(p)
  BY <1>1 DEF ReadNode
<1>2. CASE Readable(p) /\ p # Sentinel
  <2>1. PICK i \in 1 .. Len(list) : list[i] = p
    BY <1>2, LiveFacts DEF Readable
  <2>2. next' = After(i) /\ val' = p
    BY <1>2, <2>1, SuccessorIsNext DEF ReadNode
  <2>3. After(i) \in Pointers
    <3>1. i # Len(list) => i + 1 \in 1 .. Len(list)
      BY LiveFacts
    <3>2. i # Len(list) => list[i + 1] \in Objects
      BY <3>1, LiveFacts
    <3>3. QED
      BY <3>2 DEF After, Pointers
  <2>4. QED
    BY <1>2, <2>2, <2>3, LiveFacts DEF Readable
<1>3. CASE Readable(p) /\ p = Sentinel
  <2>1. val' = Null /\ next' = IF list = <<>> THEN Sentinel ELSE Head(list)
    BY <1>3 DEF ReadNode
  <2>2. list # <<>> => Head(list) \in Objects
    BY HeadTailProperties DEF TypeOK
  <2>3. QED
    BY <2>1, <2>2 DEF Pointers
<1>4. QED
  BY <1>1, <1>2, <1>3

LEMMA ReadHeadInv == ASSUME ListInv, ReadHead PROVE ListInv'
<1> USE DEF ListInv
<1>1. pc = "first" /\ UNCHANGED <<battle, list, stable, base_addr, object, obj_n, obj_dis2>>
  BY DEF ReadHead, game, lua
<1>2. CASE ReadFails(Sentinel)
  <2>1. ~battle /\ pc' = "lua" /\ next' = Null /\ val' = Null /\ size' = 0 /\ k' = 0
    BY <1>2 DEF ReadFails, Return, Readable
  <2>2. TypeOK'
    BY <1>1, <2>1 DEF TypeOK, Steps, Pointers
  <2>3. Distinct' /\ Counted' /\ Walked'
    BY <1>1, <2>1 DEF Distinct, Counted, Walked
  <2>4. QED
    BY <2>2, <2>3
<1>3. CASE ReadNode(Sentinel) /\ pc' = "walk" /\ UNCHANGED <<size, k>>
  <2>1. next' \in Pointers /\ val' \in Objects \cup {Null}
    BY <1>3, ReadNodeTypes DEF Pointers
  <2>2. TypeOK'
    BY <1>1, <1>3, <2>1 DEF TypeOK, Steps
  <2>3. Distinct' /\ Counted'
    BY <1>1, <1>3 DEF Distinct, Counted
  <2>4. Walked'
    <3> SUFFICES ASSUME stable PROVE Walked'
      BY <1>1 DEF Walked
    <3>1. battle /\ object = <<>> /\ k = 0 /\ size = Len(list)
      BY <1>1 DEF Walked
    <3>2. next' = IF list = <<>> THEN Sentinel ELSE Head(list)
      BY <1>3, <3>1 DEF ReadNode, Readable
    <3>3. next' = After(0)
      <4>1. CASE list = <<>>
        BY <3>2, <4>1 DEF After
      <4>2. CASE list # <<>>
        <5>1. Len(list) # 0
          BY <4>2, EmptySeq DEF TypeOK
        <5>2. QED
          BY <3>2, <4>2, <5>1 DEF After, TypeOK
      <4>3. QED
        BY <4>1, <4>2
    <3>4. object = Seen(0)
      BY <3>1 DEF Seen
    <3>5. 0 <= Len(list)
      BY LiveFacts
    <3>6. After(0)' = After(0) /\ Seen(0)' = Seen(0)
      BY <1>1 DEF After, Seen
    <3>7. QED
      BY <1>1, <1>3, <3>1, <3>3, <3>4, <3>5, <3>6 DEF Walked
  <2>5. QED
    BY <2>2, <2>3, <2>4
<1>4. QED
  BY <1>2, <1>3 DEF ReadHead

LEMMA WalkInv == ASSUME ListInv, Walk PROVE ListInv'
<1> USE DEF ListInv
<1>1. pc = "walk" /\ UNCHANGED <<battle, list, stable, base_addr, object, obj_n, obj_dis2>>
  BY DEF Walk, game, lua
<1>2. next \in Pointers
  BY DEF TypeOK
<1>3. stable => k \in 0 .. Len(list) /\ size = Len(list) /\ object = Seen(k) /\ next = After(k) /\ battle
  BY <1>1, LiveFacts DEF Walked, TypeOK
<1>4. stable /\ k # Len(list) => k + 1 \in 1 .. Len(list) /\ More /\ Readable(next)
  <2> SUFFICES ASSUME stable, k # Len(list)
               PROVE  k + 1 \in 1 .. Len(list) /\ More /\ Readable(next)
    OBVIOUS
  <2>1. k + 1 \in 1 .. Len(list) /\ size > k
    BY <1>3, LiveFacts
  <2>2. next = list[k + 1] /\ next \in Live /\ next \in Objects
    BY <1>3, <2>1, LiveFacts DEF After
  <2>3. QED
    BY <2>1, <2>2, AddressAssumption DEF More, Readable
<1>5. CASE Return
  <2>1. pc' = "lua" /\ next' = Null /\ val' = Null /\ size' = 0 /\ k' = 0
    BY <1>5 DEF Return
  <2>2. TypeOK'
    BY <1>1, <2>1 DEF TypeOK, Steps, Pointers
  <2>3. Distinct' /\ Counted'
    BY <1>1, <2>1 DEF Distinct, Counted
  <2>4. stable => k = Len(list)
    BY <1>1, <1>4, <1>5, <2>1 DEF Walk, ReadFails
  <2>5. Walked'
    BY <1>1, <1>3, <2>1, <2>4 DEF Walked, Seen
  <2>6. QED
    BY <2>2, <2>3, <2>5
<1>6. CASE More /\ ReadNode(next) /\ pc' = "object" /\ UNCHANGED <<size, k>>
  <2>1. next' \in Pointers /\ val' \in Objects \cup {Null}
    BY <1>2, <1>6, ReadNodeTypes
  <2>2. TypeOK'
    BY <1>1, <1>6, <2>1 DEF TypeOK, Steps
  <2>3. Distinct' /\ Counted'
    BY <1>1, <1>6 DEF Distinct, Counted
  <2>4. Walked'
    <3> SUFFICES ASSUME stable PROVE Walked'
      BY <1>1 DEF Walked
    <3>1. k # Len(list)
      BY <1>3, <1>6 DEF More, After
    <3>2. k + 1 \in 1 .. Len(list) /\ next = list[k + 1] /\ next # Sentinel /\ Readable(next)
      BY <1>3, <1>4, <1>6, <3>1 DEF More, After
    <3>3. val' = list[k + 1] /\ next' = After(k + 1)
      BY <1>6, <3>2, SuccessorIsNext DEF ReadNode
    <3>4. k < Len(list)
      BY <3>2, LiveFacts DEF TypeOK
    <3>5. Seen(k)' = Seen(k) /\ After(k + 1)' = After(k + 1)
      BY <1>1, <1>6 DEF Seen, After
    <3>6. QED
      BY <1>1, <1>3, <1>6, <3>3, <3>4, <3>5 DEF Walked
  <2>5. QED
    BY <2>2, <2>3, <2>4
<1>7. QED
  BY <1>5, <1>6 DEF Walk, ReadFails

LEMMA SeenIsSeq ==
  ASSUME ListInv, NEW m \in 0 .. Len(list)
  PROVE  Seen(m) \in Seq(Obj) /\ Len(Seen(m)) = m
<1>1. Len(list) \in Nat /\ m \in Nat
  BY LiveFacts DEF ListInv
<1>2. \A j \in 1 .. m : list[j] \in Objects
  <2>1. \A j \in 1 .. m : j \in 1 .. Len(list)
    BY <1>1
  <2>2. QED
    BY <2>1, LiveFacts DEF ListInv
<1>3. Seen(m) \in [1 .. m -> Obj]
  BY <1>2 DEF Seen, Obj
<1>4. QED
  BY <1>1, <1>3 DEF Seen

LEMMA SeenOneMore ==
  ASSUME ListInv, NEW m \in 0 .. Len(list) - 1, NEW o,
         o = [addr |-> list[m + 1], attached |-> list[m + 1] \in Attached]
  PROVE  Append(Seen(m), o) = Seen(m + 1)
<1>0. Len(list) \in Nat
  BY LiveFacts DEF ListInv
<1>1. m \in 0 .. Len(list) /\ m + 1 \in 0 .. Len(list) /\ m + 1 \in 1 .. Len(list) /\ m \in Nat
  BY <1>0
<1>2. o \in Obj
  BY <1>1, LiveFacts DEF ListInv, Obj
<1>3. Seen(m) \in Seq(Obj) /\ Len(Seen(m)) = m /\ Seen(m + 1) \in Seq(Obj) /\ Len(Seen(m + 1)) = m + 1
  BY <1>1, SeenIsSeq
<1>4. /\ Append(Seen(m), o) \in Seq(Obj) /\ Len(Append(Seen(m), o)) = m + 1
      /\ \A j \in 1 .. m : Append(Seen(m), o)[j] = Seen(m)[j]
      /\ Append(Seen(m), o)[m + 1] = o
  BY <1>2, <1>3, AppendProperties
<1>5. Seen(m + 1)[m + 1] = o
  BY <1>1 DEF Seen
<1>6. \A j \in 1 .. m : Seen(m)[j] = Seen(m + 1)[j]
  BY <1>1 DEF Seen
<1>7. \A j \in 1 .. m + 1 : Append(Seen(m), o)[j] = Seen(m + 1)[j]
  BY <1>1, <1>4, <1>5, <1>6
<1>8. QED
  BY <1>3, <1>4, <1>7, SeqEqual

LEMMA ReadObjectInv == ASSUME ListInv, ReadObject PROVE ListInv'
<1> USE DEF ListInv
<1>1. /\ pc = "object" /\ pc' = "walk" /\ k' = k + 1
      /\ UNCHANGED <<battle, list, stable, next, val, size, obj_n, obj_dis2>>
  BY DEF ReadObject, game, iter, lua
<1>2. PICK a \in BOOLEAN :
        /\ object' = Append(object, [addr |-> val, attached |-> a])
        /\ val \in Live => a = (val \in Attached)
  BY DEF ReadObject
<1>3. [addr |-> val, attached |-> a] \in Obj
  BY DEF TypeOK, Obj
<1>4. object' \in Seq(Obj)
  BY <1>2, <1>3, AppendProperties DEF TypeOK
<1>5. TypeOK'
  BY <1>1, <1>4 DEF TypeOK, Steps
<1>6. Distinct' /\ Counted'
  BY <1>1 DEF Distinct, Counted
<1>7. Walked'
  <2> SUFFICES ASSUME stable PROVE Walked'
    BY <1>1 DEF Walked
  <2>1. /\ k < Len(list) /\ size = Len(list) /\ object = Seen(k) /\ battle
        /\ val = list[k + 1] /\ next = After(k + 1)
    BY <1>1 DEF Walked
  <2>2. k \in 0 .. Len(list) - 1 /\ k + 1 \in 1 .. Len(list) /\ k + 1 <= Len(list)
    BY <2>1, LiveFacts DEF TypeOK
  <2>3. val \in Live
    BY <2>1, <2>2, LiveFacts
  <2>4. object' = Seen(k + 1)
    BY <1>2, <2>1, <2>2, <2>3, SeenOneMore
  <2>5. Seen(k)' = Seen(k + 1) /\ After(k)' = After(k + 1)
    BY <1>1 DEF Seen, After
  <2>6. QED
    BY <1>1, <2>1, <2>2, <2>4, <2>5 DEF Walked
<1>8. QED
  BY <1>5, <1>6, <1>7

LEMMA ListNext == ASSUME ListInv, [Next]_vars PROVE ListInv'
<1>1. CASE UNCHANGED vars
  BY <1>1 DEF vars, game, iter, lua, ListInv, TypeOK, Distinct, Counted, Walked, Seen, After
<1>2. QED
  BY <1>1, GameInv, OutsideInv, HeaderInv, ReadHeadInv, WalkInv, ReadObjectInv DEF Next, Poll

LEMMA ListInvariance == Spec => []ListInv
<1>1. ListInv /\ [Next]_vars => ListInv'
  BY ListNext
<1>2. QED
  BY <1>1, ListInit, PTL DEF Spec

\* If the game leaves the list alone while the bot walks it, the bot ends with each object
\* of the list once and in its order (character.cpp:411-425), however many there are.
THEOREM ExactWalk == Spec => []WalkIsExact
<1>1. ListInv => WalkIsExact
  BY DEF ListInv, Walked, Seen, WalkIsExact
<1>2. QED
  BY <1>1, ListInvariance, PTL

\* What a script counts with enemy_obj_n is what get_obj_data gives it, and obj_dis2 is that
\* of an object exactly when there is one, wherever the last reload was broken off
\* (obj_base.cpp:39-59, character.cpp:377-421, main.cpp:1007-1023).
THEOREM CountIsSeen == Spec => []ScriptSeesCount
<1>1. ASSUME ListInv, pc = "script", NEW i \in 0 .. obj_n
      PROVE  (lua_get_obj_data(i) = NoObject) = (i = obj_n)
  <2>1. obj_n = Len(object) /\ object \in Seq(Obj) /\ Len(object) \in Nat
    BY <1>1, LenProperties DEF ListInv, TypeOK, Counted
  <2>2. CASE i = obj_n
    BY <2>1, <2>2 DEF lua_get_obj_data
  <2>3. CASE i # obj_n
    <3>1. i + 1 \in 1 .. Len(object) /\ ~(i >= Len(object))
      BY <2>1, <2>3
    <3>2. object[i + 1] \in Obj
      BY <2>1, <3>1, ElementOfSeq
    <3>3. object[i + 1] # NoObject
      BY <3>2, AddressAssumption DEF Obj, NoObject, Null
    <3>4. lua_get_obj_data(i) = object[i + 1]
      BY <3>1 DEF lua_get_obj_data
    <3>5. QED
      BY <2>3, <3>3, <3>4
  <2>4. QED
    BY <2>2, <2>3
<1>2. ASSUME ListInv, pc = "script" PROVE (obj_dis2 = "near") = (obj_n > 0)
  <2>1. obj_n = Len(object) /\ object \in Seq(Obj)
    BY <1>2 DEF ListInv, TypeOK, Counted
  <2>2. object = <<>> <=> Len(object) = 0
    BY <2>1, EmptySeq
  <2>3. QED
    BY <1>2, <2>1, <2>2, LenProperties DEF ListInv, Counted
<1>3. ListInv => ScriptSeesCount
  BY <1>1, <1>2 DEF ScriptSeesCount
<1>4. QED
  BY <1>3, ListInvariance, PTL

-----------------------------------------------------------------------------
\* What yield() delays.

DelayTypeOK ==
  /\ data_delay \in Delays \cup {0}
  /\ delay \in Delays \cup {0}
  /\ delay_pc \in {"load", "script", "wait"}
  /\ sampled \in Seq(D!Samples)
  /\ age \in Nat

\* A script that is being loaded has asked for no delay; until its first yield the
\* arrays of the script before it may be there.
OldOnlyAtLoad ==
  /\ delay_pc = "load" => data_delay = 0
  /\ delay > 0 /\ delay_pc # "load" => Len(sampled) <= age

\* The sample that is to be read i frames from now, as far as it is taken.
Held(i) ==
  IF Len(sampled) - delay + i >= 1 THEN sampled[Len(sampled) - delay + i].frame ELSE 0

FrameHolds == frame = [i \in 1 .. delay |-> Held(i)]

DelayInv == DelayTypeOK /\ OldOnlyAtLoad /\ FrameHolds

-----------------------------------------------------------------------------
LEMMA DelayInit == D!Init => DelayInv
<1> SUFFICES ASSUME D!Init PROVE DelayInv
  OBVIOUS
<1>1. DelayTypeOK /\ OldOnlyAtLoad
  BY DEF D!Init, DelayTypeOK, OldOnlyAtLoad
<1>2. frame = [i \in 1 .. 0 |-> Held(i)]
  BY DEF D!Init
<1>3. QED
  BY <1>1, <1>2 DEF DelayInv, FrameHolds, D!Init

LEMMA SetDelayInv ==
  ASSUME DelayInv, NEW d \in Delays, D!set_data_delay(d)
  PROVE  DelayInv'
BY DelaysAssumption DEF DelayInv, DelayTypeOK, OldOnlyAtLoad, FrameHolds, Held, D!set_data_delay, D!lines

LEMMA BeginInv ==
  ASSUME DelayInv, D!yield_begin
  PROVE  DelayInv'
<1> USE DelaysAssumption DEF DelayInv, D!yield_begin, D!lines
<1>1. CASE data_delay = delay
  BY <1>1 DEF DelayTypeOK, OldOnlyAtLoad, FrameHolds, Held
<1>2. CASE data_delay # delay
  <2>1. /\ delay' = data_delay /\ data_delay \in Nat /\ sampled' = <<>>
        /\ frame' = [i \in 1 .. data_delay |-> 0]
        /\ delay_pc' = "wait" /\ UNCHANGED <<data_delay, age>>
    BY <1>2 DEF DelayTypeOK, D!Zeros
  <2>2. DelayTypeOK'
    BY <2>1 DEF DelayTypeOK
  <2>3. OldOnlyAtLoad'
    BY <2>1 DEF OldOnlyAtLoad, DelayTypeOK
  <2>4. \A i \in 1 .. delay' : Held(i)' = 0
    BY <2>1 DEF Held
  <2>5. FrameHolds'
    BY <2>1, <2>4 DEF FrameHolds
  <2>6. QED
    BY <2>2, <2>3, <2>5
<1>3. QED
  BY <1>1, <1>2

LEMMA SampleAppended ==
  ASSUME NEW seq \in Seq(D!Samples), NEW s \in D!Samples
  PROVE  /\ Append(seq, s) \in Seq(D!Samples) /\ Len(Append(seq, s)) = Len(seq) + 1
         /\ Append(seq, s)[Len(seq) + 1] = s
         /\ \A j \in 1 .. Len(seq) : Append(seq, s)[j] = seq[j]
         /\ Len(seq) \in Nat
BY AppendProperties, LenProperties

LEMMA EndInv ==
  ASSUME DelayInv, NEW s \in D!Samples, D!yield_end(s)
  PROVE  DelayInv'
<1> USE DelaysAssumption, MaxFramesAssumption DEF DelayInv
<1>1. /\ delay_pc = "wait" /\ delay_pc' = "script" /\ sampled' = Append(sampled, s)
      /\ age' = D!Count(age) /\ Len(sampled) < MaxFrames /\ UNCHANGED <<data_delay, delay>>
      /\ delay \in Nat
  BY DEF D!yield_end, DelayTypeOK
<1>2. /\ sampled \in Seq(D!Samples) /\ sampled' \in Seq(D!Samples)
      /\ Len(sampled) \in Nat /\ Len(sampled') = Len(sampled) + 1
      /\ sampled'[Len(sampled) + 1] = s
      /\ \A j \in 1 .. Len(sampled) : sampled'[j] = sampled[j]
  BY <1>1, SampleAppended DEF DelayTypeOK
<1>3. DelayTypeOK'
  BY <1>1, <1>2 DEF DelayTypeOK, D!Count
<1>4. OldOnlyAtLoad'
  BY <1>1, <1>2 DEF OldOnlyAtLoad, DelayTypeOK, D!Count
<1>5. FrameHolds'
  <2>1. CASE delay = 0
    <3>1. frame' = frame /\ frame = [i \in 1 .. 0 |-> Held(i)]
      BY <2>1 DEF D!yield_end, D!lines, FrameHolds
    <3>2. frame' = [i \in 1 .. 0 |-> Held(i)']
      BY <3>1
    <3>3. QED
      BY <1>1, <2>1, <3>2 DEF FrameHolds
  <2>2. CASE delay > 0
    <3>1. frame' = D!Shift(frame, frame, s.frame)
      BY <2>2 DEF D!yield_end
    <3>2. DOMAIN frame = 1 .. delay /\ Len(frame) = delay
      BY <1>1 DEF FrameHolds
    <3>3. frame' = [i \in 1 .. delay |-> IF i = delay THEN s.frame ELSE frame[i + 1]]
      BY <3>1, <3>2 DEF D!Shift
    <3>4. ASSUME NEW i \in 1 .. delay
          PROVE  (IF i = delay THEN s.frame ELSE frame[i + 1]) = Held(i)'
      <4>1. CASE i = delay
        BY <1>1, <1>2, <4>1 DEF Held
      <4>2. CASE i # delay
        <5>1. i + 1 \in 1 .. delay
          BY <1>1, <4>2
        <5>2. frame[i + 1] = Held(i + 1)
          BY <5>1 DEF FrameHolds
        <5>3. Held(i + 1) = Held(i)'
          BY <1>1, <1>2, <5>1 DEF Held
        <5>4. QED
          BY <4>2, <5>2, <5>3
      <4>3. QED
        BY <4>1, <4>2
    <3>5. QED
      BY <1>1, <3>3, <3>4 DEF FrameHolds
  <2>3. QED
    BY <1>1, <2>1, <2>2
<1>6. QED
  BY <1>3, <1>4, <1>5

LEMMA ReloadInv ==
  ASSUME DelayInv, D!reload
  PROVE  DelayInv'
BY DEF DelayInv, DelayTypeOK, OldOnlyAtLoad, FrameHolds, Held, D!reload, D!lines

LEMMA DelayNext == ASSUME DelayInv, [D!Next]_(D!vars) PROVE DelayInv'
<1>1. CASE UNCHANGED D!vars
  BY <1>1 DEF DelayInv, DelayTypeOK, OldOnlyAtLoad, FrameHolds, Held, D!vars, D!lines
<1>2. QED
  BY <1>1, SetDelayInv, BeginInv, EndInv, ReloadInv DEF D!Next

\* A step of a battle is a step of yield() and the script, or leaves them alone.
LEMMA DelaySteps ==
  [ObjectsStep \/ DelayStep]_<<part, vars, delays>> => [D!Next]_(D!vars)
  BY DEF ObjectsStep, DelayStep, delays, D!vars, D!lines

LEMMA DelayInvariance == MCSpec => []DelayInv
<1>1. MCInit => DelayInv
  BY DelayInit DEF MCInit
<1>2. DelayInv /\ [ObjectsStep \/ DelayStep]_<<part, vars, delays>> => DelayInv'
  BY DelayNext, DelaySteps
<1>3. QED
  BY <1>1, <1>2, PTL DEF MCSpec

\* A script never reads what yield() sampled for the script before it, whatever delays the
\* two asked for and wherever in a yield the reload came (main.cpp:813-835).
THEOREM BattleOwnSamples == MCSpec => []OwnSamples
<1>1. DelayInv => OwnSamples
  BY DEF DelayInv, OldOnlyAtLoad, OwnSamples, D!OwnSamples
<1>2. QED
  BY <1>1, DelayInvariance, PTL

-----------------------------------------------------------------------------
(* The refinement: yield()'s array implements the abstract line.               *)

FramesOf(seq) == [i \in DOMAIN seq |-> seq[i].frame]

LEMMA FramesOfAppend ==
  ASSUME NEW seq \in Seq(D!Samples), NEW s \in D!Samples
  PROVE  FramesOf(Append(seq, s)) = Append(FramesOf(seq), s.frame)
<1>1. /\ Append(seq, s) \in Seq(D!Samples) /\ Len(Append(seq, s)) = Len(seq) + 1
      /\ Append(seq, s)[Len(seq) + 1] = s
      /\ \A j \in 1 .. Len(seq) : Append(seq, s)[j] = seq[j]
      /\ Len(seq) \in Nat
  BY SampleAppended
<1>2. DOMAIN seq = 1 .. Len(seq) /\ DOMAIN Append(seq, s) = 1 .. Len(seq) + 1
  BY <1>1, LenProperties
<1>3. /\ FramesOf(seq) \in Seq(Values) /\ Len(FramesOf(seq)) = Len(seq)
      /\ \A j \in 1 .. Len(seq) : FramesOf(seq)[j] = seq[j].frame
  <2>0. \A j \in 1 .. Len(seq) : seq[j] \in D!Samples
    BY ElementOfSeq
  <2>1. \A j \in 1 .. Len(seq) : seq[j].frame \in Values
    BY <2>0 DEF D!Samples
  <2>2. FramesOf(seq) \in [1 .. Len(seq) -> Values]
    BY <1>2, <2>1 DEF FramesOf
  <2>3. QED
    BY <1>1, <1>2, <2>2 DEF FramesOf
<1>4. /\ FramesOf(Append(seq, s)) \in Seq(Values)
      /\ Len(FramesOf(Append(seq, s))) = Len(seq) + 1
      /\ \A j \in 1 .. Len(seq) + 1 : FramesOf(Append(seq, s))[j] = Append(seq, s)[j].frame
  <2>0. \A j \in 1 .. Len(seq) + 1 : Append(seq, s)[j] \in D!Samples
    BY <1>1, ElementOfSeq
  <2>1. \A j \in 1 .. Len(seq) + 1 : Append(seq, s)[j].frame \in Values
    BY <2>0 DEF D!Samples
  <2>2. FramesOf(Append(seq, s)) \in [1 .. Len(seq) + 1 -> Values]
    BY <1>2, <2>1 DEF FramesOf
  <2>3. QED
    BY <1>1, <1>2, <2>2 DEF FramesOf
<1>5. /\ Append(FramesOf(seq), s.frame) \in Seq(Values)
      /\ Len(Append(FramesOf(seq), s.frame)) = Len(seq) + 1
      /\ Append(FramesOf(seq), s.frame)[Len(seq) + 1] = s.frame
      /\ \A j \in 1 .. Len(seq) : Append(FramesOf(seq), s.frame)[j] = seq[j].frame
  BY <1>3, AppendProperties DEF D!Samples
<1>6. \A j \in 1 .. Len(seq) + 1 :
        FramesOf(Append(seq, s))[j] = Append(FramesOf(seq), s.frame)[j]
  BY <1>1, <1>4, <1>5
<1>7. QED
  BY <1>4, <1>5, <1>6, SeqEqual

LEMMA EndTicks ==
  ASSUME DelayInv, NEW s \in D!Samples, D!yield_end(s)
  PROVE  D!FrameLine!Tick(s.frame)
<1> DEFINE before == FramesOf(sampled)
           after == FramesOf(sampled')
<1>1. /\ sampled \in Seq(D!Samples) /\ sampled' = Append(sampled, s) /\ delay' = delay
      /\ delay \in Nat /\ sampled' \in Seq(D!Samples)
      /\ Len(sampled) \in Nat /\ Len(sampled') = Len(sampled) + 1
      /\ sampled'[Len(sampled) + 1] = s
      /\ \A j \in 1 .. Len(sampled) : sampled'[j] = sampled[j]
  <2>1. sampled \in Seq(D!Samples) /\ sampled' = Append(sampled, s) /\ delay' = delay /\ delay \in Nat
    BY DelaysAssumption DEF D!yield_end, DelayInv, DelayTypeOK
  <2>2. QED
    BY <2>1, SampleAppended
<1>2. after = Append(before, s.frame)
  BY <1>1, FramesOfAppend
<1>3. /\ Len(after) = Len(sampled) + 1
      /\ \A j \in 1 .. Len(sampled) + 1 : after[j] = sampled'[j].frame
  BY <1>1, LenProperties DEF FramesOf
<1>4. out'.frame = IF Len(after) > delay THEN after[Len(after) - delay] ELSE 0
  <2>1. CASE delay = 0
    <3>1. out'.frame = s.frame
      BY <2>1 DEF D!yield_end
    <3>2. after[Len(after) - delay] = s.frame
      BY <1>1, <1>3, <2>1
    <3>3. QED
      BY <1>1, <1>3, <2>1, <3>1, <3>2
  <2>2. CASE delay > 0
    <3>1. out'.frame = frame[1]
      BY <2>2 DEF D!yield_end
    <3>2. frame[1] = Held(1)
      BY <1>1, <2>2 DEF DelayInv, FrameHolds
    <3>3. CASE Len(sampled) - delay + 1 >= 1
      <4>1. Held(1) = sampled[Len(sampled) - delay + 1].frame
        BY <3>3 DEF Held
      <4>2. after[Len(after) - delay] = sampled[Len(sampled) - delay + 1].frame
        BY <1>1, <1>3, <2>2, <3>3
      <4>3. QED
        BY <1>1, <1>3, <3>1, <3>2, <3>3, <4>1, <4>2
    <3>4. CASE ~(Len(sampled) - delay + 1 >= 1)
      <4>1. Held(1) = 0
        BY <3>4 DEF Held
      <4>2. QED
        BY <1>1, <1>3, <3>1, <3>2, <3>4, <4>1
    <3>5. QED
      BY <3>3, <3>4
  <2>3. QED
    BY <1>1, <2>1, <2>2
<1>5. QED
  BY <1>1, <1>2, <1>4 DEF D!FrameLine!Tick, D!FrameLine!Blank, FramesOf

LEMMA BeginChanges ==
  ASSUME DelayInv, D!yield_begin
  PROVE  UNCHANGED D!FrameLine!lineVars \/ \E d \in Delays \cup {0} : D!FrameLine!Change(d)
<1>1. CASE data_delay = delay
  BY <1>1 DEF D!yield_begin, D!FrameLine!lineVars
<1>2. CASE data_delay # delay
  <2>1. PICK d \in Delays \cup {0} : d = data_delay
    BY DEF DelayInv, DelayTypeOK
  <2>2. d # delay /\ delay' = d /\ sampled' = <<>> /\ UNCHANGED out
    BY <1>2, <2>1 DEF D!yield_begin
  <2>3. FramesOf(sampled') = <<>>
    BY <2>2 DEF FramesOf
  <2>4. D!FrameLine!Change(d)
    BY <2>2, <2>3 DEF D!FrameLine!Change, FramesOf
  <2>5. QED
    BY <2>4
<1>3. QED
  BY <1>1, <1>2

\* enemy_frame is read exactly delay frames late, through every change of the delay and
\* every reload (main.cpp:813-835, 894-908, document.txt:168-170): every step of yield()
\* and of the scripts maps to a step of DelayLine or to none.
THEOREM BattleFrameDelayed == MCSpec => FrameDelayed
<1>1. D!Init => D!FrameLine!LineInit
  <2> SUFFICES ASSUME D!Init PROVE D!FrameLine!LineInit
    OBVIOUS
  <2>1. FramesOf(sampled) = <<>>
    BY DEF D!Init, FramesOf
  <2>2. QED
    BY <2>1 DEF D!Init, D!NoSample, D!FrameLine!LineInit, D!FrameLine!Blank, FramesOf
<1>2. DelayInv /\ [D!Next]_(D!vars) => [D!FrameLine!LineNext]_(D!FrameLine!lineVars)
  <2> SUFFICES ASSUME DelayInv, [D!Next]_(D!vars) PROVE [D!FrameLine!LineNext]_(D!FrameLine!lineVars)
    OBVIOUS
  <2>1. ASSUME NEW d \in Delays, D!set_data_delay(d) PROVE UNCHANGED D!FrameLine!lineVars
    BY <2>1 DEF D!set_data_delay, D!FrameLine!lineVars
  <2>2. ASSUME NEW s \in D!Samples, D!yield_end(s) PROVE D!FrameLine!LineNext
    BY <2>2, EndTicks DEF D!FrameLine!LineNext, D!Samples
  <2>3. ASSUME D!reload PROVE D!FrameLine!LineNext
    BY <2>3 DEF D!reload, D!NoSample, D!FrameLine!LineNext, D!FrameLine!Restart, D!FrameLine!Blank
  <2>4. ASSUME UNCHANGED D!vars PROVE UNCHANGED D!FrameLine!lineVars
    BY <2>4 DEF D!vars, D!FrameLine!lineVars
  <2>5. QED
    BY <2>1, <2>2, <2>3, <2>4, BeginChanges DEF D!Next, D!FrameLine!LineNext
<1>3. QED
  <2>1. MCInit => D!Init
    BY DEF MCInit
  <2>2. QED
    BY <1>1, <1>2, <2>1, DelaySteps, DelayInvariance, PTL
       DEF MCSpec, FrameDelayed, D!FrameDelayed, D!FrameLine!LineSpec
=============================================================================
